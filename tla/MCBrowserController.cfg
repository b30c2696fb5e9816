CONSTANTS
  FetchJobs = {j1, j2}
  FormJobs = {j1}
  None = None
  DocumentIds = FALSE
  Pages <- MCPages
  RetryBudget = 2
  MaxResends = 1
  MaxRequests = 2
  MaxDisturbances = 1
  MaxDisturbedJobs = 1
SPECIFICATION ControllerSpec
INVARIANTS NoStaleWork PostedWasAccepted OneSubmitPerPage
