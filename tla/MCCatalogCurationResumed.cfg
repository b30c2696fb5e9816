SPECIFICATION Spec
CONSTANTS
  Builds = {1, 2, 3}
  Universities = {1}
  Observations = {1, 2, 3}
  Home <- MCHome
  Key <- MCKey
  Crawls <- MCCrawls
  NoCrawl = NoCrawl
  Retention = 50
  MaxFaults = 1
  Entities = {1, 2, 3}
  Claims <- MCClaims
  MaxOverrides = 1
PROPERTIES DeactivatesOnlyMissing
