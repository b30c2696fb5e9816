--------------------------- MODULE MCFetchBridge ---------------------------
(* FetchBridge for TLC; the configuration gives all its constants.         *)
EXTENDS FetchBridge
=============================================================================
