-------------------------- MODULE MCBrowserController --------------------------
(* Small instances of BrowserController. *)
EXTENDS BrowserController

MCPages ==
    {[outcome |-> "ok", seen |-> "clean"], [outcome |-> "gateway", seen |-> "error"]}
=============================================================================
