----------------------------- MODULE MCTabsStore -----------------------------
(***************************************************************************)
(* Instance of TabsStore for TLC: one workspace, two tabs, three panes.    *)
(***************************************************************************)
EXTENDS TabsStore

CONSTANT w1
==============================================================================
