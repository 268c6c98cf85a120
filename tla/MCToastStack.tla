---------------------------- MODULE MCToastStack ----------------------------
(***************************************************************************)
(* ToastStack for TLC.  Controls multiply the states and one toast that    *)
(* has them is enough for the focus to be on one that is patched away,     *)
(* removed with its toast, or beside the Dismiss-all button: consumers     *)
(* give them to the first toast only.                                      *)
(***************************************************************************)
EXTENDS ToastStack

FirstShowsControls == \A t \in Toast \ {1} : controls[t] = {}

FirstShowsSpec == Init /\ [][Next /\ FirstShowsControls']_vars /\ Fairness
=============================================================================
