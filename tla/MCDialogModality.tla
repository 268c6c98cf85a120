-------------------------- MODULE MCDialogModality --------------------------
(***************************************************************************)
(* DialogModality for TLC.  No action and no property tells one dialog or  *)
(* one scope root from another, so TLC may take them as interchangeable.   *)
(***************************************************************************)
EXTENDS DialogModality, TLC

Interchangeable == Permutations(Dialog) \cup Permutations(Root)
=============================================================================
