------------------------------- MODULE Common -------------------------------
(***************************************************************************)
(* What the modules that one run puts side by side share: None stands for  *)
(* no object, no reference, no value.                                      *)
(***************************************************************************)
CONSTANT None
=============================================================================
