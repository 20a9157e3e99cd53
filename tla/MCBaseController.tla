-------------------------- MODULE MCBaseController --------------------------
(***************************************************************************)
(* Instances of BaseController for TLC: see the .cfg files.                *)
(***************************************************************************)
EXTENDS BaseController

=============================================================================
