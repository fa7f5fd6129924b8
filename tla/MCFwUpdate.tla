----------------------------- MODULE MCFwUpdate -----------------------------
(***************************************************************************)
(* Instances of FwUpdate for TLC.                                          *)
(***************************************************************************)
EXTENDS FwUpdate

(* One half at a time. *)
Halves == {{"shell"}, {"target"}}

ShellHalf == {{"shell"}}
=============================================================================
