--------------------------- MODULE ModelProtocol ---------------------------
(***************************************************************************)
(* The contract between a generated model and the main program that drives *)
(* it.  RCPgen.py writes five entry points into <model>.c:                 *)
(*                                                                         *)
(*   MODEL_init      CG_INIT of every block: devices are opened            *)
(*   MODEL_isr       CG_OUT / CG_STUPD of every block: one sample          *)
(*   MODEL_end       CG_END of every block: devices are closed             *)
(*   MODEL_com_init  builds the SHV tree and starts the SHV thread         *)
(*   MODEL_com_end   stops the SHV thread and destroys the tree            *)
(*                                                                         *)
(* None of them checks its caller, so every main must call them in an      *)
(* order the blocks survive.  This module states which orders those are;   *)
(* a main program is correct when it implements Spec.                      *)
(***************************************************************************)

VARIABLES
  blocks,  (* "down": CG_INIT has not run since the last CG_END; "up": it has *)
  com,     (* "off" before MODEL_com_init, "on", "ended" by MODEL_com_end     *)
  call     (* the entry point that was called last                            *)

vars == <<blocks, com, call>>

Calls == {"none", "init", "isr", "end", "com_init", "com_fail", "com_end"}

Init ==
  /\ blocks = "down"
  /\ com = "off"
  /\ call = "none"

(* CG_INIT opens devices and allocates the blocks' working memory: a       *)
(* second one without a CG_END between leaks both.  A pause leaves the     *)
(* communication as it is and a resume finds it "already ongoing"          *)
(* (platform.h): no model is started once it has been shut down.           *)
ModelInit ==
  /\ blocks = "down"
  /\ com # "ended"
  /\ blocks' = "up"
  /\ call' = "init"
  /\ UNCHANGED com

ModelIsr ==
  /\ blocks = "up"
  /\ call' = "isr"
  /\ UNCHANGED <<blocks, com>>

ModelEnd ==
  /\ blocks = "up"
  /\ blocks' = "down"
  /\ call' = "end"
  /\ UNCHANGED com

(* The SHV tree points to the blocks' signals and parameters, which        *)
(* MODEL_init sets up, and one tree and one thread is all a process has.   *)
ComInit ==
  /\ call # "none"
  /\ com = "off"
  /\ \/ com' = "on" /\ call' = "com_init"
     \/ com' = "off" /\ call' = "com_fail"
  /\ UNCHANGED blocks

(* Once, and only what was begun; before MODEL_end or after it.            *)
ComEnd ==
  /\ com = "on"
  /\ com' = "ended"
  /\ call' = "com_end"
  /\ UNCHANGED blocks

Next == ModelInit \/ ModelIsr \/ ModelEnd \/ ComInit \/ ComEnd

Spec == Init /\ [][Next]_vars
=============================================================================
