---------------------------- MODULE PausableLoop ----------------------------
(***************************************************************************)
(* What a main program promises to whoever pauses it: platform.h, on       *)
(* NAME(MODEL, _pausectrl), _resumectrl and _getctrlstate.  A loop that is *)
(* stopped begins no sample, and it says that it runs from before its      *)
(* first sample until after its last.  CtrlLoop implements this; FwUpdate  *)
(* relies on nothing more.                                                 *)
(***************************************************************************)

VARIABLES
  stopped,   \* pt_ctx.ctrlloopend
  state,     \* pt_ctx.running_state: PYSIM_MODEL_CTRLLOOP_...
  sampling   \* a sample is being computed

loopVars == <<stopped, state, sampling>>

LoopTypeOK ==
  /\ stopped \in BOOLEAN
  /\ state \in {"RUNNING", "NOTRUNNING"}
  /\ sampling \in BOOLEAN

LoopInit ==
  /\ stopped = FALSE
  /\ state = "NOTRUNNING"
  /\ sampling = FALSE

Pause == stopped' = TRUE /\ UNCHANGED <<state, sampling>>

Resume == stopped' = FALSE /\ UNCHANGED <<state, sampling>>

Announce ==
  /\ state' = "RUNNING"
  /\ UNCHANGED <<stopped, sampling>>

BeginSample ==
  /\ state = "RUNNING" /\ ~stopped /\ ~sampling
  /\ sampling' = TRUE
  /\ UNCHANGED <<stopped, state>>

EndSample ==
  /\ sampling /\ sampling' = FALSE
  /\ UNCHANGED <<stopped, state>>

Withdraw ==
  /\ ~sampling
  /\ state' = "NOTRUNNING"
  /\ UNCHANGED <<stopped, sampling>>

LoopStep == Announce \/ BeginSample \/ EndSample \/ Withdraw

LoopNext == LoopStep \/ Pause \/ Resume

LoopSpec == LoopInit /\ [][LoopNext]_loopVars
=============================================================================
