----------------------------- MODULE MCCtrlLoop -----------------------------
(***************************************************************************)
(* Instances of CtrlLoop for TLC.                                          *)
(***************************************************************************)
EXTENDS CtrlLoop

Run(main, withShv, finalTime) ==
  [main |-> main, shv |-> withShv, finalTime |-> finalTime]

(* Every program with and without SHV, without -f and with one. *)
AllBuilds ==
  {Run(m, s, f) : m \in {"linux", "nuttx"}, s \in BOOLEAN, f \in {0, 2}}
    \union {Run("timerhook", s, 0) : s \in BOOLEAN}
    \union {Run(m, FALSE, f) : m \in {"sim", "systick"}, f \in {0, 2}}
    \union {Run("bare", FALSE, 0)}

TimerHookShv == {Run("timerhook", TRUE, 0)}
LinuxShv == {Run("linux", TRUE, 0)}

(* A program whose usage text offers -f although it does not store it. *)
NuttxFinalTime == {Run("nuttx", FALSE, 2)}
=============================================================================
