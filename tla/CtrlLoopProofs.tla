--------------------------- MODULE CtrlLoopProofs ---------------------------
(***************************************************************************)
(* What holds of CtrlLoop for every set of builds, every final time and    *)
(* every overrun.                                                          *)
(***************************************************************************)
EXTENDS CtrlLoop, TLAPS

-----------------------------------------------------------------------------
(* The inductive invariant, one conjunct per idea.                         *)

Locks ==
  /\ mutex = "rt" <=> pc \in {"test", "cond"}
  /\ mutex = "shv" <=> shv \in {"store", "signal", "unlock"}

(* The RT task joins the wait queue with ctrlloopend set, and whoever      *)
(* clears it afterwards holds the mutex until it has signalled.            *)
Waits ==
  /\ waiting => pc = "wait"
  /\ pc = "cond" => ctrlloopend
  /\ NoLostResume

Samples ==
  /\ ~Stopped \/ pc = "isr" => late = 0
  /\ AtMostOneLateSample

(* Between the request and the reply nothing clears ctrlloopend, and a      *)
(* program without SHV has no client.                                      *)
Requests ==
  /\ request # "none" => build.shv
  /\ shv \in {"resume", "store"} => request = "resume"
  /\ request = "pause" => ctrlloopend

Reports ==
  /\ pc # "exit" /\ build.main \notin Plain =>
       (running_state = "RUNNING"
          <=> pc \in {"loop", "isr", "check", "end", "notrunning"})
  /\ request = "pause" /\ answer = "NOTRUNNING" => pc # "isr"

Lifecycle ==
  /\ pc # "exit" =>
       (blocks = "up" <=> pc \in {"com_init", "com_set", "settle", "loop",
                                  "isr", "check", "end"})
  /\ shv # "off" \/ com_inited \/ pc = "com_set" => build.shv
  /\ pc = "start" => shv = "off" /\ ~com_inited
  /\ pc = "com_set" => ~com_inited
  /\ shv # "off" => com_inited \/ pc = "com_set"
  /\ pc = "done" => shv = "off"
  /\ call = "com_end" => pc = "done"
  /\ blocks = "up" => call # "none"

IInv ==
  /\ TypeOK
  /\ Locks
  /\ Waits
  /\ Samples
  /\ Requests
  /\ Reports
  /\ Lifecycle

-----------------------------------------------------------------------------
(* Static storage satisfies the invariant. *)
LEMMA InitEstablishes == Init => IInv
<1> SUFFICES ASSUME Init PROVE IInv
  OBVIOUS
<1> USE DEF Init
<1>1. TypeOK
  <2>0. MaxTime \in Nat
    BY BoundsAssumption
  <2>1. RtTypeOK /\ CtxTypeOK /\ OtherTypeOK
    BY DEF RtTypeOK, CtxTypeOK, OtherTypeOK, RtLabels, ShvLabels
  <2>2. TimeTypeOK
    BY <2>0 DEF TimeTypeOK
  <2>3. QED
    BY <2>1, <2>2 DEF TypeOK
<1>2. Locks /\ Waits /\ Samples
  BY DEF Locks, Waits, NoLostResume, Samples, AtMostOneLateSample
<1>3. Requests /\ Reports /\ Lifecycle
  BY DEF Requests, Reports, Lifecycle
<1>4. QED
  BY <1>1, <1>2, <1>3 DEF IInv

(* Every step of the RT task, the SHV thread and the signal keeps the      *)
(* variables in their ranges; one lemma for each part of the type.         *)
LEMMA RtTypePreserved == TypeOK /\ [Next]_vars => RtTypeOK'
<1> SUFFICES ASSUME TypeOK, [Next]_vars PROVE RtTypeOK'
  OBVIOUS
<1> USE DEF TypeOK, RtTypeOK, RtLabels, Goto, ctx, time, client, model, vars
<1>1. CASE RtSetup \/ RtOuterTest \/ RtInit \/ RtComSkip \/ RtComInit \/
           RtComSet \/ RtSettle
  BY <1>1
  DEF RtSetup, RtOuterTest, RtInit, RtComSkip, RtComInit, RtComSet, RtSettle
<1>2. CASE RtLoopTest \/ RtSemError \/ RtPollError \/ RtIsr \/ RtFinalTime \/
           RtNextShot
  BY <1>2
  DEF RtLoopTest, RtSemError, RtPollError, RtIsr, RtFinalTime, RtNextShot,
      FinalTimeReached, Saturate
<1>3. CASE RtEnd \/ RtNotRunning \/ RtIfEnd \/ RtComEnd \/ RtTimerFailure
  BY <1>3 DEF RtEnd, RtNotRunning, RtIfEnd, RtComEnd, RtTimerFailure
<1>4. CASE RtLock \/ RtPauseTest \/ RtCondWait \/ RtSpuriousWakeup \/ RtRelock
  BY <1>4 DEF RtLock, RtPauseTest, RtCondWait, RtSpuriousWakeup, RtRelock
<1>5. CASE ShvRequest
  BY <1>5 DEF ShvRequest, ShvPause, ShvGetState, ShvResume, ShvServes
<1>6. CASE ShvResumeLock \/ ShvStep
  BY <1>6
  DEF ShvResumeLock, ShvStep, ShvResumeStore, ShvResumeSignal, ShvResumeUnlock
<1>7. CASE SignalEnd \/ SignalLoopEnd
  BY <1>7 DEF SignalEnd, SignalLoopEnd
<1>8. CASE Terminated \/ UNCHANGED vars
  BY <1>8 DEF Terminated
<1>9. QED
  BY <1>1, <1>2, <1>3, <1>4, <1>5, <1>6, <1>7, <1>8 DEF Next, RtStep

LEMMA TimeTypePreserved == TypeOK /\ [Next]_vars => TimeTypeOK'
<1> SUFFICES ASSUME TypeOK, [Next]_vars PROVE TimeTypeOK'
  OBVIOUS
<1>0. MaxTime \in Nat
  BY BoundsAssumption
<1> USE <1>0 DEF TypeOK, TimeTypeOK, Goto, ctx, time, client, model, vars
<1>1. CASE RtSetup \/ RtOuterTest \/ RtInit \/ RtComSkip \/ RtComInit \/
           RtComSet \/ RtSettle
  BY <1>1
  DEF RtSetup, RtOuterTest, RtInit, RtComSkip, RtComInit, RtComSet, RtSettle
<1>2. CASE RtLoopTest \/ RtSemError \/ RtPollError \/ RtIsr \/ RtFinalTime \/
           RtNextShot
  BY <1>2
  DEF RtLoopTest, RtSemError, RtPollError, RtIsr, RtFinalTime, RtNextShot,
      FinalTimeReached, Saturate
<1>3. CASE RtEnd \/ RtNotRunning \/ RtIfEnd \/ RtComEnd \/ RtTimerFailure
  BY <1>3 DEF RtEnd, RtNotRunning, RtIfEnd, RtComEnd, RtTimerFailure
<1>4. CASE RtLock \/ RtPauseTest \/ RtCondWait \/ RtSpuriousWakeup \/ RtRelock
  BY <1>4 DEF RtLock, RtPauseTest, RtCondWait, RtSpuriousWakeup, RtRelock
<1>5. CASE ShvRequest
  BY <1>5 DEF ShvRequest, ShvPause, ShvGetState, ShvResume, ShvServes
<1>6. CASE ShvResumeLock \/ ShvStep
  BY <1>6
  DEF ShvResumeLock, ShvStep, ShvResumeStore, ShvResumeSignal, ShvResumeUnlock
<1>7. CASE SignalEnd \/ SignalLoopEnd
  BY <1>7 DEF SignalEnd, SignalLoopEnd
<1>8. CASE Terminated \/ UNCHANGED vars
  BY <1>8 DEF Terminated
<1>9. QED
  BY <1>1, <1>2, <1>3, <1>4, <1>5, <1>6, <1>7, <1>8 DEF Next, RtStep

LEMMA CtxTypePreserved == TypeOK /\ [Next]_vars => CtxTypeOK'
<1> SUFFICES ASSUME TypeOK, [Next]_vars PROVE CtxTypeOK'
  OBVIOUS
<1> USE DEF TypeOK, CtxTypeOK, Goto, ctx, time, client, model, vars
<1>1. CASE RtSetup \/ RtOuterTest \/ RtInit \/ RtComSkip \/ RtComInit \/
           RtComSet \/ RtSettle
  BY <1>1
  DEF RtSetup, RtOuterTest, RtInit, RtComSkip, RtComInit, RtComSet, RtSettle
<1>2. CASE RtLoopTest \/ RtSemError \/ RtPollError \/ RtIsr \/ RtFinalTime \/
           RtNextShot
  BY <1>2
  DEF RtLoopTest, RtSemError, RtPollError, RtIsr, RtFinalTime, RtNextShot,
      FinalTimeReached, Saturate
<1>3. CASE RtEnd \/ RtNotRunning \/ RtIfEnd \/ RtComEnd \/ RtTimerFailure
  BY <1>3 DEF RtEnd, RtNotRunning, RtIfEnd, RtComEnd, RtTimerFailure
<1>4. CASE RtLock \/ RtPauseTest \/ RtCondWait \/ RtSpuriousWakeup \/ RtRelock
  BY <1>4 DEF RtLock, RtPauseTest, RtCondWait, RtSpuriousWakeup, RtRelock
<1>5. CASE ShvRequest
  BY <1>5 DEF ShvRequest, ShvPause, ShvGetState, ShvResume, ShvServes
<1>6. CASE ShvResumeLock \/ ShvStep
  BY <1>6
  DEF ShvResumeLock, ShvStep, ShvResumeStore, ShvResumeSignal, ShvResumeUnlock
<1>7. CASE SignalEnd \/ SignalLoopEnd
  BY <1>7 DEF SignalEnd, SignalLoopEnd
<1>8. CASE Terminated \/ UNCHANGED vars
  BY <1>8 DEF Terminated
<1>9. QED
  BY <1>1, <1>2, <1>3, <1>4, <1>5, <1>6, <1>7, <1>8 DEF Next, RtStep

LEMMA OtherTypePreserved == TypeOK /\ [Next]_vars => OtherTypeOK'
<1> SUFFICES ASSUME TypeOK, [Next]_vars PROVE OtherTypeOK'
  OBVIOUS
<1> USE DEF TypeOK, OtherTypeOK, CtxTypeOK, ShvLabels, Goto, ctx, time,
   client, model, vars
<1>1. CASE RtSetup \/ RtOuterTest \/ RtInit \/ RtComSkip \/ RtComInit \/
           RtComSet \/ RtSettle
  BY <1>1
  DEF RtSetup, RtOuterTest, RtInit, RtComSkip, RtComInit, RtComSet, RtSettle
<1>2. CASE RtLoopTest \/ RtSemError \/ RtPollError \/ RtIsr \/ RtFinalTime \/
           RtNextShot
  BY <1>2
  DEF RtLoopTest, RtSemError, RtPollError, RtIsr, RtFinalTime, RtNextShot,
      FinalTimeReached, Saturate
<1>3. CASE RtEnd \/ RtNotRunning \/ RtIfEnd \/ RtComEnd \/ RtTimerFailure
  BY <1>3 DEF RtEnd, RtNotRunning, RtIfEnd, RtComEnd, RtTimerFailure
<1>4. CASE RtLock \/ RtPauseTest \/ RtCondWait \/ RtSpuriousWakeup \/ RtRelock
  BY <1>4 DEF RtLock, RtPauseTest, RtCondWait, RtSpuriousWakeup, RtRelock
<1>5. CASE ShvRequest
  BY <1>5 DEF ShvRequest, ShvPause, ShvGetState, ShvResume, ShvServes
<1>6. CASE ShvResumeLock \/ ShvStep
  BY <1>6
  DEF ShvResumeLock, ShvStep, ShvResumeStore, ShvResumeSignal, ShvResumeUnlock
<1>7. CASE SignalEnd \/ SignalLoopEnd
  BY <1>7 DEF SignalEnd, SignalLoopEnd
<1>8. CASE Terminated \/ UNCHANGED vars
  BY <1>8 DEF Terminated
<1>9. QED
  BY <1>1, <1>2, <1>3, <1>4, <1>5, <1>6, <1>7, <1>8 DEF Next, RtStep

(* The plain programs are built without SHV. *)
LEMMA PlainAlone == TypeOK /\ build.main \in Plain => ~build.shv
BY BuildsAssumption DEF TypeOK, RtTypeOK

-----------------------------------------------------------------------------
(* The mutex is held exactly where the two threads think they hold it.     *)
LEMMA LocksPreserved == Locks /\ Lifecycle /\ [Next]_vars => Locks'
<1> SUFFICES ASSUME Locks /\ Lifecycle, [Next]_vars PROVE Locks'
  OBVIOUS
<1> USE DEF Locks, Lifecycle, Goto, ctx, time, client, model, vars
<1>1. CASE RtSetup \/ RtOuterTest \/ RtInit \/ RtComSkip \/ RtComInit \/
           RtComSet \/ RtSettle
  BY <1>1
  DEF RtSetup, RtOuterTest, RtInit, RtComSkip, RtComInit, RtComSet, RtSettle
<1>2. CASE RtLoopTest \/ RtSemError \/ RtPollError \/ RtIsr \/ RtFinalTime \/
           RtNextShot
  BY <1>2
  DEF RtLoopTest, RtSemError, RtPollError, RtIsr, RtFinalTime, RtNextShot
<1>3. CASE RtEnd \/ RtNotRunning \/ RtIfEnd \/ RtComEnd \/ RtTimerFailure
  BY <1>3 DEF RtEnd, RtNotRunning, RtIfEnd, RtComEnd, RtTimerFailure
<1>4. CASE RtLock \/ RtPauseTest \/ RtCondWait \/ RtSpuriousWakeup \/ RtRelock
  BY <1>4 DEF RtLock, RtPauseTest, RtCondWait, RtSpuriousWakeup, RtRelock
<1>5. CASE ShvRequest
  BY <1>5 DEF ShvRequest, ShvPause, ShvGetState, ShvResume, ShvServes, Alive
<1>6. CASE ShvResumeLock \/ ShvStep
  BY <1>6
  DEF ShvResumeLock, ShvStep, ShvResumeStore, ShvResumeSignal, ShvResumeUnlock
<1>7. CASE SignalEnd \/ SignalLoopEnd
  BY <1>7 DEF SignalEnd, SignalLoopEnd
<1>8. CASE Terminated \/ UNCHANGED vars
  BY <1>8 DEF Terminated
<1>9. QED
  BY <1>1, <1>2, <1>3, <1>4, <1>5, <1>6, <1>7, <1>8 DEF Next, RtStep

(* No wakeup is lost: the store of _resumectrl and its signal cannot fall   *)
(* between rt_task's test and its going to sleep, which hold the mutex.     *)
LEMMA WaitsPreserved == Locks /\ Waits /\ [Next]_vars => Waits'
<1> SUFFICES ASSUME Locks /\ Waits, [Next]_vars PROVE Waits'
  OBVIOUS
<1> USE DEF Locks, Waits, NoLostResume, Goto, ctx, time, client, model, vars
<1>1. CASE RtSetup \/ RtOuterTest \/ RtInit \/ RtComSkip \/ RtComInit \/
           RtComSet \/ RtSettle
  BY <1>1
  DEF RtSetup, RtOuterTest, RtInit, RtComSkip, RtComInit, RtComSet, RtSettle
<1>2. CASE RtLoopTest \/ RtSemError \/ RtPollError \/ RtIsr \/ RtFinalTime \/
           RtNextShot
  BY <1>2
  DEF RtLoopTest, RtSemError, RtPollError, RtIsr, RtFinalTime, RtNextShot
<1>3. CASE RtEnd \/ RtNotRunning \/ RtIfEnd \/ RtComEnd \/ RtTimerFailure
  BY <1>3 DEF RtEnd, RtNotRunning, RtIfEnd, RtComEnd, RtTimerFailure
<1>4. CASE RtLock \/ RtPauseTest \/ RtCondWait \/ RtSpuriousWakeup \/ RtRelock
  BY <1>4 DEF RtLock, RtPauseTest, RtCondWait, RtSpuriousWakeup, RtRelock
<1>5. CASE ShvRequest
  BY <1>5 DEF ShvRequest, ShvPause, ShvGetState, ShvResume, ShvServes, Alive
<1>6. CASE ShvResumeLock \/ ShvStep
  BY <1>6
  DEF ShvResumeLock, ShvStep, ShvResumeStore, ShvResumeSignal, ShvResumeUnlock
<1>7. CASE SignalEnd \/ SignalLoopEnd
  BY <1>7 DEF SignalEnd, SignalLoopEnd
<1>8. CASE Terminated \/ UNCHANGED vars
  BY <1>8 DEF Terminated
<1>9. QED
  BY <1>1, <1>2, <1>3, <1>4, <1>5, <1>6, <1>7, <1>8 DEF Next, RtStep

(* A sample is computed after the stop only if its test came before it.    *)
LEMMA SamplesPreserved == TypeOK /\ Samples /\ [Next]_vars => Samples'
<1> SUFFICES ASSUME TypeOK, Samples, [Next]_vars PROVE Samples'
  OBVIOUS
<1> USE DEF Samples, AtMostOneLateSample, Stopped, Goto, ctx, time, client,
            model, vars
<1>1. CASE RtSetup \/ RtOuterTest \/ RtInit \/ RtComSkip \/ RtComInit \/
           RtComSet \/ RtSettle
  BY <1>1
  DEF RtSetup, RtOuterTest, RtInit, RtComSkip, RtComInit, RtComSet, RtSettle
<1>2. CASE RtLoopTest \/ RtSemError \/ RtPollError \/ RtIsr \/ RtFinalTime \/
           RtNextShot
  <2>1. CASE RtLoopTest \/ RtSemError \/ RtPollError \/ RtIsr \/ RtNextShot
    BY <2>1 DEF RtLoopTest, RtSemError, RtPollError, RtIsr, RtNextShot
  <2>2. CASE RtFinalTime
    BY <2>2 DEF RtFinalTime, TypeOK, RtTypeOK
  <2>3. QED
    BY <1>2, <2>1, <2>2
<1>3. CASE RtEnd \/ RtNotRunning \/ RtIfEnd \/ RtComEnd \/ RtTimerFailure
  BY <1>3 DEF RtEnd, RtNotRunning, RtIfEnd, RtComEnd, RtTimerFailure
<1>4. CASE RtLock \/ RtPauseTest \/ RtCondWait \/ RtSpuriousWakeup \/ RtRelock
  BY <1>4 DEF RtLock, RtPauseTest, RtCondWait, RtSpuriousWakeup, RtRelock
<1>5. CASE ShvRequest
  BY <1>5 DEF ShvRequest, ShvPause, ShvGetState, ShvResume, ShvServes, Alive
<1>6. CASE ShvResumeLock \/ ShvStep
  BY <1>6
  DEF ShvResumeLock, ShvStep, ShvResumeStore, ShvResumeSignal, ShvResumeUnlock
<1>7. CASE SignalEnd \/ SignalLoopEnd
  BY <1>7 DEF SignalEnd, SignalLoopEnd
<1>8. CASE Terminated \/ UNCHANGED vars
  BY <1>8 DEF Terminated
<1>9. QED
  BY <1>1, <1>2, <1>3, <1>4, <1>5, <1>6, <1>7, <1>8 DEF Next, RtStep

(* Only the handler of a resume clears ctrlloopend.                        *)
LEMMA RequestsPreserved ==
  Lifecycle /\ Requests /\ [Next]_vars => Requests'
<1> SUFFICES ASSUME Lifecycle, Requests, [Next]_vars PROVE Requests'
  OBVIOUS
<1> USE DEF Lifecycle, Requests, Goto, ctx, time, client, model, vars
<1>1. CASE RtSetup \/ RtOuterTest \/ RtInit \/ RtComSkip \/ RtComInit \/
           RtComSet \/ RtSettle
  BY <1>1
  DEF RtSetup, RtOuterTest, RtInit, RtComSkip, RtComInit, RtComSet, RtSettle
<1>2. CASE RtLoopTest \/ RtSemError \/ RtPollError \/ RtIsr \/ RtFinalTime \/
           RtNextShot
  BY <1>2
  DEF RtLoopTest, RtSemError, RtPollError, RtIsr, RtFinalTime, RtNextShot
<1>3. CASE RtEnd \/ RtNotRunning \/ RtIfEnd \/ RtComEnd \/ RtTimerFailure
  BY <1>3 DEF RtEnd, RtNotRunning, RtIfEnd, RtComEnd, RtTimerFailure
<1>4. CASE RtLock \/ RtPauseTest \/ RtCondWait \/ RtSpuriousWakeup \/ RtRelock
  BY <1>4 DEF RtLock, RtPauseTest, RtCondWait, RtSpuriousWakeup, RtRelock
<1>5. CASE ShvRequest
  BY <1>5 DEF ShvRequest, ShvPause, ShvGetState, ShvResume, ShvServes, Alive
<1>6. CASE ShvResumeLock \/ ShvStep
  BY <1>6
  DEF ShvResumeLock, ShvStep, ShvResumeStore, ShvResumeSignal, ShvResumeUnlock
<1>7. CASE SignalEnd \/ SignalLoopEnd
  BY <1>7 DEF SignalEnd, SignalLoopEnd
<1>8. CASE Terminated \/ UNCHANGED vars
  BY <1>8 DEF Terminated
<1>9. QED
  BY <1>1, <1>2, <1>3, <1>4, <1>5, <1>6, <1>7, <1>8 DEF Next, RtStep

(* running_state is RUNNING from before the loop's first test until after  *)
(* MODEL_end.                                                              *)
LEMMA ReportsPreserved ==
  TypeOK /\ Lifecycle /\ Requests /\ Reports /\ [Next]_vars => Reports'
<1> SUFFICES ASSUME TypeOK, Lifecycle, Requests /\ Reports, [Next]_vars
             PROVE  Reports'
  OBVIOUS
<1> USE PlainAlone
    DEF Lifecycle, Requests, Reports, Stopped, Goto, ctx, time, client, model,
        vars
<1>1. CASE RtSetup \/ RtOuterTest \/ RtInit \/ RtComSkip \/ RtComInit \/
           RtComSet \/ RtSettle
  BY <1>1
  DEF RtSetup, RtOuterTest, RtInit, RtComSkip, RtComInit, RtComSet, RtSettle
<1>2. CASE RtLoopTest \/ RtSemError \/ RtPollError \/ RtIsr \/ RtFinalTime \/
           RtNextShot
  BY <1>2
  DEF RtLoopTest, RtSemError, RtPollError, RtIsr, RtFinalTime, RtNextShot, Plain
<1>3. CASE RtEnd \/ RtNotRunning \/ RtIfEnd \/ RtComEnd \/ RtTimerFailure
  BY <1>3 DEF RtEnd, RtNotRunning, RtIfEnd, RtComEnd, RtTimerFailure
<1>4. CASE RtLock \/ RtPauseTest \/ RtCondWait \/ RtSpuriousWakeup \/ RtRelock
  BY <1>4 DEF RtLock, RtPauseTest, RtCondWait, RtSpuriousWakeup, RtRelock
<1>5. CASE ShvRequest
  BY <1>5 DEF ShvRequest, ShvPause, ShvGetState, ShvResume, ShvServes, Alive
<1>6. CASE ShvResumeLock \/ ShvStep
  BY <1>6
  DEF ShvResumeLock, ShvStep, ShvResumeStore, ShvResumeSignal, ShvResumeUnlock
<1>7. CASE SignalEnd \/ SignalLoopEnd
  BY <1>7 DEF SignalEnd, SignalLoopEnd
<1>8. CASE Terminated \/ UNCHANGED vars
  BY <1>8 DEF Terminated
<1>9. QED
  BY <1>1, <1>2, <1>3, <1>4, <1>5, <1>6, <1>7, <1>8 DEF Next, RtStep

(* The blocks and the SHV thread live as long as their place in rt_task.   *)
LEMMA LifecyclePreserved ==
  TypeOK /\ Locks /\ Lifecycle /\ [Next]_vars => Lifecycle'
<1> SUFFICES ASSUME TypeOK, Locks /\ Lifecycle, [Next]_vars PROVE Lifecycle'
  OBVIOUS
<1> USE PlainAlone DEF Locks, Lifecycle, Goto, ctx, time, client, model, vars
<1>1. CASE RtSetup \/ RtOuterTest \/ RtInit \/ RtComSkip \/ RtComInit \/
           RtComSet \/ RtSettle
  BY <1>1
  DEF RtSetup, RtOuterTest, RtInit, RtComSkip, RtComInit, RtComSet, RtSettle
<1>2. CASE RtLoopTest \/ RtSemError \/ RtPollError \/ RtIsr \/ RtFinalTime \/
           RtNextShot
  BY <1>2
  DEF RtLoopTest, RtSemError, RtPollError, RtIsr, RtFinalTime, RtNextShot
<1>3. CASE RtEnd \/ RtNotRunning \/ RtIfEnd \/ RtComEnd \/ RtTimerFailure
  BY <1>3 DEF RtEnd, RtNotRunning, RtIfEnd, RtComEnd, RtTimerFailure
<1>4. CASE RtLock \/ RtPauseTest \/ RtCondWait \/ RtSpuriousWakeup \/ RtRelock
  BY <1>4 DEF RtLock, RtPauseTest, RtCondWait, RtSpuriousWakeup, RtRelock
<1>5. CASE ShvRequest
  BY <1>5 DEF ShvRequest, ShvPause, ShvGetState, ShvResume, ShvServes, Alive
<1>6. CASE ShvResumeLock \/ ShvStep
  BY <1>6
  DEF ShvResumeLock, ShvStep, ShvResumeStore, ShvResumeSignal, ShvResumeUnlock
<1>7. CASE SignalEnd \/ SignalLoopEnd
  BY <1>7 DEF SignalEnd, SignalLoopEnd
<1>8. CASE Terminated \/ UNCHANGED vars
  BY <1>8 DEF Terminated
<1>9. QED
  BY <1>1, <1>2, <1>3, <1>4, <1>5, <1>6, <1>7, <1>8 DEF Next, RtStep

-----------------------------------------------------------------------------
(* The results.                                                            *)

(* IInv is an inductive invariant of the main programs. *)
THEOREM Invariance == Spec => []IInv
<1>1. Init => IInv
  BY InitEstablishes
<1>2. IInv /\ [Next]_vars => IInv'
  BY RtTypePreserved, TimeTypePreserved, CtxTypePreserved, OtherTypePreserved,
     LocksPreserved, WaitsPreserved, SamplesPreserved, RequestsPreserved,
     ReportsPreserved, LifecyclePreserved
  DEF IInv, TypeOK
<1>3. QED
  BY <1>1, <1>2, PTL DEF Spec

(* The shared context, the threads' positions and the model time stay in   *)
(* their ranges, whatever the final time and however late the task wakes.  *)
THEOREM TypeCorrect == Spec => []TypeOK
<1>1. IInv => TypeOK
  BY DEF IInv
<1>2. QED
  BY <1>1, Invariance, PTL

(* After ctrlloopend was set at most one more sample is computed: pausing  *)
(* without taking the mutex is safe.                                       *)
THEOREM LateSamples == Spec => []AtMostOneLateSample
<1>1. IInv => AtMostOneLateSample
  BY DEF IInv, Samples
<1>2. QED
  BY <1>1, Invariance, PTL

(* The RT task never sleeps through a resume. *)
THEOREM ResumeNotLost == Spec => []NoLostResume
<1>1. IInv => NoLostResume
  BY DEF IInv, Waits
<1>2. QED
  BY <1>1, Invariance, PTL

(* rt_task returns with the model ended and no SHV thread left.            *)
THEOREM ReturnsClean == Spec => []NothingLeftRunning
<1>1. IInv => NothingLeftRunning
  BY DEF IInv, TypeOK, OtherTypeOK, Lifecycle, NothingLeftRunning
<1>2. QED
  BY <1>1, Invariance, PTL

(* A paused loop that reported NOTRUNNING computes no sample any more.     *)
THEOREM PausedIsQuiet == Spec => QuietOnceAnswered
<1>1. ASSUME IInv, [Next]_vars, request = "pause", answer = "NOTRUNNING"
      PROVE  late' <= late
  <2>1. pc # "isr" /\ late \in 0..2
    BY <1>1 DEF IInv, Reports, TypeOK, TimeTypeOK
  <2>2. late' = late \/ late' = 0
    BY <1>1, <2>1
    DEF Next, RtStep, RtSetup, RtOuterTest, RtInit, RtComSkip, RtComInit,
        RtComSet, RtSettle, RtLoopTest, RtSemError, RtPollError, RtIsr,
        RtFinalTime, RtNextShot, RtEnd, RtNotRunning, RtIfEnd, RtComEnd,
        RtTimerFailure,
        RtLock, RtPauseTest, RtCondWait, RtSpuriousWakeup, RtRelock,
        ShvRequest, ShvPause, ShvGetState, ShvResume, ShvResumeLock, ShvStep,
        ShvResumeStore, ShvResumeSignal, ShvResumeUnlock, SignalEnd,
        SignalLoopEnd, Terminated, Goto, vars
  <2>3. QED
    BY <2>1, <2>2
<1>2. IInv /\ [Next]_vars
        => [request = "pause" /\ answer = "NOTRUNNING" => late' <= late]_vars
  BY <1>1
<1>3. QED
  BY <1>2, Invariance, PTL DEF Spec, QuietOnceAnswered

(* Whatever client and signal do, the model is driven by its protocol:     *)
(* every step of the main programs is a step of ModelProtocol or none.     *)
THEOREM Refinement == Spec => FollowsProtocol
<1>1. Init => Protocol!Init
  BY DEF Init, Protocol!Init
<1>2. IInv /\ [Next]_vars => [Protocol!Next]_Protocol!vars
  <2> SUFFICES ASSUME IInv, [Next]_vars
               PROVE  Protocol!Next \/ UNCHANGED Protocol!vars
    OBVIOUS
  <2> USE DEF IInv, TypeOK, OtherTypeOK, Lifecycle, Goto, ctx, time, client,
              model, vars, Protocol!Next, Protocol!vars
  <2>1. CASE RtSetup \/ RtOuterTest \/ RtInit \/ RtComSkip \/ RtComInit \/
             RtComSet \/ RtSettle
    BY <2>1
    DEF Protocol!ModelInit, Protocol!ComInit, RtSetup, RtOuterTest, RtInit,
        RtComSkip, RtComInit, RtComSet, RtSettle
  <2>2. CASE RtLoopTest \/ RtSemError \/ RtPollError \/ RtIsr \/ RtFinalTime \/
           RtNextShot
    BY <2>2
    DEF Protocol!ModelIsr, RtLoopTest, RtSemError, RtPollError, RtIsr,
        RtFinalTime, RtNextShot
  <2>3. CASE RtEnd \/ RtNotRunning \/ RtIfEnd \/ RtComEnd \/ RtTimerFailure
    BY <2>3
    DEF Protocol!ModelEnd, Protocol!ComEnd, RtEnd, RtNotRunning, RtIfEnd,
        RtComEnd, RtTimerFailure
  <2>4. CASE RtLock \/ RtPauseTest \/ RtCondWait \/ RtSpuriousWakeup \/
             RtRelock
    BY <2>4 DEF RtLock, RtPauseTest, RtCondWait, RtSpuriousWakeup, RtRelock
  <2>5. CASE ShvRequest
    BY <2>5 DEF ShvRequest, ShvPause, ShvGetState, ShvResume, ShvServes, Alive
  <2>6. CASE ShvResumeLock \/ ShvStep
    BY <2>6
    DEF ShvResumeLock, ShvStep, ShvResumeStore, ShvResumeSignal,
        ShvResumeUnlock
  <2>7. CASE SignalEnd \/ SignalLoopEnd
    BY <2>7 DEF SignalEnd, SignalLoopEnd
  <2>8. CASE Terminated \/ UNCHANGED vars
    BY <2>8 DEF Terminated
  <2>9. QED
    BY <2>1, <2>2, <2>3, <2>4, <2>5, <2>6, <2>7, <2>8 DEF Next, RtStep
<1>3. QED
  BY <1>1, <1>2, Invariance, PTL DEF Spec, FollowsProtocol, Protocol!Spec
(* What FwUpdate relies on: to whoever pauses and polls it, a main program *)
(* is a PausableLoop.                                                      *)
THEOREM PromiseKept == Spec => KeepsPromise
<1>1. Init => Promise!LoopInit
  BY DEF Init, Promise!LoopInit, Stopped
<1>2. IInv /\ [Next]_vars => [Promise!LoopNext]_Promise!loopVars
  <2> SUFFICES ASSUME IInv, [Next]_vars
               PROVE  Promise!LoopNext \/ UNCHANGED Promise!loopVars
    OBVIOUS
  <2> USE DEF IInv, Reports, Stopped, Plain, Goto, ctx, time, client, model,
              vars, Promise!LoopNext, Promise!LoopStep, Promise!loopVars
  <2>1. CASE RtSetup \/ RtOuterTest \/ RtInit \/ RtComSkip \/ RtComInit \/
             RtComSet \/ RtSettle
    BY <2>1
    DEF Promise!Announce, RtSetup, RtOuterTest, RtInit, RtComSkip, RtComInit,
        RtComSet, RtSettle
  <2>2. CASE RtLoopTest \/ RtSemError
    BY <2>2 DEF Promise!BeginSample, Promise!Withdraw, RtLoopTest, RtSemError
  <2>3. CASE RtPollError \/ RtIsr \/ RtNextShot
    BY <2>3 DEF Promise!EndSample, RtPollError, RtIsr, RtNextShot
  <2>4. CASE RtFinalTime
    BY <2>4 DEF Promise!Withdraw, RtFinalTime, TypeOK, RtTypeOK
  <2>5. CASE RtEnd \/ RtNotRunning \/ RtIfEnd \/ RtComEnd \/ RtTimerFailure
    BY <2>5
    DEF Promise!Withdraw, RtEnd, RtNotRunning, RtIfEnd, RtComEnd,
        RtTimerFailure
  <2>6. CASE RtLock \/ RtPauseTest \/ RtCondWait \/ RtSpuriousWakeup \/
             RtRelock
    BY <2>6 DEF RtLock, RtPauseTest, RtCondWait, RtSpuriousWakeup, RtRelock
  <2>7. CASE ShvRequest \/ ShvResumeLock \/ ShvStep
    BY <2>7
    DEF Promise!Pause, Promise!Resume, ShvRequest, ShvPause, ShvGetState,
        ShvResume, ShvResumeLock, ShvStep, ShvResumeStore, ShvResumeSignal,
        ShvResumeUnlock
  <2>8. CASE SignalEnd \/ SignalLoopEnd
    BY <2>8 DEF Promise!Pause, SignalEnd, SignalLoopEnd
  <2>9. CASE Terminated \/ UNCHANGED vars
    BY <2>9 DEF Terminated
  <2>10. QED
    BY <2>1, <2>2, <2>3, <2>4, <2>5, <2>6, <2>7, <2>8, <2>9
    DEF Next, RtStep
<1>3. QED
  BY <1>1, <1>2, Invariance, PTL DEF Spec, KeepsPromise, Promise!LoopSpec

-----------------------------------------------------------------------------
(* Liveness.  The fairness of CtrlLoop says WF and SF, that is, ENABLED;   *)
(* here each action has its guard written out instead, and what is assumed *)
(* is that a step whose guard keeps holding, or for SF holds again and     *)
(* again, is taken again and again.                                        *)

RtCan ==
  \/ pc \notin {"lock", "wait", "com_end", "done", "exit"}
  \/ pc = "com_end" /\ (com_inited => shv \in {"idle", "off"})
LockCan == pc = "lock" /\ mutex = "free"
RelockCan == pc = "wait" /\ ~waiting /\ mutex = "free"
ShvCan == Alive /\ shv \in {"store", "signal", "unlock"}
SignalCan == Alive /\ sig = "mid"

RtRuns == []<>~RtCan \/ []<><<RtStep>>_vars
LocksInTime == <>[]~LockCan \/ []<><<RtLock>>_vars
RelocksInTime == <>[]~RelockCan \/ []<><<RtRelock>>_vars
ShvRuns == []<>~ShvCan \/ []<><<ShvStep>>_vars
SignalReturns == []<>~SignalCan \/ []<><<SignalLoopEnd>>_vars

(* Nothing sets ctrlloopend in a plain program, and it has no second loop. *)
PlainRuns ==
  build.main \in Plain =>
    /\ ~ctrlloopend /\ sig = "idle"
    /\ pc \notin {"outer", "notrunning", "if_end", "lock", "test", "cond",
                  "wait", "com_end"}

(* No client can pause or resume the program, and whatever makes it leave  *)
(* its loop has set `end` first.                                           *)
Unpausable ==
  /\ ~build.shv
  /\ build.main \notin {"timerhook", "systick"}

Leaving == {"end", "notrunning", "if_end", "com_end", "done", "exit"}

EndsFirst ==
  /\ pc = "com_end" => end
  /\ Unpausable =>
       /\ ctrlloopend \/ sig = "mid" => end
       /\ pc = "end" => end \/ build.main = "sim"
       /\ pc \in {"notrunning", "if_end"} => end
       /\ pc \notin {"lock", "test", "cond", "wait"}
       /\ end => Stopped \/ sig = "mid" \/ pc \in Leaving
       /\ build.main = "bare" => ~end

LiveInv == IInv /\ PlainRuns /\ EndsFirst

LEMMA PlainRunsPreserved == IInv /\ PlainRuns /\ [Next]_vars => PlainRuns'
<1> SUFFICES ASSUME IInv, PlainRuns, [Next]_vars PROVE PlainRuns'
  OBVIOUS
<1>0. build.main \in Plain => shv = "off" /\ ~build.shv
  BY PlainAlone DEF IInv, Lifecycle
<1> USE <1>0 DEF PlainRuns, Plain, Goto, ctx, time, client, model, vars
<1>1. CASE RtSetup \/ RtOuterTest \/ RtInit \/ RtComSkip \/ RtComInit \/
           RtComSet \/ RtSettle
  BY <1>1
  DEF RtSetup, RtOuterTest, RtInit, RtComSkip, RtComInit, RtComSet, RtSettle
<1>2. CASE RtLoopTest \/ RtSemError \/ RtPollError \/ RtIsr \/ RtFinalTime \/
           RtNextShot
  BY <1>2
  DEF RtLoopTest, RtSemError, RtPollError, RtIsr, RtFinalTime, RtNextShot
<1>3. CASE RtEnd \/ RtNotRunning \/ RtIfEnd \/ RtComEnd \/ RtTimerFailure
  BY <1>3 DEF RtEnd, RtNotRunning, RtIfEnd, RtComEnd, RtTimerFailure
<1>4. CASE RtLock \/ RtPauseTest \/ RtCondWait \/ RtSpuriousWakeup \/ RtRelock
  BY <1>4 DEF RtLock, RtPauseTest, RtCondWait, RtSpuriousWakeup, RtRelock
<1>5. CASE ShvRequest
  BY <1>5 DEF ShvRequest, ShvPause, ShvGetState, ShvResume, ShvServes
<1>6. CASE ShvResumeLock \/ ShvStep
  BY <1>6
  DEF ShvResumeLock, ShvStep, ShvResumeStore, ShvResumeSignal, ShvResumeUnlock
<1>7. CASE SignalEnd \/ SignalLoopEnd
  BY <1>7 DEF SignalEnd, SignalLoopEnd
<1>8. CASE Terminated \/ UNCHANGED vars
  BY <1>8 DEF Terminated
<1>9. QED
  BY <1>1, <1>2, <1>3, <1>4, <1>5, <1>6, <1>7, <1>8 DEF Next, RtStep

(* endme sets `end` before ctrlloopend, and nothing clears either.          *)
LEMMA EndsFirstPreserved ==
  IInv /\ PlainRuns /\ EndsFirst /\ [Next]_vars => EndsFirst'
<1> SUFFICES ASSUME IInv, PlainRuns, EndsFirst, [Next]_vars PROVE EndsFirst'
  OBVIOUS
<1>0. /\ build \in Builds /\ build.main \in Mains /\ build.finalTime \in Nat
      /\ build.main = "bare" => build.finalTime = 0
      /\ end \in BOOLEAN /\ ctrlloopend \in BOOLEAN
      /\ ~build.shv => shv = "off"
  BY BuildsAssumption
  DEF IInv, TypeOK, RtTypeOK, CtxTypeOK, Build, Lifecycle
<1> USE <1>0 DEF EndsFirst, Leaving, Stopped, PlainRuns, Unpausable, Plain,
                 Mains, Goto, ctx, time, client, model, vars
<1>1. CASE RtSetup \/ RtOuterTest \/ RtInit \/ RtComSkip \/ RtComInit \/
           RtComSet \/ RtSettle
  BY <1>1
  DEF RtSetup, RtOuterTest, RtInit, RtComSkip, RtComInit, RtComSet, RtSettle
<1>2. CASE RtLoopTest \/ RtSemError \/ RtPollError \/ RtIsr \/ RtNextShot
  BY <1>2 DEF RtLoopTest, RtSemError, RtPollError, RtIsr, RtNextShot
<1>3. CASE RtFinalTime
  <2>1. /\ build' = build /\ ctrlloopend' = ctrlloopend /\ sig' = sig
        /\ pc = "check" /\ pc' = "end"
        /\ FinalTime > 0
    BY <1>3 DEF RtFinalTime, FinalTimeReached
  <2>2. /\ end \/ build.main = "linux" => end'
        /\ end' => end \/ build.main = "linux"
    BY <1>3 DEF RtFinalTime
  <2>3. build.main \in {"linux", "sim"}
    BY <2>1 DEF FinalTime
  <2>4. QED
    BY <2>1, <2>2, <2>3
<1>4. CASE RtEnd \/ RtNotRunning \/ RtIfEnd \/ RtComEnd \/ RtTimerFailure
  BY <1>4 DEF RtEnd, RtNotRunning, RtIfEnd, RtComEnd, RtTimerFailure
<1>5. CASE RtLock \/ RtPauseTest \/ RtCondWait \/ RtSpuriousWakeup \/ RtRelock
  BY <1>5 DEF RtLock, RtPauseTest, RtCondWait, RtSpuriousWakeup, RtRelock
<1>6. CASE ShvRequest
  BY <1>6 DEF ShvRequest, ShvPause, ShvGetState, ShvResume, ShvServes
<1>7. CASE ShvResumeLock \/ ShvStep
  BY <1>7
  DEF ShvResumeLock, ShvStep, ShvResumeStore, ShvResumeSignal, ShvResumeUnlock
<1>8. CASE SignalEnd \/ SignalLoopEnd
  BY <1>8 DEF SignalEnd, SignalLoopEnd, Alive
<1>9. CASE Terminated \/ UNCHANGED vars
  BY <1>9 DEF Terminated
<1>10. QED
  BY <1>1, <1>2, <1>3, <1>4, <1>5, <1>6, <1>7, <1>8, <1>9 DEF Next, RtStep

LEMMA LiveInvariance == Spec => []LiveInv
<1>1. Init => PlainRuns /\ EndsFirst
  BY DEF Init, PlainRuns, EndsFirst
<1>2. QED
  BY <1>1, Invariance, PlainRunsPreserved, EndsFirstPreserved, PTL
  DEF Spec, LiveInv

(* The RT task has at most k steps to go to the end of its loop and of the *)
(* model, when the loop is to stop.                                        *)
EndWithin(k) ==
  /\ pc = "start" => k >= 10
  /\ pc = "outer" => k >= 9
  /\ pc = "init" => k >= 8
  /\ pc = "com_init" => k >= 7
  /\ pc = "com_set" => k >= 6
  /\ pc = "settle" => k >= 5
  /\ pc = "isr" => k >= 4
  /\ pc = "check" => k >= 3
  /\ pc = "loop" => k >= 2
  /\ pc = "end" => k >= 1

(* While the loop stays stopped, no step leads away from its end, and each *)
(* step of the RT task leads towards it; where that task may have to wait, *)
(* the end is behind it.                                                   *)
NearsEnd(k, j) ==
  /\ LiveInv /\ ctrlloopend /\ EndWithin(j) /\ [Next]_vars => EndWithin(j)'
  /\ LiveInv /\ ctrlloopend /\ EndWithin(k) /\ <<RtStep>>_vars
       => EndWithin(j)'
  /\ LiveInv /\ ctrlloopend /\ EndWithin(k) /\ ~RtCan => EndWithin(j)

LEMMA TowardsEnd == ASSUME NEW j \in 0..9 PROVE NearsEnd(j + 1, j)
<1> USE DEF EndWithin
<1>0. LiveInv /\ ctrlloopend => pc \in RtLabels /\ build.main \notin Plain
  BY DEF LiveInv, IInv, TypeOK, RtTypeOK, PlainRuns
<1>1. LiveInv /\ ctrlloopend /\ ~RtCan => EndWithin(j)
  BY <1>0 DEF RtCan, RtLabels
<1>2. ASSUME LiveInv, ctrlloopend, EndWithin(j + 1), RtStep
      PROVE  EndWithin(j)'
  <2> USE <1>0, <1>2 DEF Goto
  <2>1. CASE RtSetup \/ RtOuterTest \/ RtInit \/ RtComSkip \/ RtComInit \/
             RtComSet \/ RtSettle
    <3>1. \/ pc = "start" /\ pc' \in {"outer", "exit"}
          \/ pc = "outer" /\ pc' \in {"init", "com_end"}
          \/ pc = "init" /\ pc' = "com_init"
          \/ pc = "com_init" /\ pc' \in {"com_set", "settle"}
          \/ pc = "com_set" /\ pc' = "settle"
          \/ pc = "settle" /\ pc' \in {"loop", "end"}
      BY <2>1
      DEF RtSetup, RtOuterTest, RtInit, RtComSkip, RtComInit, RtComSet,
          RtSettle
    <3>2. QED
      BY <3>1
  <2>2. CASE RtLoopTest \/ RtPollError \/ RtIsr \/ RtFinalTime \/ RtNextShot
    BY <2>2
    DEF Stopped, Plain, RtLoopTest, RtPollError, RtIsr, RtFinalTime,
        RtNextShot
  <2>3. CASE RtEnd \/ RtNotRunning \/ RtIfEnd \/ RtComEnd \/ RtTimerFailure
    BY <2>3 DEF RtEnd, RtNotRunning, RtIfEnd, RtComEnd, RtTimerFailure
  <2>4. CASE RtPauseTest \/ RtCondWait
    BY <2>4 DEF RtPauseTest, RtCondWait
  <2>5. QED
    BY <1>2, <2>1, <2>2, <2>3, <2>4 DEF RtStep
<1>3. ASSUME LiveInv, ctrlloopend, EndWithin(j), [Next]_vars, ~RtStep
      PROVE  EndWithin(j)'
  <2>1. CASE RtLock \/ RtRelock
    BY <2>1 DEF RtLock, RtRelock, Goto
  <2>2. CASE RtSemError
    BY <1>0, <1>3, <2>2 DEF RtSemError, Plain
  <2>3. CASE UNCHANGED pc
    BY <1>3, <2>3
  <2>4. QED
    BY <1>3, <2>1, <2>2, <2>3
    DEF Next, RtSpuriousWakeup, ShvRequest, ShvPause, ShvGetState, ShvResume,
        ShvResumeLock, ShvStep, ShvResumeStore, ShvResumeSignal,
        ShvResumeUnlock, SignalEnd, SignalLoopEnd, Terminated, vars
<1>4. EndWithin(j) => EndWithin(j + 1)
  OBVIOUS
<1> HIDE DEF EndWithin
<1>5. QED
  BY <1>1, <1>2, <1>3, <1>4 DEF NearsEnd

(* A loop that stays paused, or is told to end, ends up with its blocks    *)
(* closed, for every build: all it takes is that the RT task runs.         *)
THEOREM PauseStops == Spec /\ RtRuns => PauseStopsModel
<1>1. /\ NearsEnd(10, 9) /\ NearsEnd(9, 8) /\ NearsEnd(8, 7)
      /\ NearsEnd(7, 6) /\ NearsEnd(6, 5) /\ NearsEnd(5, 4)
      /\ NearsEnd(4, 3) /\ NearsEnd(3, 2) /\ NearsEnd(2, 1)
      /\ NearsEnd(1, 0)
  <2>1. \A j \in 0..9 : NearsEnd(j + 1, j)
    BY TowardsEnd
  <2>2. QED
    BY <2>1, SMT
<1>2. EndWithin(10)
  BY DEF EndWithin
<1>3. LiveInv /\ EndWithin(0) => blocks = "down" \/ pc = "exit"
  BY DEF LiveInv, IInv, TypeOK, OtherTypeOK, Lifecycle, EndWithin
<1>4. Spec /\ RtRuns /\ <>[]ctrlloopend => <>[]EndWithin(7)
  BY <1>1, <1>2, LiveInvariance, PTL DEF Spec, RtRuns, NearsEnd
<1>5. Spec /\ RtRuns /\ <>[]ctrlloopend => <>[]EndWithin(4)
  BY <1>1, <1>4, LiveInvariance, PTL DEF Spec, RtRuns, NearsEnd
<1>6. Spec /\ RtRuns /\ <>[]ctrlloopend => <>[]EndWithin(2)
  BY <1>1, <1>5, LiveInvariance, PTL DEF Spec, RtRuns, NearsEnd
<1>7. Spec /\ RtRuns /\ <>[]ctrlloopend => <>[]EndWithin(0)
  BY <1>1, <1>6, LiveInvariance, PTL DEF Spec, RtRuns, NearsEnd
<1>8. QED
  BY <1>3, <1>7, LiveInvariance, PTL DEF PauseStopsModel

-----------------------------------------------------------------------------
(* The RT task has at most k steps to go to its next sample, once nobody   *)
(* stops or ends the program.                                              *)
SampleWithin(k) ==
  /\ pc = "start" => k >= 13
  /\ pc = "check" => k >= 12
  /\ pc = "end" => k >= 11
  /\ pc = "notrunning" => k >= 10
  /\ pc = "if_end" => k >= 9
  /\ pc \in {"lock", "wait"} => k >= 8
  /\ pc = "test" => k >= 7
  /\ pc = "outer" => k >= 6
  /\ pc = "init" => k >= 5
  /\ pc = "com_init" => k >= 4
  /\ pc = "com_set" => k >= 3
  /\ pc = "settle" => k >= 2
  /\ pc = "loop" => k >= 1

(* Nobody stops or ends the program, and yet no sample begins. *)
Idles == ~ctrlloopend /\ ~end /\ Alive /\ ~(pc = "isr")

SampleStays(j) ==
  LiveInv /\ Idles /\ SampleWithin(j) /\ [Next]_vars /\ Idles'
    => SampleWithin(j)'
NearsSample(k, j) ==
  LiveInv /\ Idles /\ SampleWithin(k) /\ <<RtStep>>_vars /\ Idles'
    => SampleWithin(j)'
RunsUntil(k, j) == LiveInv /\ Idles /\ SampleWithin(k) /\ ~RtCan => SampleWithin(j)

(* While the program idles no step leads away from the next sample, and    *)
(* each step of the RT task leads towards it.                              *)
LEMMA TowardsSample ==
  ASSUME NEW j \in 0..12
  PROVE  SampleStays(j) /\ NearsSample(j + 1, j)
<1> USE DEF SampleWithin
<1>0. LiveInv /\ Idles => pc \in RtLabels \ {"isr", "cond", "com_end"}
  BY DEF LiveInv, IInv, TypeOK, RtTypeOK, RtLabels, Waits, EndsFirst, Idles
<1>1. ASSUME LiveInv, Idles, SampleWithin(j + 1), RtStep, Idles'
      PROVE  SampleWithin(j)'
  <2>1. ~end /\ ~end' /\ ~ctrlloopend /\ pc' \notin {"isr", "done", "exit"}
        /\ pc \notin {"isr", "cond", "com_end", "done", "exit"}
    BY <1>0, <1>1 DEF Idles, Alive
  <2> USE <1>1, <2>1 DEF Goto
  <2>2. CASE RtSetup \/ RtOuterTest \/ RtInit \/ RtComSkip \/ RtComInit \/
             RtComSet \/ RtSettle
    <3>1. \/ pc = "start" /\ pc' \in {"outer", "init"}
          \/ pc = "outer" /\ pc' = "init"
          \/ pc = "init" /\ pc' = "com_init"
          \/ pc = "com_init" /\ pc' \in {"com_set", "settle"}
          \/ pc = "com_set" /\ pc' = "settle"
          \/ pc = "settle" /\ pc' = "loop"
      BY <2>2
      DEF RtSetup, RtOuterTest, RtInit, RtComSkip, RtComInit, RtComSet,
          RtSettle
    <3>2. QED
      BY <3>1
  <2>3. CASE RtLoopTest \/ RtPollError \/ RtIsr \/ RtFinalTime \/ RtNextShot
    <3>1. \/ pc = "check" /\ pc' \in {"end", "loop"}
      BY <2>3
      DEF Stopped, RtLoopTest, RtPollError, RtIsr, RtFinalTime, RtNextShot
    <3>2. QED
      BY <3>1
  <2>4. CASE RtEnd \/ RtNotRunning \/ RtIfEnd \/ RtComEnd \/ RtTimerFailure
    BY <2>4 DEF RtEnd, RtNotRunning, RtIfEnd, RtComEnd, RtTimerFailure
  <2>5. CASE RtPauseTest \/ RtCondWait
    BY <2>5 DEF RtPauseTest, RtCondWait
  <2>6. QED
    BY <1>1, <2>2, <2>3, <2>4, <2>5 DEF RtStep
<1>2. ASSUME LiveInv, Idles, SampleWithin(j), [Next]_vars, ~RtStep
      PROVE  SampleWithin(j)'
  <2>1. CASE RtLock \/ RtRelock
    BY <1>2, <2>1 DEF RtLock, RtRelock, Goto
  <2>2. CASE RtSemError
    BY <1>2, <2>2 DEF RtSemError, Idles
  <2>3. CASE UNCHANGED pc
    BY <1>2, <2>3
  <2>4. QED
    BY <1>2, <2>1, <2>2, <2>3
    DEF Next, RtSpuriousWakeup, ShvRequest, ShvPause, ShvGetState, ShvResume,
        ShvResumeLock, ShvStep, ShvResumeStore, ShvResumeSignal,
        ShvResumeUnlock, SignalEnd, SignalLoopEnd, Terminated, vars
<1>3. SampleWithin(j) => SampleWithin(j + 1)
  OBVIOUS
<1> HIDE DEF SampleWithin
<1>4. QED
  BY <1>1, <1>2, <1>3 DEF SampleStays, NearsSample

(* Only for the mutex and for a resume does the RT task wait on its way.   *)
LEMMA RunsToSample == ASSUME NEW j \in 0..12, j # 7 PROVE RunsUntil(j + 1, j)
<1>1. LiveInv /\ Idles /\ ~RtCan => pc \in {"lock", "wait"}
  BY DEF LiveInv, EndsFirst, Idles, Alive, RtCan
<1>2. QED
  BY <1>1 DEF RunsUntil, SampleWithin

(* Where the RT task waits: for the mutex alone, or first for the signal   *)
(* of a resume; and where the handler of a resume is while it holds that   *)
(* mutex.                                                                  *)
Waiting == pc \in {"lock", "wait"}
Freed == mutex = "free"
Storing == shv = "store"
Signalling == shv = "signal"
Unlocking == shv = "unlock"

LEMMA HandlerRuns ==
  /\ LiveInv /\ Waiting => Freed \/ Storing \/ Signalling \/ Unlocking
  /\ Idles /\ (Storing \/ Signalling \/ Unlocking) => ShvCan
  /\ ~(Storing /\ Signalling) /\ ~(Signalling /\ Unlocking)
BY DEF LiveInv, IInv, TypeOK, CtxTypeOK, Locks, Waiting, Freed, Storing,
       Signalling, Unlocking, Idles, ShvCan

(* The handler goes through its three steps and gives the mutex back.      *)
LEMMA HandlerSteps ==
  /\ LiveInv /\ Idles /\ [Next]_vars =>
       /\ Storing => Storing' \/ Signalling'
       /\ Signalling => Signalling' \/ Unlocking'
       /\ Unlocking => Unlocking' \/ Freed'
  /\ <<ShvStep>>_vars =>
       /\ Storing => Signalling'
       /\ Signalling => Unlocking'
       /\ Unlocking => Freed'
<1> USE DEF Storing, Signalling, Unlocking, Freed, ShvStep, ShvResumeStore,
            ShvResumeSignal, ShvResumeUnlock
<1>1. ASSUME LiveInv, Idles, [Next]_vars, ~ShvStep,
             Storing \/ Signalling \/ Unlocking
      PROVE  shv' = shv
  <2>1. CASE RtComInit \/ RtComEnd
    BY <1>1, <2>1
    DEF LiveInv, IInv, Lifecycle, EndsFirst, Idles, RtComInit, RtComEnd, Goto
  <2>2. CASE RtStep /\ ~RtComInit /\ ~RtComEnd
    BY <2>2
    DEF RtStep, RtSetup, RtOuterTest, RtInit, RtComSkip, RtComSet, RtSettle,
        RtLoopTest, RtPollError, RtIsr, RtFinalTime, RtNextShot, RtEnd,
        RtNotRunning, RtIfEnd, RtPauseTest, RtCondWait, RtTimerFailure
  <2>3. CASE RtLock \/ RtRelock \/ RtSpuriousWakeup \/ RtSemError
    BY <2>3 DEF RtLock, RtRelock, RtSpuriousWakeup, RtSemError
  <2>4. CASE ShvRequest \/ ShvResumeLock
    BY <1>1, <2>4
    DEF ShvRequest, ShvPause, ShvGetState, ShvResume, ShvServes, ShvResumeLock
  <2>5. CASE SignalEnd \/ SignalLoopEnd \/ Terminated \/ UNCHANGED vars
    BY <2>5 DEF SignalEnd, SignalLoopEnd, Terminated, vars
  <2>6. QED
    BY <1>1, <2>1, <2>2, <2>3, <2>4, <2>5 DEF Next
<1>2. QED
  BY <1>1

(* The RT task waits until it gets the mutex and, once it is woken up, is  *)
(* not put back to sleep: the signal it slept for is one step away.        *)
AtLock == pc = "lock"
AtWait == pc = "wait"
Asleep == waiting

LEMMA WaitingEnds ==
  /\ LiveInv /\ Idles /\ SampleWithin(8)
       => SampleWithin(7) \/ AtLock \/ AtWait
  /\ AtLock \/ AtWait => Waiting /\ ~SampleWithin(7)
  /\ LiveInv /\ Idles /\ Asleep => Signalling
  /\ AtLock /\ Freed => LockCan
  /\ AtWait /\ ~Asleep /\ Freed => RelockCan
BY DEF LiveInv, IInv, Waits, NoLostResume, Idles, SampleWithin, AtLock, AtWait,
       Asleep, Waiting, Freed, Signalling, LockCan, RelockCan

LEMMA WaitingSteps ==
  /\ [Next]_vars =>
       /\ AtLock => AtLock' \/ SampleWithin(7)'
       /\ AtWait => AtWait' \/ SampleWithin(7)'
       /\ AtWait /\ ~Asleep => ~Asleep'
  /\ <<RtLock>>_vars \/ <<RtRelock>>_vars => SampleWithin(7)'
<1> USE DEF AtLock, AtWait, Asleep, SampleWithin, Goto
<1>1. <<RtLock>>_vars \/ <<RtRelock>>_vars => SampleWithin(7)'
  BY DEF RtLock, RtRelock
<1>2. ASSUME [Next]_vars, ~RtLock, ~RtRelock, AtLock \/ AtWait
      PROVE  pc' = pc /\ (~waiting => ~waiting')
  <2>1. ~RtStep
    BY <1>2
    DEF RtStep, RtSetup, RtOuterTest, RtInit, RtComSkip, RtComInit, RtComSet,
        RtSettle, RtLoopTest, RtPollError, RtIsr, RtFinalTime, RtNextShot,
        RtEnd, RtNotRunning, RtIfEnd, RtPauseTest, RtCondWait, RtComEnd,
        RtTimerFailure
  <2>2. CASE RtSpuriousWakeup \/ RtSemError
    BY <1>2, <2>2 DEF RtSpuriousWakeup, RtSemError
  <2>3. CASE ShvRequest \/ ShvResumeLock \/ ShvStep
    BY <2>3
    DEF ShvRequest, ShvPause, ShvGetState, ShvResume, ShvResumeLock, ShvStep,
        ShvResumeStore, ShvResumeSignal, ShvResumeUnlock, ctx
  <2>4. CASE SignalEnd \/ SignalLoopEnd \/ Terminated \/ UNCHANGED vars
    BY <2>4 DEF SignalEnd, SignalLoopEnd, Terminated, vars, ctx
  <2>5. QED
    BY <1>2, <2>1, <2>2, <2>3, <2>4 DEF Next
<1>3. RtLock \/ RtRelock => SampleWithin(7)' /\ waiting' = waiting
  BY DEF RtLock, RtRelock
<1>4. QED
  BY <1>1, <1>2, <1>3

(* With one RT task, one SHV thread and a mutex that is handed over, the   *)
(* loop computes samples for ever once nobody stops it any more, after any *)
(* number of pauses and resumes.                                           *)
THEOREM ResumeStarts ==
  Spec /\ RtRuns /\ LocksInTime /\ RelocksInTime /\ ShvRuns
    => ResumeStartsLoop
<1> DEFINE Fair == RtRuns /\ LocksInTime /\ RelocksInTime /\ ShvRuns
<1>1. \A j \in 0..12 : SampleStays(j) /\ NearsSample(j + 1, j)
  BY TowardsSample
<1>2. \A j \in 0..12 : j # 7 => RunsUntil(j + 1, j)
  BY RunsToSample
<1>3. /\ SampleStays(12) /\ SampleStays(11) /\ SampleStays(10)
      /\ SampleStays(9) /\ SampleStays(8) /\ SampleStays(7)
      /\ SampleStays(6) /\ SampleStays(5) /\ SampleStays(4)
      /\ SampleStays(3) /\ SampleStays(2) /\ SampleStays(1)
      /\ SampleStays(0)
  BY <1>1, SMT
<1>4. /\ NearsSample(13, 12) /\ NearsSample(12, 11) /\ NearsSample(11, 10)
      /\ NearsSample(10, 9) /\ NearsSample(9, 8) /\ NearsSample(7, 6)
      /\ NearsSample(6, 5) /\ NearsSample(5, 4) /\ NearsSample(4, 3)
      /\ NearsSample(3, 2) /\ NearsSample(2, 1) /\ NearsSample(1, 0)
  BY <1>1, SMT
<1>5. /\ RunsUntil(13, 12) /\ RunsUntil(12, 11) /\ RunsUntil(11, 10)
      /\ RunsUntil(10, 9) /\ RunsUntil(9, 8) /\ RunsUntil(7, 6)
      /\ RunsUntil(6, 5) /\ RunsUntil(5, 4) /\ RunsUntil(4, 3)
      /\ RunsUntil(3, 2) /\ RunsUntil(2, 1) /\ RunsUntil(1, 0)
  BY <1>2, SMT
<1>6. SampleWithin(13)
  BY DEF SampleWithin
<1>7. LiveInv /\ Idles => ~SampleWithin(0)
  BY DEF LiveInv, IInv, TypeOK, RtTypeOK, RtLabels, Waits, EndsFirst, Idles,
         Alive, SampleWithin
<1>8. Spec /\ Fair /\ <>[]Idles => <>[]SampleWithin(10)
  BY <1>3, <1>4, <1>5, <1>6, LiveInvariance, PTL
  DEF Spec, RtRuns, SampleStays, NearsSample, RunsUntil
<1>9. Spec /\ Fair /\ <>[]Idles => <>[]SampleWithin(8)
  BY <1>3, <1>4, <1>5, <1>8, LiveInvariance, PTL
  DEF Spec, RtRuns, SampleStays, NearsSample, RunsUntil
<1>10. Spec /\ Fair /\ <>[]Idles /\ <>[]Waiting => []<>Freed
  BY HandlerRuns, HandlerSteps, LiveInvariance, PTL DEF Spec, ShvRuns
<1>11. Spec /\ Fair /\ <>[]Idles /\ <>[]AtWait => <>[]~Asleep
  BY HandlerRuns, HandlerSteps, WaitingEnds, WaitingSteps, LiveInvariance, PTL
  DEF Spec, ShvRuns
<1>12. Spec /\ Fair /\ <>[]Idles => <>[]SampleWithin(7)
  BY <1>3, <1>9, <1>10, <1>11, WaitingEnds, WaitingSteps, LiveInvariance, PTL
  DEF Spec, LocksInTime, RelocksInTime, SampleStays
<1>13. Spec /\ Fair /\ <>[]Idles => <>[]SampleWithin(4)
  BY <1>3, <1>4, <1>5, <1>12, LiveInvariance, PTL
  DEF Spec, RtRuns, SampleStays, NearsSample, RunsUntil
<1>14. Spec /\ Fair /\ <>[]Idles => <>[]SampleWithin(2)
  BY <1>3, <1>4, <1>5, <1>13, LiveInvariance, PTL
  DEF Spec, RtRuns, SampleStays, NearsSample, RunsUntil
<1>15. Spec /\ Fair /\ <>[]Idles => <>[]SampleWithin(0)
  BY <1>3, <1>4, <1>5, <1>14, LiveInvariance, PTL
  DEF Spec, RtRuns, SampleStays, NearsSample, RunsUntil
<1>16. Spec /\ Fair => ~<>[]Idles
  BY <1>7, <1>15, LiveInvariance, PTL
<1>17. QED
  BY <1>16, PTL DEF ResumeStartsLoop, Idles

-----------------------------------------------------------------------------
(* A program nobody can pause was told to end, and its loop will see that  *)
(* or is already left.                                                     *)
Told == end /\ Unpausable
Sees == Stopped \/ pc \in Leaving

(* The RT task has at most k steps to go until it returns. *)
ExitWithin(k) ==
  /\ pc = "start" => k >= 13
  /\ pc = "outer" => k >= 12
  /\ pc = "init" => k >= 11
  /\ pc = "com_init" => k >= 10
  /\ pc = "com_set" => k >= 9
  /\ pc = "settle" => k >= 8
  /\ pc = "isr" => k >= 7
  /\ pc = "check" => k >= 6
  /\ pc = "loop" => k >= 5
  /\ pc = "end" => k >= 4
  /\ pc = "notrunning" => k >= 3
  /\ pc = "if_end" => k >= 2
  /\ pc = "com_end" => k >= 1

NearsExit(k, j) ==
  /\ LiveInv /\ Told /\ Sees /\ ExitWithin(j) /\ [Next]_vars => ExitWithin(j)'
  /\ LiveInv /\ Told /\ Sees /\ ExitWithin(k) /\ <<RtStep>>_vars
       => ExitWithin(j)'

(* Such a program never waits, so that each step of its RT task leads on.  *)
LEMMA TowardsExit == ASSUME NEW j \in 0..12 PROVE NearsExit(j + 1, j)
<1> USE DEF ExitWithin
<1>0. LiveInv /\ Told => /\ build \in Builds /\ build.main \in Mains
                         /\ pc \in RtLabels \ {"lock", "test", "cond", "wait"}
                         /\ build.main \notin {"systick", "timerhook"}
  BY BuildsAssumption
  DEF LiveInv, IInv, TypeOK, RtTypeOK, RtLabels, Build, EndsFirst, Told,
      Unpausable
<1>1. ASSUME LiveInv, Told, Sees, ExitWithin(j + 1), RtStep
      PROVE  ExitWithin(j)'
  <2>1. /\ build.main \notin {"systick", "timerhook"} /\ end = TRUE
        /\ pc \notin {"lock", "test", "cond", "wait"}
        /\ pc \notin Leaving => Stopped
    BY <1>0, <1>1 DEF LiveInv, IInv, TypeOK, RtTypeOK, Told, Sees
  <2> USE <1>1, <2>1 DEF Goto
  <2>2. CASE RtSetup \/ RtOuterTest \/ RtInit \/ RtComSkip \/ RtComInit \/
             RtComSet \/ RtSettle
    <3>1. \/ pc = "start" /\ pc' \in {"outer", "init", "exit"}
          \/ pc = "outer" /\ pc' = "com_end"
          \/ pc = "init" /\ pc' = "com_init"
          \/ pc = "com_init" /\ pc' \in {"com_set", "settle"}
          \/ pc = "com_set" /\ pc' = "settle"
          \/ pc = "settle" /\ pc' = "loop"
      BY <2>2
      DEF RtSetup, RtOuterTest, RtInit, RtComSkip, RtComInit, RtComSet,
          RtSettle
    <3>2. QED
      BY <3>1
  <2>3. CASE RtLoopTest \/ RtPollError \/ RtIsr \/ RtFinalTime \/ RtNextShot
    <3>1. \/ pc = "loop" /\ pc' = "end"
          \/ pc = "isr" /\ pc' \in {"check", "end"}
          \/ pc = "check" /\ pc' \in {"loop", "end"}
      BY <2>3
      DEF Leaving, RtLoopTest, RtPollError, RtIsr, RtFinalTime, RtNextShot
    <3>2. QED
      BY <3>1
  <2>4. CASE RtEnd \/ RtNotRunning \/ RtIfEnd \/ RtComEnd \/ RtTimerFailure
    <3>1. \/ pc = "end" /\ pc' \in {"notrunning", "done"}
          \/ pc = "notrunning" /\ pc' = "if_end"
          \/ pc = "if_end" /\ pc' = "com_end"
          \/ pc' \in {"done", "exit"}
      BY <2>4 DEF RtEnd, RtNotRunning, RtIfEnd, RtComEnd, RtTimerFailure
    <3>2. QED
      BY <3>1
  <2>5. CASE RtPauseTest \/ RtCondWait
    BY <2>5 DEF RtPauseTest, RtCondWait
  <2>6. QED
    BY <1>1, <2>2, <2>3, <2>4, <2>5 DEF RtStep
<1>2. ASSUME LiveInv, Told, ExitWithin(j), [Next]_vars, ~RtStep
      PROVE  ExitWithin(j)'
  <2>1. ~RtLock /\ ~RtRelock /\ ~RtSemError
    BY <1>0, <1>2 DEF RtLock, RtRelock, RtSemError, Goto
  <2>2. UNCHANGED pc
    BY <1>2, <2>1
    DEF Next, RtSpuriousWakeup, ShvRequest, ShvPause, ShvGetState, ShvResume,
        ShvResumeLock, ShvStep, ShvResumeStore, ShvResumeSignal,
        ShvResumeUnlock, SignalEnd, SignalLoopEnd, Terminated, vars
  <2>3. QED
    BY <1>2, <2>2
<1>3. ExitWithin(j) => ExitWithin(j + 1)
  OBVIOUS
<1> HIDE DEF ExitWithin
<1>4. QED
  BY <1>1, <1>2, <1>3 DEF NearsExit

(* Nothing takes `end` back, or ctrlloopend where there is no client.      *)
LEMMA ToldStays ==
  LiveInv /\ Told /\ [Next]_vars => Told' /\ (Sees => Sees')
<1> SUFFICES ASSUME LiveInv, Told, [Next]_vars PROVE Told' /\ (Sees => Sees')
  OBVIOUS
<1>0. /\ shv = "off" /\ end = TRUE /\ ~build.shv
      /\ pc \notin {"lock", "test", "cond", "wait"}
  BY DEF LiveInv, IInv, TypeOK, RtTypeOK, Lifecycle, EndsFirst, Told,
         Unpausable
<1>1. /\ ~(ShvRequest \/ ShvResumeLock \/ ShvStep)
      /\ ~(RtLock \/ RtRelock \/ RtPauseTest \/ RtCondWait)
  BY <1>0
  DEF ShvRequest, ShvPause, ShvGetState, ShvResume, ShvServes, ShvResumeLock,
      ShvStep, ShvResumeStore, ShvResumeSignal, ShvResumeUnlock, RtLock,
      RtRelock, RtPauseTest, RtCondWait, Goto
<1>2. build' = build /\ ctrlloopend' \in {ctrlloopend, TRUE} /\ end' = TRUE
  <2> USE <1>0 DEF ctx, vars
  <2>1. CASE RtStep
    BY <1>1, <2>1
    DEF RtStep, RtSetup, RtOuterTest, RtInit, RtComSkip, RtComInit, RtComSet,
        RtSettle, RtLoopTest, RtPollError, RtIsr, RtFinalTime, RtNextShot,
        RtEnd, RtNotRunning, RtIfEnd, RtComEnd, RtTimerFailure
  <2>2. CASE RtSpuriousWakeup \/ RtSemError
    BY <2>2 DEF RtSpuriousWakeup, RtSemError
  <2>3. CASE SignalEnd \/ SignalLoopEnd \/ Terminated \/ UNCHANGED vars
    BY <2>3 DEF SignalEnd, SignalLoopEnd, Terminated
  <2>4. QED
    BY <1>1, <2>1, <2>2, <2>3 DEF Next
<1>3. pc \in Leaving => pc' \in Leaving
  <2> USE <1>0 DEF Leaving, Goto
  <2>1. CASE RtStep
    BY <1>1, <2>1
    DEF RtStep, RtSetup, RtOuterTest, RtInit, RtComSkip, RtComInit, RtComSet,
        RtSettle, RtLoopTest, RtPollError, RtIsr, RtFinalTime, RtNextShot,
        RtEnd, RtNotRunning, RtIfEnd, RtComEnd, RtTimerFailure
  <2>2. CASE RtSpuriousWakeup \/ RtSemError
    BY <2>2 DEF RtSpuriousWakeup, RtSemError
  <2>3. CASE SignalEnd \/ SignalLoopEnd \/ Terminated \/ UNCHANGED vars
    BY <2>3 DEF SignalEnd, SignalLoopEnd, Terminated, vars
  <2>4. QED
    BY <1>1, <2>1, <2>2, <2>3 DEF Next
<1>4. Told'
  BY <1>2 DEF Told, Unpausable
<1>5. ctrlloopend => ctrlloopend'
  BY <1>2 DEF LiveInv, IInv, TypeOK, CtxTypeOK
<1>6. QED
  BY <1>2, <1>3, <1>4, <1>5 DEF Sees, Stopped

(* endme, once entered, also stores what the loop looks at.                *)
LEMMA SignalSteps ==
  /\ LiveInv /\ Told => Sees \/ SignalCan
  /\ LiveInv /\ Told /\ <<SignalLoopEnd>>_vars => Sees'
<1>1. LiveInv /\ Told => Sees \/ SignalCan
  BY DEF LiveInv, EndsFirst, Told, Sees, Leaving, Alive,
         SignalCan
<1>2. LiveInv /\ Told /\ <<SignalLoopEnd>>_vars => Sees'
  <2> SUFFICES ASSUME LiveInv, SignalLoopEnd PROVE Sees'
    OBVIOUS
  <2>1. build.main # "sim" /\ build' = build /\ ctrlloopend' = TRUE
    BY DEF LiveInv, PlainRuns, Plain, SignalLoopEnd
  <2>2. QED
    BY <2>1 DEF Sees, Stopped
<1>3. QED
  BY <1>1, <1>2

(* Where no client can pause or resume the program, SIGINT ends it.        *)
THEOREM SignalEnds ==
  Spec /\ RtRuns /\ SignalReturns => SignalEndsUnpausable
<1> DEFINE Fair == RtRuns /\ SignalReturns
<1>1. \A j \in 0..12 : NearsExit(j + 1, j)
  BY TowardsExit
<1>2. /\ NearsExit(13, 12) /\ NearsExit(12, 11) /\ NearsExit(11, 10)
      /\ NearsExit(10, 9) /\ NearsExit(9, 8) /\ NearsExit(8, 7)
      /\ NearsExit(7, 6) /\ NearsExit(6, 5) /\ NearsExit(5, 4)
      /\ NearsExit(4, 3) /\ NearsExit(3, 2) /\ NearsExit(2, 1)
      /\ NearsExit(1, 0)
  BY <1>1, SMT
<1>3. ExitWithin(13)
  BY DEF ExitWithin
<1>4. LiveInv /\ Told => /\ pc \in RtLabels /\ ~com_inited
                         /\ pc \notin {"lock", "test", "cond", "wait"}
  BY DEF LiveInv, IInv, TypeOK, RtTypeOK, Lifecycle, EndsFirst, Told,
         Unpausable
<1>5. LiveInv /\ Told /\ ~RtCan => ~Alive
  BY <1>4 DEF RtCan, Alive
<1>6. LiveInv /\ Told /\ ExitWithin(0) => ~Alive
  BY <1>4 DEF ExitWithin, RtLabels, Alive
<1>7. Spec /\ Fair => (Told ~> Told /\ Sees)
  BY ToldStays, SignalSteps, LiveInvariance, PTL DEF Spec, SignalReturns
<1>8. Spec /\ Fair => (Told ~> ~Alive)
  BY <1>2, <1>3, <1>5, <1>6, <1>7, ToldStays, LiveInvariance, PTL
  DEF Spec, RtRuns, NearsExit
<1>9. QED
  BY <1>8, PTL DEF SignalEndsUnpausable, Told, Unpausable
=============================================================================
