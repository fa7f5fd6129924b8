------------------------------ MODULE CtrlLoop ------------------------------
(***************************************************************************)
(* The main programs that run a generated model.  Three let an SHV client  *)
(* pause and resume it, with the manager node (shv_manager_node.c) that    *)
(* serves the client's calls:                                              *)
(*                                                                         *)
(*   linux      CodeGen/src/linux_main_rt.c                                *)
(*   nuttx      CodeGen/src/nuttx_main.c                                   *)
(*   timerhook  CodeGen/src/nuttx_main_timerhook.c                         *)
(*                                                                         *)
(* The plain ones initialise the model once and run one loop:              *)
(*                                                                         *)
(*   sim        CodeGen/src/sim_main.c, not in real time                   *)
(*   systick    CodeGen/src/nuttx_main_systemtickhook.c, on a semaphore    *)
(*   bare       dspic_main.c, brikiSamd21RT.c, stm32h7_main.c, on a timer  *)
(*              interrupt; nothing ends it                                 *)
(*                                                                         *)
(* Four parties share the platform context <model>_pt_ctx and the global   *)
(* `end`:                                                                  *)
(*                                                                         *)
(*   the RT task      rt_task(), one step per access to shared state;      *)
(*   the SHV thread   runs the manager node's handlers, one at a time;     *)
(*   the signal       endme(), two plain stores, on any thread, any time;  *)
(*   the clock        how late the RT task wakes up.                       *)
(*                                                                         *)
(* Left out: the benchmark thread of the timer hook program (-b) and the   *)
(* values the model computes.  An operator that nothing uses, such as      *)
(* RtLoopUntested, is the one after it with a bug in it: README.md says    *)
(* which property notices.                                                 *)
(***************************************************************************)
EXTENDS Naturals

CONSTANTS
  Builds,     \* the builds and command lines considered; one is fixed by Init
  MaxTime,    \* bound: model time saturates here, in sampling periods
  MaxOverrun  \* bound: sampling periods an overrun may lose

Plain == {"sim", "systick", "bare"}
Mains == {"linux", "nuttx", "timerhook"} \union Plain

(* main: the program; shv: CONF_SHV_USED; finalTime: what the command line *)
(* gives with -f, in sampling periods, 0 when there is none.               *)
Build == [main : Mains, shv : BOOLEAN, finalTime : Nat]

ASSUME BuildsAssumption ==
  /\ Builds \subseteq Build
  /\ \A b \in Builds :
       /\ b.main = "bare" => b.finalTime = 0
       /\ b.main \in Plain => ~b.shv

ASSUME BoundsAssumption ==
  /\ MaxTime \in Nat
  /\ MaxOverrun \in Nat
  /\ \A b \in Builds : b.finalTime <= MaxTime

VARIABLES
  build,          \* the build that runs, never changes
  pc,             \* where rt_task is
  end,            \* the global `end`
  ctrlloopend,    \* pt_ctx.ctrlloopend
  running_state,  \* pt_ctx.running_state
  com_inited,     \* pt_ctx.com_inited
  mutex,          \* who holds pt_ctx.mutex: "free", "rt" or "shv"
  waiting,        \* rt_task sits in the wait queue of pt_ctx.pause_barrier
  T,              \* the global T: the model time handed to MODEL_isr
  tcur,           \* t_current - T0 of rt_task
  shv,            \* where the SHV thread is; "off": there is none
  sig,            \* where endme is: "idle", or "mid" between its two stores
  request,        \* the last of pause and resume the SHV client asked for
  answer,         \* the last getstate reply since that request
  blocks,         \* the model's blocks: "up" between MODEL_init and MODEL_end
  call,           \* the last entry point of the model that was called
  late            \* samples computed since the loop was stopped, at most 2

ctx == <<ctrlloopend, running_state, com_inited, mutex, waiting>>
time == <<T, tcur>>
client == <<request, answer>>
model == <<blocks, call>>
vars == <<build, pc, end, ctx, time, shv, sig, client, model, late>>

RtLabels ==
  {"start", "outer", "init", "com_init", "com_set", "settle", "loop", "isr",
   "check", "end", "notrunning", "if_end", "lock", "test", "cond", "wait",
   "com_end", "done", "exit"}

ShvLabels == {"off", "idle", "resume", "store", "signal", "unlock"}

RtTypeOK ==
  /\ build \in Builds
  /\ pc \in RtLabels
  /\ end \in BOOLEAN

TimeTypeOK ==
  /\ T \in 0..MaxTime
  /\ tcur \in 0..MaxTime
  /\ late \in 0..2

CtxTypeOK ==
  /\ ctrlloopend \in BOOLEAN
  /\ running_state \in {"RUNNING", "NOTRUNNING"}
  /\ com_inited \in BOOLEAN
  /\ mutex \in {"free", "rt", "shv"}
  /\ waiting \in BOOLEAN

OtherTypeOK ==
  /\ shv \in ShvLabels
  /\ sig \in {"idle", "mid"}
  /\ request \in {"none", "pause", "resume"}
  /\ answer \in {"none", "RUNNING", "NOTRUNNING"}
  /\ blocks \in {"down", "up"}
  /\ call \in {"none", "init", "isr", "end", "com_init", "com_fail", "com_end"}

TypeOK == RtTypeOK /\ TimeTypeOK /\ CtxTypeOK /\ OtherTypeOK

-----------------------------------------------------------------------------
(* Static storage and, on NuttX, the first lines of main.                  *)

Init ==
  /\ build \in Builds
  /\ pc = "start"
  /\ end = FALSE
  /\ ctrlloopend = FALSE
  /\ running_state = "NOTRUNNING"
  /\ com_inited = FALSE
  /\ mutex = "free"
  /\ waiting = FALSE
  /\ T = 0
  /\ tcur = 0
  /\ shv = "off"
  /\ sig = "idle"
  /\ request = "none"
  /\ answer = "none"
  /\ blocks = "down"
  /\ call = "none"
  /\ late = 0

(* The process exists: rt_task has neither returned, upon which main       *)
(* returns, nor called exit().                                             *)
Alive == pc \notin {"done", "exit"}

Goto(from, to) == pc = from /\ pc' = to

Saturate(t) == IF t < MaxTime THEN t ELSE MaxTime

-----------------------------------------------------------------------------
(* rt_task: set up, the outer loop, the initialisation of the model.       *)

(* Without the right to SCHED_FIFO, or for a wrong option, the program     *)
(* ends at once.                                                           *)
RtSetup ==
  /\ pc = "start"
  /\ \/ pc' = IF build.main \in Plain THEN "init" ELSE "outer"
     \/ build.main # "bare" /\ pc' = "exit"
  /\ com_inited' = FALSE
  /\ UNCHANGED <<build, end, ctrlloopend, running_state, mutex, waiting, time,
                 shv, sig, client, model, late>>

RtOuterTest ==
  /\ pc = "outer"
  /\ pc' = IF end THEN "com_end" ELSE "init"
  /\ UNCHANGED <<build, end, ctx, time, shv, sig, client, model, late>>

RtInit ==
  /\ Goto("init", "com_init")
  /\ T' = 0
  /\ blocks' = "up"
  /\ call' = "init"
  /\ UNCHANGED <<build, end, ctx, tcur, shv, sig, client, late>>

RtComSkip ==
  /\ Goto("com_init", "settle")
  /\ ~build.shv \/ com_inited
  /\ UNCHANGED <<build, end, ctx, time, shv, sig, client, model, late>>

RtComInitAgain ==
  /\ pc = "com_init"
  /\ build.shv
  /\ \/ pc' = "com_set" /\ shv' \in {"idle", "off"} /\ call' = "com_init"
     \/ pc' = "settle" /\ call' = "com_fail" /\ UNCHANGED shv
  /\ UNCHANGED <<build, end, ctx, time, sig, client, blocks, late>>

(* MODEL_com_init returns 0, with the SHV thread running or, if it could   *)
(* not be created, without one; or it fails.                               *)
RtComInit ==
  /\ pc = "com_init"
  /\ build.shv /\ ~com_inited
  /\ \/ pc' = "com_set" /\ shv' \in {"idle", "off"} /\ call' = "com_init"
     \/ pc' = "settle" /\ call' = "com_fail" /\ UNCHANGED shv
  /\ UNCHANGED <<build, end, ctx, time, sig, client, blocks, late>>

RtComSet ==
  /\ Goto("com_set", "settle")
  /\ com_inited' = TRUE
  /\ UNCHANGED <<build, end, ctrlloopend, running_state, mutex, waiting, time,
                 shv, sig, client, model, late>>

RtSettleUnannounced ==
  /\ Goto("settle", "loop")
  /\ tcur' = 0
  /\ UNCHANGED <<build, end, ctx, T, shv, sig, client, model, late>>

(* usleep(1 s), the clock is read, the loop is announced.  The system tick *)
(* program looks at `end` once, before it first waits for its semaphore.   *)
RtSettle ==
  /\ pc = "settle"
  /\ pc' = IF build.main = "systick" /\ end THEN "end" ELSE "loop"
  /\ tcur' = 0
  /\ running_state' = IF build.main \in Plain THEN running_state ELSE "RUNNING"
  /\ UNCHANGED <<build, end, ctrlloopend, com_inited, mutex, waiting, T, shv,
                 sig, client, model, late>>

-----------------------------------------------------------------------------
(* rt_task: the control loop.                                              *)

(* What the loop's condition looks at: nothing ever sets ctrlloopend in    *)
(* the system tick and bare-metal programs.                                *)
Stopped == IF build.main = "sim" THEN end ELSE ctrlloopend

RtLoopUntested ==
  /\ Goto("loop", "isr")
  /\ UNCHANGED <<build, end, ctx, time, shv, sig, client, model, late>>

RtLoopTest ==
  /\ pc = "loop"
  /\ pc' = IF Stopped THEN "end" ELSE "isr"
  /\ UNCHANGED <<build, end, ctx, time, shv, sig, client, model, late>>

(* sem_wait fails: `end` is looked at. *)
RtSemError ==
  /\ build.main = "systick"
  /\ pc = "loop"
  /\ pc' = IF end THEN "end" ELSE "loop"
  /\ UNCHANGED <<build, end, ctx, time, shv, sig, client, model, late>>

(* poll() on the timer fails, with EINTR if a signal hit this thread. *)
RtPollError ==
  /\ build.main = "timerhook"
  /\ Goto("isr", "end")
  /\ T' = tcur
  /\ UNCHANGED <<build, end, ctx, tcur, shv, sig, client, model, late>>

RtIsr ==
  /\ Goto("isr", "check")
  /\ T' = tcur
  /\ call' = "isr"
  /\ late' = IF ~Stopped THEN 0 ELSE IF late < 2 THEN late + 1 ELSE 2
  /\ UNCHANGED <<build, end, ctx, tcur, shv, sig, client, blocks>>

(* The FinalTime proc_opt leaves behind, 0 for none.  In the NuttX and     *)
(* system tick programs the body of the case for -f is commented out, the  *)
(* timer hook program has no such case: FinalTime keeps its first value.   *)
FinalTime == IF build.main \in {"linux", "sim"} THEN build.finalTime ELSE 0

(* The simulation looks at the time of the next sample. *)
FinalTimeReached ==
  /\ FinalTime > 0
  /\ (IF build.main = "sim" THEN T + 1 ELSE T) >= FinalTime

RtFinalTimeKeepsEnd ==
  /\ Goto("check", "end")
  /\ FinalTimeReached
  /\ UNCHANGED <<build, end, ctx, time, shv, sig, client, model, late>>

(* The Linux program makes the final time the end of the program; the      *)
(* simulation has one loop only, and leaves it.                            *)
RtFinalTime ==
  /\ Goto("check", "end")
  /\ FinalTimeReached
  /\ end' = (end \/ build.main = "linux")
  /\ UNCHANGED <<build, ctx, time, shv, sig, client, model, late>>

(* The next shot is one period on, or now if that has passed already; some *)
(* programs only count their samples.                                      *)
RtNextShot ==
  /\ Goto("check", "loop")
  /\ ~FinalTimeReached
  /\ \E overrun \in 0..MaxOverrun :
       /\ build.main \in {"sim", "bare"} => overrun = 0
       /\ tcur' = Saturate(tcur + 1 + overrun)
  /\ UNCHANGED <<build, end, ctx, T, shv, sig, client, model, late>>

-----------------------------------------------------------------------------
(* rt_task: the model is ended, the task waits for a resume or leaves.     *)

RtEnd ==
  /\ pc = "end"
  /\ pc' = IF build.main \in Plain THEN "done" ELSE "notrunning"
  /\ blocks' = "down"
  /\ call' = "end"
  /\ UNCHANGED <<build, end, ctx, time, shv, sig, client, late>>

RtNotRunningPaused ==
  /\ Goto("notrunning", "if_end")
  /\ running_state' = "PAUSED"
  /\ UNCHANGED <<build, end, ctrlloopend, com_inited, mutex, waiting, time,
                 shv, sig, client, model, late>>

RtNotRunning ==
  /\ Goto("notrunning", "if_end")
  /\ running_state' = "NOTRUNNING"
  /\ UNCHANGED <<build, end, ctrlloopend, com_inited, mutex, waiting, time,
                 shv, sig, client, model, late>>

RtIfEndDropped ==
  /\ Goto("if_end", "lock")
  /\ UNCHANGED <<build, end, ctx, time, shv, sig, client, model, late>>

RtIfEnd ==
  /\ pc = "if_end"
  /\ pc' = IF end THEN "com_end" ELSE "lock"
  /\ UNCHANGED <<build, end, ctx, time, shv, sig, client, model, late>>

RtLock ==
  /\ Goto("lock", "test")
  /\ mutex = "free"
  /\ mutex' = "rt"
  /\ UNCHANGED <<build, end, ctrlloopend, running_state, com_inited, waiting,
                 time, shv, sig, client, model, late>>

RtPauseTest ==
  /\ pc = "test"
  /\ IF ctrlloopend THEN pc' = "cond" /\ UNCHANGED mutex
                    ELSE pc' = "outer" /\ mutex' = "free"
  /\ UNCHANGED <<build, end, ctrlloopend, running_state, com_inited, waiting,
                 time, shv, sig, client, model, late>>

(* pthread_cond_wait gives up the mutex and joins the wait queue at once. *)
RtCondWait ==
  /\ Goto("cond", "wait")
  /\ mutex' = "free"
  /\ waiting' = TRUE
  /\ UNCHANGED <<build, end, ctrlloopend, running_state, com_inited, time, shv,
                 sig, client, model, late>>

(* pthread_cond_wait may return without a signal. *)
RtSpuriousWakeup ==
  /\ pc = "wait"
  /\ waiting
  /\ waiting' = FALSE
  /\ UNCHANGED <<build, pc, end, ctrlloopend, running_state, com_inited, mutex,
                 time, shv, sig, client, model, late>>

RtRelock ==
  /\ Goto("wait", "test")
  /\ ~waiting
  /\ mutex = "free"
  /\ mutex' = "rt"
  /\ UNCHANGED <<build, end, ctrlloopend, running_state, com_inited, waiting,
                 time, shv, sig, client, model, late>>

RtComEndNever ==
  /\ Goto("com_end", "done")
  /\ UNCHANGED <<build, end, ctx, time, shv, sig, client, model, late>>

(* MODEL_com_end stops the SHV thread and waits for its last request.      *)
RtComEnd ==
  /\ Goto("com_end", "done")
  /\ IF com_inited
       THEN shv \in {"idle", "off"} /\ shv' = "off" /\ call' = "com_end"
       ELSE UNCHANGED <<shv, call>>
  /\ UNCHANGED <<build, end, ctx, time, sig, client, blocks, late>>

(* The timer hook program calls exit() when the timer cannot be opened and *)
(* set up, started, or stopped.                                            *)
RtTimerFailure ==
  /\ build.main = "timerhook"
  /\ pc \in {"init", "settle", "end"}
  /\ pc' = "exit"
  /\ UNCHANGED <<build, end, ctx, time, shv, sig, client, model, late>>

RtStep ==
  \/ RtSetup \/ RtOuterTest \/ RtInit \/ RtComSkip \/ RtComInit \/ RtComSet
  \/ RtSettle \/ RtLoopTest \/ RtPollError \/ RtIsr \/ RtFinalTime \/ RtNextShot
  \/ RtEnd \/ RtNotRunning \/ RtIfEnd \/ RtPauseTest \/ RtCondWait
  \/ RtComEnd \/ RtTimerFailure

-----------------------------------------------------------------------------
(* The SHV thread: the handlers of the manager node.                       *)

(* The thread takes a request when it has none, until it is told to stop:  *)
(* shv_com_destroy of the external SHV library waits for the last one.     *)
ShvServes == Alive /\ pc # "com_end" /\ shv = "idle"

ShvPause ==
  /\ ShvServes
  /\ ctrlloopend' = TRUE
  /\ request' = "pause"
  /\ answer' = "none"
  /\ UNCHANGED <<build, pc, end, running_state, com_inited, mutex, waiting, time,
                 shv, sig, model, late>>

ShvGetState ==
  /\ ShvServes
  /\ answer' = running_state
  /\ UNCHANGED <<build, pc, end, ctx, time, shv, sig, request, model, late>>

ShvResume ==
  /\ ShvServes
  /\ shv' = "resume"
  /\ request' = "resume"
  /\ answer' = "none"
  /\ UNCHANGED <<build, pc, end, ctx, time, sig, model, late>>

ShvResumeUnlocked ==
  /\ Alive
  /\ shv = "resume" /\ shv' = "store"
  /\ UNCHANGED <<build, pc, end, ctx, time, sig, client, model, late>>

ShvResumeLock ==
  /\ Alive
  /\ shv = "resume" /\ shv' = "store"
  /\ mutex = "free" /\ mutex' = "shv"
  /\ UNCHANGED <<build, pc, end, ctrlloopend, running_state, com_inited,
                 waiting, time, sig, client, model, late>>

ShvResumeStore ==
  /\ Alive
  /\ shv = "store" /\ shv' = "signal"
  /\ ctrlloopend' = FALSE
  /\ late' = 0
  /\ UNCHANGED <<build, pc, end, running_state, com_inited, mutex, waiting, time,
                 sig, client, model>>

ShvResumeSilent ==
  /\ Alive
  /\ shv = "signal" /\ shv' = "unlock"
  /\ UNCHANGED <<build, pc, end, ctx, time, sig, client, model, late>>

ShvResumeSignal ==
  /\ Alive
  /\ shv = "signal" /\ shv' = "unlock"
  /\ waiting' = FALSE
  /\ UNCHANGED <<build, pc, end, ctrlloopend, running_state, com_inited, mutex,
                 time, sig, client, model, late>>

ShvResumeUnlock ==
  /\ Alive
  /\ shv = "unlock" /\ shv' = "idle"
  /\ mutex' = "free"
  /\ UNCHANGED <<build, pc, end, ctrlloopend, running_state, com_inited,
                 waiting, time, sig, client, model, late>>

ShvRequest == ShvPause \/ ShvGetState \/ ShvResume
ShvStep == ShvResumeStore \/ ShvResumeSignal \/ ShvResumeUnlock

-----------------------------------------------------------------------------
(* endme(): SIGINT.  The plain programs have only the first store.         *)

SignalEnd ==
  /\ Alive
  /\ build.main # "bare"
  /\ sig = "idle"
  /\ sig' = IF build.main \in Plain THEN "idle" ELSE "mid"
  /\ end' = TRUE
  /\ UNCHANGED <<build, pc, ctx, time, shv, client, model, late>>

SignalLoopEnd ==
  /\ Alive
  /\ sig = "mid" /\ sig' = "idle"
  /\ ctrlloopend' = TRUE
  /\ UNCHANGED <<build, pc, end, running_state, com_inited, mutex, waiting, time,
                 shv, client, model, late>>

(* The process is gone. *)
Terminated == ~Alive /\ UNCHANGED vars

Next ==
  \/ RtStep \/ RtLock \/ RtRelock \/ RtSpuriousWakeup \/ RtSemError
  \/ ShvRequest \/ ShvResumeLock \/ ShvStep
  \/ SignalEnd \/ SignalLoopEnd
  \/ Terminated

(* The RT task and the SHV thread are scheduled SCHED_FIFO and a signal    *)
(* handler, once entered, returns.  The mutex goes to a thread that waits  *)
(* for it often enough: the RT task has the higher of the two priorities.  *)
(* Nobody has to call, to send a signal, or to wake up without a reason.   *)
Fairness ==
  /\ WF_vars(RtStep)
  /\ SF_vars(RtLock)
  /\ SF_vars(RtRelock)
  /\ SF_vars(ShvResumeLock)
  /\ WF_vars(ShvStep)
  /\ WF_vars(SignalLoopEnd)

Spec == Init /\ [][Next]_vars
FairSpec == Spec /\ Fairness

-----------------------------------------------------------------------------
(* Safety.                                                                 *)

(* Once the loop is stopped, by the client's pause or by a signal, at most *)
(* the one sample that was already past the loop's test is still computed. *)
AtMostOneLateSample == late <= 1

(* A resume is not lost: while the RT task sleeps on pause_barrier, either *)
(* ctrlloopend is set or the thread that cleared it is about to signal.    *)
(* This is what taking the mutex in _resumectrl is for.                    *)
NoLostResume == waiting => ctrlloopend \/ shv = "signal"

(* When rt_task returns, and the process with it, the devices are closed   *)
(* and no SHV thread is left that would call into the model.               *)
NothingLeftRunning == pc = "done" => blocks = "down" /\ shv = "off"

(* The uploader of new firmware pauses the loop and polls getstate: after  *)
(* a pause was answered NOTRUNNING, whatever the RT task was doing when    *)
(* the two calls came in, no sample is computed until a resume.            *)
QuietOnceAnswered ==
  [][request = "pause" /\ answer = "NOTRUNNING" => late' <= late]_vars

(* Every main drives the model the way its blocks survive.                 *)
Protocol ==
  INSTANCE ModelProtocol WITH
    com <- IF call = "com_end" THEN "ended"
           ELSE IF com_inited \/ pc = "com_set" THEN "on" ELSE "off"

FollowsProtocol == Protocol!Spec

(* Every main keeps the promise of platform.h that FwUpdate builds on: no  *)
(* sample is begun while the loop is stopped, and the loop is reported as  *)
(* running from before its first sample until after its last.  The plain   *)
(* mains report nothing; their loop counts as running while it runs.       *)
Promise ==
  INSTANCE PausableLoop WITH
    stopped <- Stopped,
    sampling <- pc = "isr",
    state <- IF build.main \notin Plain THEN running_state
             ELSE IF pc \in {"loop", "isr", "check"} THEN "RUNNING"
             ELSE "NOTRUNNING"

KeepsPromise == Promise!LoopSpec

-----------------------------------------------------------------------------
(* Liveness.                                                               *)

(* platform.h: pausing "stops the loop and deinits the model".  A loop     *)
(* that stays paused (or is told to end) ends up with its blocks closed.   *)
PauseStopsModel == <>[]ctrlloopend => <>[](blocks = "down" \/ pc = "exit")

(* platform.h: resuming "inits the model again and starts the loop".  As   *)
(* long as nobody stops it, the loop computes samples for ever, after any  *)
(* number of pauses and resumes.                                           *)
ResumeStartsLoop ==
  <>[](~ctrlloopend /\ ~end /\ Alive) => []<>(pc = "isr")

(* SIGINT ends the program. *)
SignalEndsProgram == end ~> ~Alive

(* Where no client can pause or resume and the loop is only ever left with *)
(* `end` set, SIGINT ends the program: endme sets `end` before             *)
(* ctrlloopend, so that rt_task never waits for a resume nobody will send. *)
(* The system tick program ends only if its sem_wait is interrupted.       *)
SignalEndsUnpausable ==
  /\ end /\ ~build.shv
  /\ build.main \notin {"timerhook", "systick"}
  ~> ~Alive

(* print_usage: "-f <final time> set the final time of the execution".     *)
(* The program ends by itself, unless it is stopped or paused before.      *)
FinalTimeEndsProgram ==
  build.finalTime > 0 /\ []~ctrlloopend => <>~Alive

(* The programs that store the final time, the Linux one and the           *)
(* simulation, do that, even if overruns jump over it.                     *)
FinalTimeHeeded ==
  FinalTime > 0 /\ []~ctrlloopend => <>~Alive

(* shv_pysim.c on shv_tree_end: "This should be called before blocks's     *)
(* end functions are called."                                              *)
TreeEndsBeforeBlocks == call = "end" => shv = "off"
=============================================================================
