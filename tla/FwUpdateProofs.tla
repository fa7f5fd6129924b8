--------------------------- MODULE FwUpdateProofs ---------------------------
(***************************************************************************)
(* What holds of the whole firmware update, dialog, client, network and    *)
(* target in detail, for every image, number of chunks and of polls, and   *)
(* however many requests are on their way.                                 *)
(***************************************************************************)
EXTENDS FwUpdate, TLAPS

-----------------------------------------------------------------------------
(* The inductive invariant, one conjunct per idea.                         *)

(* The worker leaves its operation only when it is over, and an operation  *)
(* that is not in a call has none under way.                               *)
Places ==
  /\ Shell /\ worker \notin {"consume", "await"} => task \in Over \union {"none"}
  /\ rpc # "idle" => task \in Rpcs

BeforeWrites == {"none", "created", "stat", "pause", "getstate", "nap", "sized"}

Uploading ==
  {"stat", "pause", "getstate", "nap", "sized", "write", "yield", "summed",
   "crc", "checked", "reset"}

Uploads ==
  /\ task \in Uploading => img \in Images
  /\ task \in BeforeWrites \union Over => chunk = 0
  /\ task = "write" => chunk < Chunks
  /\ task \in {"getstate", "nap"} => retries > 0

(* The reply NOTRUNNING finds nothing else on its way, so that no pause,   *)
(* which alone could stop a loop in the middle of a sample, comes later.   *)
Quiets ==
  /\ state = "NOTRUNNING" => ~sampling
  /\ "target" \notin detail => wire = <<>> /\ ~sampling
  /\ rpc = "NOTRUNNING" => wire = <<>> /\ (stopped => ~sampling)
  /\ quiet => /\ task \notin {"stat", "pause", "getstate", "nap"}
              /\ \A k \in 1..Len(wire) : wire[k].met # "pause"
              /\ stopped => ~sampling

SomeWhole == \E i \in Images : Whole(i)

(* So does the reply to crc: no write comes before the reset.              *)
Wholes ==
  "target" \in detail =>
    /\ rpc = "match" => wire = <<>> /\ Whole(img)
    /\ task = "checked" \/ (task = "reset" /\ rpc = "idle")
         => wire = <<>> /\ SomeWhole
    /\ \A k \in 1..Len(wire) : wire[k].met = "reset" => k = 1 /\ SomeWhole

FwInv ==
  /\ FwTypeOK
  /\ Places
  /\ Uploads
  /\ Quiets
  /\ Wholes

-----------------------------------------------------------------------------
(* The steps, by what they touch.                                          *)

GuiNext ==
  GuiStart \/ GuiCancel \/ GuiOk \/ GuiClose \/ GuiStep

WorkerElse ==
  \/ WorkerWhile \/ WorkerTest \/ WorkerConsume \/ WorkerAwait
  \/ WorkerFinish \/ WorkerEmit \/ WorkerClear

(* Neither the GUI nor the worker moves the operation on, or reaches out.  *)
LEMMA ShellApart ==
  GuiNext \/ WorkerElse => UNCHANGED <<detail, task, upload, quiet, remote>>
BY DEF GuiNext, GuiStep, GuiStart, GuiCancel, GuiOk, GuiClose, GuiWorkDone,
       GuiStopWork, GuiStopThrd, GuiJoin, WorkerElse, WorkerWhile, WorkerTest,
       WorkerConsume, WorkerAwait, WorkerFinish, WorkerEmit, WorkerClear,
       taskVars

(* A step of the specification is one of these. *)
LEMMA StepKinds ==
  [FwNext]_fwVars =>
    \/ GuiNext \/ WorkerElse \/ WorkerCreate \/ TaskStep
    \/ AnyStart \/ AnyCancel \/ ConnDrops \/ Serve \/ Restart \/ TargetStep
    \/ UNCHANGED fwVars
BY DEF FwNext, GuiNext, WorkerElse, WorkerStep

-----------------------------------------------------------------------------
(* Static initialisation satisfies the invariant. *)
LEMMA FwInitEstablishes == FwInit => FwInv
<1> SUFFICES ASSUME FwInit PROVE FwInv
  OBVIOUS
<1> USE FwAssumption DEF FwInit, LoopInit
<1>1. ShellTypeOK
  BY DEF ShellTypeOK, Methods
<1>2. TaskTypeOK
  BY DEF TaskTypeOK
<1>3. RemoteTypeOK
  BY DEF RemoteTypeOK, LoopTypeOK
<1>4. Places /\ Uploads
  BY DEF Places, Uploads, Over, Uploading, BeforeWrites
<1>5. Quiets /\ Wholes
  BY DEF Quiets, Wholes
<1>6. QED
  BY <1>1, <1>2, <1>3, <1>4, <1>5 DEF FwInv, FwTypeOK

(* The dialog and its worker keep their types. *)
LEMMA ShellTypePreserved == FwTypeOK /\ [FwNext]_fwVars => ShellTypeOK'
<1> SUFFICES ASSUME FwTypeOK, [FwNext]_fwVars PROVE ShellTypeOK'
  OBVIOUS
<1> USE DEF FwTypeOK, ShellTypeOK, shell, guiVars, events, host
<1>1. CASE GuiNext
  <2>1. CASE GuiStart
    BY <2>1 DEF GuiStart
  <2>2. CASE GuiCancel \/ GuiOk \/ GuiClose
    BY <2>2 DEF GuiCancel, GuiOk, GuiClose
  <2>3. CASE GuiWorkDone \/ GuiStopWork
    BY <2>3 DEF GuiWorkDone, GuiStopWork
  <2>4. CASE GuiStopThrd \/ GuiJoin
    BY <2>4 DEF GuiStopThrd, GuiJoin
  <2>5. QED
    BY <1>1, <2>1, <2>2, <2>3, <2>4 DEF GuiNext, GuiStep
<1>2. CASE WorkerElse \/ WorkerCreate
  BY <1>2
  DEF WorkerElse, WorkerWhile, WorkerTest, WorkerCreate, WorkerConsume,
      WorkerAwait, WorkerFinish, WorkerEmit, WorkerClear, Goes
<1>3. CASE TaskStep
  <2>1. CASE TaskCall \/ TaskCallTimeout \/ TaskCancelled
    BY <2>1 DEF TaskCall, TaskCallTimeout, TaskCancelled
  <2>2. CASE TaskUpload \/ TaskNap \/ TaskAwake \/ TaskConfirm \/ TaskOpenocd
    BY <2>2
    DEF TaskUpload, TaskNap, TaskAwake, TaskConfirm, TaskOpenocd, Resumed
  <2>3. CASE TaskStat \/ TaskPause \/ TaskState \/ TaskWrite \/ TaskCrc \/
             TaskReset \/ TaskConfirmed
    BY <2>3
    DEF TaskStat, TaskPause, TaskState, TaskWrite, TaskCrc, TaskReset,
        TaskConfirmed, Returned
  <2>4. QED
    BY <1>3, <2>1, <2>2, <2>3 DEF TaskStep
<1>4. CASE AnyStart \/ AnyCancel
  BY <1>4 DEF AnyStart, AnyCancel
<1>5. CASE ConnDrops \/ Serve \/ Restart \/ TargetStep
  BY <1>5
  DEF ConnDrops, Serve, Restart, TargetStep, ServeStat, ServePause,
      ServeGetState, ServeWrite, ServeCrc, ServeConfirm, ServeReset, Served
<1>6. CASE UNCHANGED fwVars
  BY <1>6 DEF fwVars
<1>7. QED
  BY <1>1, <1>2, <1>3, <1>4, <1>5, <1>6, StepKinds

(* The operation keeps its types: the poll counter and the number of the   *)
(* chunk stay within their bounds.                                         *)
LEMMA TaskTypePreserved ==
  FwTypeOK /\ Uploads /\ [FwNext]_fwVars => TaskTypeOK'
<1> SUFFICES ASSUME FwTypeOK, Uploads, [FwNext]_fwVars PROVE TaskTypeOK'
  OBVIOUS
<1>0. Polls \in Nat /\ Chunks \in Nat
  BY FwAssumption
<1> USE <1>0 DEF FwTypeOK, TaskTypeOK, taskVars, upload
<1>1. CASE GuiNext
  BY <1>1
  DEF GuiNext, GuiStep, GuiStart, GuiCancel, GuiOk, GuiClose, GuiWorkDone,
      GuiStopWork, GuiStopThrd, GuiJoin
<1>2. CASE WorkerElse \/ WorkerCreate
  BY <1>2
  DEF WorkerElse, WorkerWhile, WorkerTest, WorkerCreate, WorkerConsume,
      WorkerAwait, WorkerFinish, WorkerEmit, WorkerClear, Goes, Awaits
<1>3. CASE TaskStep
  <2> USE DEF Awaits, Rpcs, Over
  <2>1. CASE TaskCall \/ TaskCallTimeout \/ TaskCancelled
    BY <2>1 DEF TaskCall, TaskCallTimeout, TaskCancelled, Ends
  <2>2. CASE TaskUpload \/ TaskStat \/ TaskPause \/ TaskState
    <3>1. CASE TaskUpload
      <4>1. CASE Report("false")
        <5>1. quiet' \in BOOLEAN /\ UNCHANGED cancelReq
          BY <3>1 DEF TaskUpload, Resumed
        <5>2. QED
          BY <4>1, <5>1 DEF Report, Ends
      <4>2. CASE ~Report("false")
        <5>1. /\ task' = "stat" /\ img' \in Images /\ quiet' = FALSE
              /\ UNCHANGED <<queued, retries, chunk>>
          BY <3>1, <4>2 DEF TaskUpload
        <5>2. UNCHANGED cancelReq
          BY <3>1 DEF TaskUpload, Resumed
        <5>3. QED
          BY <5>1, <5>2
      <4>3. QED
        BY <4>1, <4>2
    <3>2. CASE TaskStat
      BY <3>2 DEF TaskStat, Returned, GivesUp, Report, Ends
    <3>3. CASE TaskPause
      BY <3>3 DEF TaskPause, Returned
    <3>4. CASE TaskState
      BY <3>4 DEF TaskState, Returned
    <3>5. QED
      BY <2>2, <3>1, <3>2, <3>3, <3>4
  <2>3. CASE TaskNap \/ TaskWrite
    BY <2>3
    DEF TaskNap, TaskWrite, Uploads, AfterChunks, Returned, Resumed, Runs
  <2>4. CASE TaskCrc \/ TaskReset \/ TaskAwake
    BY <2>4
    DEF TaskCrc, TaskReset, TaskAwake, AfterChunks, Returned, Resumed, Report,
        GivesUp, Ends
  <2>5. CASE TaskConfirm \/ TaskConfirmed \/ TaskOpenocd
    BY <2>5
    DEF TaskConfirm, TaskConfirmed, TaskOpenocd, Returned, Resumed, Report,
        Ends
  <2>6. QED
    BY <1>3, <2>1, <2>2, <2>3, <2>4, <2>5 DEF TaskStep
<1>4. CASE AnyStart \/ AnyCancel
  BY <1>4 DEF AnyStart, AnyCancel, Awaits
<1>5. CASE ConnDrops \/ Serve \/ Restart \/ TargetStep
  BY <1>5
  DEF ConnDrops, Serve, Restart, TargetStep, ServeStat, ServePause,
      ServeGetState, ServeWrite, ServeCrc, ServeConfirm, ServeReset, Served,
      host
<1>6. CASE UNCHANGED fwVars
  BY <1>6 DEF fwVars
<1>7. QED
  BY <1>1, <1>2, <1>3, <1>4, <1>5, <1>6, StepKinds

(* A call appends a request, serving takes the oldest one off.             *)
LEMMA SentWire ==
  ASSUME FwTypeOK, Uploads, TaskCall
  PROVE  /\ wire' \in Seq(Request) /\ Len(wire') <= MaxWire
         /\ UNCHANGED target
         /\ conn' \in {"none", "up", "down"}
         /\ rpc' \in {"idle", "sent"} \union Results
<1> USE DEF FwTypeOK, RemoteTypeOK
<1>1. UNCHANGED target
  BY DEF TaskCall
<1>2. conn' \in {"none", "up", "down"}
  BY DEF TaskCall, AfterConnect
<1>3. rpc' \in {"idle", "sent"} \union Results
  BY DEF TaskCall, Results
<1>4. wire' \in Seq(Request) /\ Len(wire') <= MaxWire
  <2>1. CASE UNCHANGED wire
    BY <2>1
  <2>2. CASE ~UNCHANGED wire
    <3> DEFINE req == IF task = "write"
                        THEN [met |-> "write", chunk |-> chunk, img |-> img]
                        ELSE [met |-> task]
    <3>1. wire' = Append(wire, req) /\ Len(wire) < MaxWire
      BY <2>2 DEF TaskCall
    <3>2. CASE task = "write"
      <4>1. chunk \in 0..(Chunks - 1) /\ img \in Images
        BY <3>2, FwAssumption DEF Uploads, Uploading, TaskTypeOK
      <4>2. req \in Request
        BY <3>2, <4>1 DEF Request
      <4>3. QED
        BY <3>1, <4>2, FwAssumption
    <3>3. CASE task # "write"
      <4>1. task \in Rpcs \ {"write"}
        BY <3>3 DEF TaskCall
      <4>2. req \in Request
        BY <3>3, <4>1 DEF Request
      <4>3. QED
        BY <3>1, <4>2, FwAssumption
    <3>4. QED
      BY <3>2, <3>3
  <2>3. QED
    BY <2>1, <2>2
<1>5. QED
  BY <1>1, <1>2, <1>3, <1>4

LEMMA ServedWire ==
  ASSUME FwTypeOK, NEW met, NEW result, Served(met, result)
  PROVE  /\ wire' \in Seq(Request) /\ Len(wire') = Len(wire) - 1
         /\ Len(wire) \in Nat \ {0}
         /\ Head(wire) \in Request /\ Head(wire) = wire[1]
         /\ \A k \in 1..Len(wire') : wire'[k] = wire[k + 1]
BY DEF FwTypeOK, RemoteTypeOK, Served

(* A restart brings back what Init says, but for the flash. *)
LEMMA RestartTypes == FwTypeOK /\ Restart => RemoteTypeOK'
<1> SUFFICES ASSUME FwTypeOK, Restart PROVE RemoteTypeOK'
  OBVIOUS
<1> USE DEF FwTypeOK, RemoteTypeOK, LoopTypeOK, Restart
<1>1. stopped' \in BOOLEAN /\ sampling' \in BOOLEAN
  OBVIOUS
<1>2. state' \in {"RUNNING", "NOTRUNNING"}
  OBVIOUS
<1>3. rpc' \in {"idle", "sent"} \union Results
  BY DEF Results
<1>4. wire' \in Seq(Request) /\ Len(wire') <= MaxWire
  BY FwAssumption
<1>5. UNCHANGED <<conn, flash>>
  OBVIOUS
<1>6. QED
  BY <1>1, <1>2, <1>3, <1>4, <1>5

(* The remote side keeps its types. *)
LEMMA RemoteTypePreserved ==
  FwTypeOK /\ Uploads /\ [FwNext]_fwVars => RemoteTypeOK'
<1> SUFFICES ASSUME FwTypeOK, Uploads, [FwNext]_fwVars PROVE RemoteTypeOK'
  OBVIOUS
<1>0. MaxWire \in Nat /\ <<>> \in Seq(Request) /\ Len(<<>>) = 0
  BY FwAssumption
<1> USE <1>0 DEF FwTypeOK, RemoteTypeOK, LoopTypeOK, remote, target, loopVars
<1>1. CASE GuiNext \/ WorkerElse
  BY <1>1, ShellApart
<1>2. CASE WorkerCreate
  BY <1>2 DEF WorkerCreate
<1>3. CASE TaskStep
  <2>1. CASE TaskCall
    BY <2>1, SentWire
  <2>2. CASE TaskCallTimeout \/ TaskCancelled
    BY <2>2 DEF TaskCallTimeout, TaskCancelled, Results
  <2>3. CASE TaskUpload \/ TaskNap \/ TaskAwake \/ TaskConfirm \/ TaskOpenocd
    BY <2>3
    DEF TaskUpload, TaskNap, TaskAwake, TaskConfirm, TaskOpenocd, Resumed,
        AfterUpdate
  <2>4. CASE TaskStat \/ TaskPause \/ TaskState \/ TaskWrite \/ TaskCrc \/
             TaskReset \/ TaskConfirmed
    BY <2>4
    DEF TaskStat, TaskPause, TaskState, TaskWrite, TaskCrc, TaskReset,
        TaskConfirmed, Returned, GivesUp
  <2>5. QED
    BY <1>3, <2>1, <2>2, <2>3, <2>4 DEF TaskStep
<1>4. CASE AnyStart \/ AnyCancel
  BY <1>4 DEF AnyStart, AnyCancel
<1>5. CASE ConnDrops
  BY <1>5 DEF ConnDrops, Results
<1>6. CASE Serve
  <2>1. CASE ServeStat \/ ServeConfirm
    BY <2>1, ServedWire DEF ServeStat, ServeConfirm, Served, Results
  <2>2. CASE ServePause
    BY <2>2, ServedWire DEF ServePause, Served, Pause, Results
  <2>3. CASE ServeGetState
    BY <2>3, ServedWire DEF ServeGetState, Served, Results
  <2>4. CASE ServeWrite
    <3>1. CASE Served("write", "error") /\ UNCHANGED target
      BY <3>1, ServedWire DEF Served, Results
    <3>2. CASE /\ Served("write", "ok") /\ UNCHANGED loopVars
               /\ flash' = [flash EXCEPT ![Head(wire).chunk] = Head(wire).img]
      <4>1. Head(wire) \in Request /\ Head(wire).met = "write"
        BY <3>2, ServedWire DEF Served
      <4>2. Head(wire).chunk \in 0..(Chunks - 1) /\ Head(wire).img \in Images
        BY <4>1 DEF Request
      <4>3. flash' \in [0..(Chunks - 1) -> Images \union {Erased}]
        BY <3>2, <4>2
      <4>4. QED
        BY <3>2, <4>3, ServedWire DEF Served, Results
    <3>3. QED
      BY <2>4, <3>1, <3>2 DEF ServeWrite
  <2>5. CASE ServeCrc
    BY <2>5, ServedWire DEF ServeCrc, Served, Results
  <2>6. CASE ServeReset
    BY <2>6, RestartTypes DEF ServeReset
  <2>7. QED
    BY <1>6, <2>1, <2>2, <2>3, <2>4, <2>5, <2>6 DEF Serve
<1>7. CASE Restart
  BY <1>7, RestartTypes
<1>8. CASE TargetStep
  BY <1>8
  DEF TargetStep, LoopStep, Announce, BeginSample, EndSample, Withdraw
<1>9. CASE UNCHANGED fwVars
  BY <1>9 DEF fwVars
<1>10. QED
  BY <1>1, <1>2, <1>3, <1>4, <1>5, <1>6, <1>7, <1>8, <1>9, StepKinds

(* The operation lives within its worker, a call within its operation.     *)
LEMMA PlacesPreserved == Places /\ [FwNext]_fwVars => Places'
<1> SUFFICES ASSUME Places, [FwNext]_fwVars PROVE Places'
  OBVIOUS
<1> USE DEF Places, Shell
<1>1. CASE GuiNext
  BY <1>1, ShellApart
  DEF GuiNext, GuiStep, GuiStart, GuiCancel, GuiOk, GuiClose, GuiWorkDone,
      GuiStopWork, GuiStopThrd, GuiJoin, remote
<1>2. CASE WorkerElse
  BY <1>2, ShellApart
  DEF WorkerElse, WorkerWhile, WorkerTest, WorkerConsume, WorkerAwait,
      WorkerFinish, WorkerEmit, WorkerClear, Goes, remote
<1>3. CASE WorkerCreate
  BY <1>3 DEF WorkerCreate, Goes, remote, Over, Rpcs
<1>4. CASE TaskStep
  <2> USE DEF Runs, shell, Over, Rpcs, Awaits, Shell
  <2>1. CASE TaskCall \/ TaskCallTimeout \/ TaskCancelled
    BY <2>1
    DEF TaskCall, TaskCallTimeout, TaskCancelled, Ends, taskVars, remote
  <2>2. CASE TaskUpload \/ TaskNap \/ TaskAwake \/ TaskConfirm \/ TaskOpenocd
    BY <2>2
    DEF TaskUpload, TaskNap, TaskAwake, TaskConfirm, TaskOpenocd, Resumed,
        Report, Ends
  <2>3. CASE TaskStat \/ TaskPause \/ TaskState \/ TaskWrite \/ TaskCrc \/
             TaskReset \/ TaskConfirmed
    BY <2>3
    DEF TaskStat, TaskPause, TaskState, TaskWrite, TaskCrc, TaskReset,
        TaskConfirmed, Returned, GivesUp, Report, Ends
  <2>4. QED
    BY <1>4, <2>1, <2>2, <2>3 DEF TaskStep
<1>5. CASE AnyStart \/ AnyCancel
  BY <1>5 DEF AnyStart, AnyCancel, shell, remote, Over, Rpcs
<1>6. CASE ConnDrops \/ Serve \/ Restart \/ TargetStep
  BY <1>6
  DEF ConnDrops, Serve, Restart, TargetStep, ServeStat, ServePause,
      ServeGetState, ServeWrite, ServeCrc, ServeConfirm, ServeReset, Served,
      host, shell, taskVars
<1>7. CASE UNCHANGED fwVars
  BY <1>7 DEF fwVars, taskVars, remote
<1>8. QED
  BY <1>1, <1>2, <1>3, <1>4, <1>5, <1>6, <1>7, StepKinds

(* An upload has its image, and writes no chunk but the image's.           *)
LEMMA UploadsPreserved ==
  FwTypeOK /\ Places /\ Uploads /\ [FwNext]_fwVars => Uploads'
<1> SUFFICES ASSUME FwTypeOK, Places, Uploads, [FwNext]_fwVars PROVE Uploads'
  OBVIOUS
<1>0. Polls \in Nat \ {0} /\ Chunks \in Nat \ {0}
  BY FwAssumption
<1> USE <1>0 DEF Uploads, Uploading, BeforeWrites, Over, upload
<1>1. CASE GuiNext \/ WorkerElse
  BY <1>1, ShellApart
<1>2. CASE WorkerCreate
  BY <1>2 DEF WorkerCreate, Goes, Places
<1>3. CASE TaskStep
  <2> USE DEF FwTypeOK, TaskTypeOK, Rpcs, Awaits
  <2>1. CASE TaskCall \/ TaskCallTimeout \/ TaskCancelled
    BY <2>1 DEF TaskCall, TaskCallTimeout, TaskCancelled, Ends, taskVars
  <2>2. CASE TaskUpload
    BY <2>2 DEF TaskUpload, Report, Ends, Resumed, Runs
  <2>3. CASE TaskNap
    BY <2>3 DEF TaskNap, Resumed, Runs
  <2>4. CASE TaskAwake
    BY <2>4 DEF TaskAwake, AfterChunks, Resumed, Runs
  <2>5. CASE TaskWrite
    BY <2>5 DEF TaskWrite, AfterChunks, Returned, Runs
  <2>6. CASE TaskStat \/ TaskPause \/ TaskState
    BY <2>6
    DEF TaskStat, TaskPause, TaskState, Returned, Runs, GivesUp, Report, Ends
  <2>7. CASE TaskCrc \/ TaskReset
    BY <2>7 DEF TaskCrc, TaskReset, Returned, Runs, GivesUp, Report, Ends
  <2>8. CASE TaskConfirm \/ TaskConfirmed \/ TaskOpenocd
    BY <2>8
    DEF TaskConfirm, TaskConfirmed, TaskOpenocd, Report, Ends
  <2>9. QED
    BY <1>3, <2>1, <2>2, <2>3, <2>4, <2>5, <2>6, <2>7, <2>8 DEF TaskStep
<1>4. CASE AnyStart \/ AnyCancel
  BY <1>4 DEF AnyStart, AnyCancel
<1>5. CASE ConnDrops \/ Serve \/ Restart \/ TargetStep
  BY <1>5
  DEF ConnDrops, Serve, Restart, TargetStep, ServeStat, ServePause,
      ServeGetState, ServeWrite, ServeCrc, ServeConfirm, ServeReset, Served,
      host, taskVars
<1>6. CASE UNCHANGED fwVars
  BY <1>6 DEF fwVars, taskVars
<1>7. QED
  BY <1>1, <1>2, <1>3, <1>4, <1>5, <1>6, StepKinds

(* A request that is on its way after a call was on its way before, or is  *)
(* the call's.                                                             *)
LEMMA SentMet ==
  ASSUME FwTypeOK, TaskCall, ~UNCHANGED wire
  PROVE  /\ "target" \in detail /\ UNCHANGED <<task, upload>>
         /\ \A k \in 1..Len(wire') :
              \/ k = Len(wire) + 1 /\ wire'[k].met = task
              \/ k \in 1..Len(wire) /\ wire'[k] = wire[k]
<1> DEFINE req == IF task = "write"
                    THEN [met |-> "write", chunk |-> chunk, img |-> img]
                    ELSE [met |-> task]
<1>1. /\ wire' = Append(wire, req) /\ "target" \in detail
      /\ UNCHANGED <<task, upload>>
  BY DEF TaskCall
<1>2. req.met = task
  OBVIOUS
<1>3. wire \in Seq(Request)
  BY DEF FwTypeOK, RemoteTypeOK
<1> HIDE DEF req
<1>4. ASSUME NEW k \in 1..Len(wire')
      PROVE  \/ k = Len(wire) + 1 /\ wire'[k].met = task
             \/ k \in 1..Len(wire) /\ wire'[k] = wire[k]
  <2>1. Len(wire) \in Nat /\ Len(wire') = Len(wire) + 1
    BY <1>1, <1>3
  <2>2. CASE k = Len(wire) + 1
    BY <1>1, <1>2, <1>3, <2>2
  <2>3. CASE k \in 1..Len(wire)
    BY <1>1, <1>3, <2>3
  <2>4. QED
    BY <2>1, <2>2, <2>3
<1>5. QED
  BY <1>1, <1>4

(* No sample is computed while the chunks of a quiet upload are written.   *)
LEMMA QuietsPreserved ==
  FwTypeOK /\ Places /\ Uploads /\ Quiets /\ [FwNext]_fwVars => Quiets'
<1> SUFFICES ASSUME FwTypeOK, Places, Uploads, Quiets, [FwNext]_fwVars
             PROVE  Quiets'
  OBVIOUS
<1> USE DEF Quiets, remote, target, loopVars, shell
<1>1. CASE GuiNext \/ WorkerElse
  BY <1>1, ShellApart
<1>2. CASE WorkerCreate
  BY <1>2 DEF WorkerCreate
<1>3. CASE TaskStep
  <2>1. CASE TaskCall
    <3>1. UNCHANGED <<detail, quiet, loopVars>>
      BY <2>1 DEF TaskCall
    <3>2. CASE UNCHANGED wire
      <4>1. task' = task \/ task' = "failed"
        BY <2>1 DEF TaskCall, Ends
      <4>2. rpc' = "NOTRUNNING" => "target" \notin detail \/ rpc = "NOTRUNNING"
        BY <2>1, <3>2 DEF TaskCall
      <4>3. QED
        BY <3>1, <3>2, <4>1, <4>2
    <3>3. CASE ~UNCHANGED wire
      <4>1. rpc' = "sent"
        BY <2>1, <3>3 DEF TaskCall
      <4>2. task' = task /\ "target" \in detail
        BY <2>1, <3>3, SentMet
      <4>3. quiet => \A k \in 1..Len(wire') : wire'[k].met # "pause"
        BY <2>1, <3>3, SentMet
      <4>4. QED
        BY <3>1, <4>1, <4>2, <4>3
    <3>4. QED
      BY <3>2, <3>3
  <2>2. CASE TaskCallTimeout \/ TaskCancelled
    BY <2>2 DEF TaskCallTimeout, TaskCancelled, taskVars, Ends
  <2>3. CASE TaskUpload
    BY <2>3 DEF TaskUpload, Resumed
  <2>4. CASE TaskNap \/ TaskAwake
    BY <2>4 DEF TaskNap, TaskAwake, AfterChunks, Resumed, Runs
  <2>5. CASE TaskStat \/ TaskPause \/ TaskWrite
    BY <2>5
    DEF TaskStat, TaskPause, TaskWrite, AfterChunks, Returned, Runs, GivesUp,
        Report, Ends
  <2>6. CASE TaskState
    <3>1. CASE rpc = "NOTRUNNING"
      <4>1. wire' = <<>> /\ Len(wire') = 0
        BY <2>6, <3>1 DEF TaskState, Returned
      <4>2. /\ UNCHANGED <<detail, state, stopped, sampling>>
            /\ rpc' = "idle" /\ task' = "sized"
        BY <2>6, <3>1 DEF TaskState, Returned
      <4>3. QED
        BY <3>1, <4>1, <4>2
    <3>2. CASE rpc # "NOTRUNNING"
      BY <2>6, <3>2 DEF TaskState, Returned, Runs
    <3>3. QED
      BY <3>1, <3>2
  <2>7. CASE TaskCrc \/ TaskReset \/ TaskConfirmed
    BY <2>7
    DEF TaskCrc, TaskReset, TaskConfirmed, Returned, GivesUp, Report, Ends
  <2>8. CASE TaskConfirm \/ TaskOpenocd
    BY <2>8 DEF TaskConfirm, TaskOpenocd, Resumed, Report, Ends
  <2>9. QED
    BY <1>3, <2>1, <2>2, <2>3, <2>4, <2>5, <2>6, <2>7, <2>8 DEF TaskStep
<1>4. CASE AnyStart \/ AnyCancel
  BY <1>4 DEF AnyStart, AnyCancel
<1>5. CASE ConnDrops
  BY <1>5 DEF ConnDrops, host, taskVars
<1>6. CASE Serve
  <2> USE DEF host, taskVars
  <2>1. CASE ServeStat \/ ServeConfirm \/ ServeCrc \/ ServeWrite
    <3>1. PICK met \in Rpcs, result \in Results \ {"NOTRUNNING"} :
            Served(met, result) /\ UNCHANGED loopVars
      BY <2>1
      DEF ServeStat, ServeConfirm, ServeCrc, ServeWrite, Rpcs, Results
    <3>2. QED
      BY <3>1, ServedWire DEF Served
  <2>2. CASE ServePause
    <3>1. Served("pause", "ok") /\ wire[1].met = "pause"
      BY <2>2, ServedWire DEF ServePause, Served
    <3>2. ~quiet /\ wire # <<>>
      BY <3>1, ServedWire DEF Served
    <3>3. QED
      BY <2>2, <3>1, <3>2 DEF ServePause, Served, Pause
  <2>3. CASE ServeGetState
    <3>1. Served("getstate", state) /\ UNCHANGED loopVars
      BY <2>3 DEF ServeGetState
    <3>2. rpc' = "NOTRUNNING" => wire' = <<>> /\ ~sampling
      BY <3>1 DEF Served, FwTypeOK, RemoteTypeOK
    <3>3. QED
      BY <3>1, <3>2, ServedWire DEF Served
  <2>4. CASE ServeReset
    BY <2>4 DEF ServeReset, Restart
  <2>5. QED
    BY <1>6, <2>1, <2>2, <2>3, <2>4 DEF Serve
<1>7. CASE Restart
  BY <1>7 DEF Restart, host, taskVars
<1>8. CASE TargetStep
  BY <1>8
  DEF TargetStep, LoopStep, Announce, BeginSample, EndSample, Withdraw, host,
      taskVars
<1>9. CASE UNCHANGED fwVars
  BY <1>9 DEF fwVars, taskVars
<1>10. QED
  BY <1>1, <1>2, <1>3, <1>4, <1>5, <1>6, <1>7, <1>8, <1>9, StepKinds

(* From the checksum's match to the reset the partition holds one image.   *)
LEMMA WholesPreserved ==
  FwTypeOK /\ Places /\ Uploads /\ Wholes /\ [FwNext]_fwVars => Wholes'
<1> SUFFICES ASSUME FwTypeOK, Places, Uploads, Wholes, [FwNext]_fwVars
             PROVE  Wholes'
  OBVIOUS
<1> USE DEF Wholes, SomeWhole, Whole, remote, target, shell, upload
<1>1. CASE GuiNext \/ WorkerElse
  BY <1>1, ShellApart
<1>2. CASE WorkerCreate
  BY <1>2 DEF WorkerCreate, Goes, Places, Over, Rpcs
<1>3. CASE TaskStep
  <2>1. CASE TaskCall
    <3>1. UNCHANGED <<detail, flash>> /\ task \in Rpcs /\ rpc = "idle"
      BY <2>1 DEF TaskCall
    <3>2. "target" \in detail =>
            \/ rpc' \in {"sent", "error"} /\ task' = task
            \/ rpc' = "idle" /\ task' = "failed"
      BY <2>1 DEF TaskCall, Ends
    <3>3. CASE UNCHANGED wire
      BY <3>1, <3>2, <3>3
    <3>4. CASE ~UNCHANGED wire
      <4>1. ASSUME NEW k \in 1..Len(wire'), wire'[k].met = "reset",
                   "target" \in detail
            PROVE  k = 1 /\ SomeWhole
        <5>1. CASE k = Len(wire) + 1 /\ wire'[k].met = task
          <6>1. wire = <<>> /\ SomeWhole
            BY <3>1, <4>1, <5>1
          <6>2. Len(wire) = 0
            BY <6>1
          <6>3. QED
            BY <5>1, <6>1, <6>2
        <5>2. CASE k \in 1..Len(wire) /\ wire'[k] = wire[k]
          BY <4>1, <5>2
        <5>3. QED
          BY <2>1, <3>4, <5>1, <5>2, SentMet
      <4>2. "target" \in detail =>
              rpc' # "match" /\ task' # "checked" /\ (task' = "reset" => rpc' # "idle")
        BY <3>1, <3>2 DEF Rpcs
      <4>3. QED
        BY <3>1, <4>1, <4>2
    <3>5. QED
      BY <3>3, <3>4
  <2>2. CASE TaskCallTimeout
    BY <2>2 DEF TaskCallTimeout, taskVars
  <2>3. CASE TaskCancelled
    BY <2>3 DEF TaskCancelled, Ends, Places, Awaits, Rpcs
  <2>4. CASE TaskUpload \/ TaskNap \/ TaskConfirm \/ TaskOpenocd
    BY <2>4
    DEF TaskUpload, TaskNap, TaskConfirm, TaskOpenocd, Resumed, Runs, Report,
        Ends, Places, Rpcs
  <2>5. CASE TaskAwake
    BY <2>5 DEF TaskAwake, AfterChunks, Resumed, Runs, Places, Rpcs
  <2>6. CASE TaskStat \/ TaskPause \/ TaskState \/ TaskWrite
    BY <2>6
    DEF TaskStat, TaskPause, TaskState, TaskWrite, AfterChunks, Returned,
        GivesUp, Report, Ends
  <2>7. CASE TaskCrc
    <3>1. CASE rpc = "match"
      <4>1. img \in Images
        BY <2>7 DEF TaskCrc, Returned, Runs, Uploads, Uploading
      <4>2. QED
        BY <2>7, <3>1, <4>1 DEF TaskCrc, Returned
    <3>2. CASE rpc # "match"
      BY <2>7, <3>2 DEF TaskCrc, Returned, GivesUp, Report, Ends
    <3>3. QED
      BY <3>1, <3>2
  <2>8. CASE TaskReset \/ TaskConfirmed
    BY <2>8 DEF TaskReset, TaskConfirmed, Returned, Report, Ends
  <2>9. QED
    BY <1>3, <2>1, <2>2, <2>3, <2>4, <2>5, <2>6, <2>7, <2>8 DEF TaskStep
<1>4. CASE AnyStart \/ AnyCancel
  BY <1>4 DEF AnyStart, AnyCancel, Places, Over, Rpcs
<1>5. CASE ConnDrops
  BY <1>5 DEF ConnDrops, host, taskVars
<1>6. CASE Serve
  <2>1. CASE ServeReset
    BY <2>1 DEF ServeReset, Restart, host, taskVars
  <2>2. CASE ~ServeReset
    <3>1. PICK met \in Rpcs, result \in Results : Served(met, result)
      BY <1>6, <2>2
      DEF Serve, ServeStat, ServePause, ServeGetState, ServeWrite, ServeCrc,
          ServeConfirm, Rpcs, Results, FwTypeOK, RemoteTypeOK, LoopTypeOK
    <3>2. /\ wire # <<>> /\ UNCHANGED <<detail, task, img>>
          /\ rpc' = "idle" => rpc = "idle"
      BY <3>1 DEF Served, host, taskVars, Results
    <3>3. \A k \in 1..Len(wire') : wire'[k].met # "reset" \/ "target" \notin detail
      <4>1. /\ Len(wire) \in Nat /\ Len(wire') = Len(wire) - 1
            /\ \A k \in 1..Len(wire') : wire'[k] = wire[k + 1]
        BY <3>1, ServedWire
      <4>2. ASSUME NEW k \in 1..Len(wire')
            PROVE  k + 1 \in 1..Len(wire) /\ k + 1 # 1
        BY <4>1
      <4>3. QED
        BY <4>1, <4>2
    <3>4. rpc' = "match" /\ "target" \in detail => wire' = <<>> /\ Whole(img)'
      <4>1. CASE ServeCrc
        BY <3>2, <4>1
        DEF ServeCrc, Served, FwTypeOK, RemoteTypeOK
      <4>2. CASE ~ServeCrc
        BY <1>6, <2>2, <3>2, <4>2
        DEF Serve, ServeStat, ServePause, ServeGetState, ServeWrite,
            ServeConfirm, Served, FwTypeOK, RemoteTypeOK, LoopTypeOK
      <4>3. QED
        BY <4>1, <4>2
    <3>5. QED
      BY <3>2, <3>3, <3>4
  <2>3. QED
    BY <2>1, <2>2
<1>7. CASE Restart
  BY <1>7 DEF Restart, host, taskVars
<1>8. CASE TargetStep
  BY <1>8 DEF TargetStep, host, taskVars
<1>9. CASE UNCHANGED fwVars
  BY <1>9 DEF fwVars, taskVars
<1>10. QED
  BY <1>1, <1>2, <1>3, <1>4, <1>5, <1>6, <1>7, <1>8, <1>9, StepKinds

-----------------------------------------------------------------------------
(* The results.                                                            *)

(* FwInv is an inductive invariant of the firmware update. *)
THEOREM FwInvariance == FwSpec => []FwInv
<1>1. FwInit => FwInv
  BY FwInitEstablishes
<1>2. FwInv /\ [FwNext]_fwVars => FwInv'
  BY ShellTypePreserved, TaskTypePreserved, RemoteTypePreserved,
     PlacesPreserved, UploadsPreserved, QuietsPreserved, WholesPreserved
  DEF FwInv, FwTypeOK
<1>3. QED
  BY <1>1, <1>2, PTL DEF FwSpec

(* No event, counter or request leaves its range: the poll gives up in     *)
(* time, and no chunk is written beyond the image.                         *)
THEOREM FwTypeCorrect == FwSpec => []FwTypeOK
<1>1. FwInv => FwTypeOK
  BY DEF FwInv
<1>2. QED
  BY <1>1, FwInvariance, PTL

(* A quiet upload writes between samples only, with the dialog and the     *)
(* target in detail and any number of requests on their way.               *)
THEOREM QuietWrites == FwSpec => WrittenWhileQuiet
<1>1. ASSUME FwInv, [FwNext]_fwVars, flash' # flash, quiet, stopped
      PROVE  ~sampling
  BY <1>1 DEF FwInv, Quiets
<1>2. FwInv /\ [FwNext]_fwVars
        => [flash' # flash /\ quiet /\ stopped => ~sampling]_fwVars
  BY <1>1
<1>3. QED
  BY <1>2, FwInvariance, PTL DEF FwSpec, WrittenWhileQuiet

(* The target is only reset into a whole image. *)
THEOREM WholeResets == FwSpec => ResetOnlyWhole
<1>1. ASSUME FwInv, ServeReset
      PROVE  \E i \in Images : Whole(i)
  <2>1. "target" \in detail /\ wire # <<>> /\ Head(wire).met = "reset"
    BY <1>1 DEF ServeReset, Restart
  <2>2. 1 \in 1..Len(wire) /\ wire[1].met = "reset"
    BY <1>1, <2>1 DEF FwInv, FwTypeOK, RemoteTypeOK
  <2>3. QED
    BY <1>1, <2>1, <2>2 DEF FwInv, Wholes, SomeWhole
<1>2. FwInv /\ [FwNext]_fwVars
        => [ServeReset => \E i \in Images : Whole(i)]_fwVars
  BY <1>1
<1>3. QED
  BY <1>2, FwInvariance, PTL DEF FwSpec, ResetOnlyWhole
=============================================================================
