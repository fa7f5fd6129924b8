------------------------------ MODULE FwUpdate ------------------------------
(***************************************************************************)
(* The firmware update: the dialog UpdimgDlg and its worker thread         *)
(* (dialg.py), the operation the worker runs (image_update.py,             *)
(* image_confirm.py), the SHV client (shv/client.py) and, behind an        *)
(* unreliable network, the target that runs CtrlLoop.                      *)
(*                                                                         *)
(*   the GUI thread     buttons, and the worker's work_done signal;        *)
(*   the worker thread  waits to be started, runs one operation as an      *)
(*                      asyncio task and takes its events from a queue;    *)
(*                      worker and task share the thread, so the worker    *)
(*                      steps only while the task awaits or is over;       *)
(*   the network        requests reach the target in order; one may be     *)
(*                      lost, served later than the 10 s a call waits, or  *)
(*                      served although its reply is lost;                 *)
(*   the target         a NuttX program that serves requests in its SHV    *)
(*                      thread and is no more than a PausableLoop, which   *)
(*                      CtrlLoop implements; it may restart at any time.   *)
(*                                                                         *)
(* `detail` says which of the two ends, the shell around the operation and *)
(* the target, is modelled in detail.  One that is not is replaced by all  *)
(* it might do: operations are started and cancelled at any time, calls    *)
(* have any result.  What holds of a half therefore holds of the whole.    *)
(*                                                                         *)
(* Left out: a second client that resumes the loop, SIGINT on the target,  *)
(* nxboot, which boots and confirms images, and everything shown.          *)
(*                                                                         *)
(* An operator that nothing uses, such as WorkerConsumeDeaf, is the one    *)
(* after it with a bug in it: README.md says which property notices.       *)
(***************************************************************************)
EXTENDS PausableLoop, Naturals, Sequences

CONSTANTS
  Details,  \* the choices of what is modelled in detail
  Images,   \* what may be in the file at path_to_img
  Chunks,   \* how many writes an image takes
  Polls,    \* poll_retries, 10 in the code
  MaxWire   \* bound: requests on their way to the target

ASSUME FwAssumption ==
  /\ Details \subseteq SUBSET {"shell", "target"}
  /\ Chunks \in Nat \ {0}
  /\ Polls \in Nat \ {0}
  /\ MaxWire \in Nat \ {0}

VARIABLES
  detail,       \* what is modelled in detail, never changes
  gui,          \* where the GUI thread is
  busy,         \* Start and Confirm are disabled, Cancel is enabled
  doneSig,      \* work_done is in the GUI's event queue
  start_event, stop_event, running, thrd_running,  \* of the worker
  worker,       \* where the worker thread is
  method,       \* the operation asked for last
  task,         \* where the operation is
  cancelReq,    \* task.cancel() was called on it
  queued,       \* the bool in the operation's event queue
  retries,      \* poll_retries
  chunk,        \* chunks written so far
  img,          \* the image being uploaded
  quiet,        \* the last upload's poll found the loop stopped
  conn,         \* shvclient.client: None ("none"), connected, disconnected
  rpc,          \* the call under way, or its result
  wire,         \* requests on their way to the target, oldest first
  flash         \* the target's update partition, chunk by chunk

guiVars == <<gui, busy, doneSig>>
events == <<start_event, stop_event, running, thrd_running>>
upload == <<retries, chunk, img>>
taskVars == <<task, cancelReq, queued, upload, quiet>>
target == <<loopVars, flash>>
remote == <<conn, rpc, wire, target>>
fwVars == <<detail, guiVars, events, worker, method, taskVars, remote>>

Erased == "erased"
NoImage == "none"
Methods == {"upload", "confirm", "openocd"}

(* Where an operation leaves the thread to the worker; the calls it makes; *)
(* its ends.                                                               *)
Awaits == {"created", "nap", "sized", "yield", "summed", "checked", "announce"}
Rpcs == {"stat", "pause", "getstate", "write", "crc", "reset", "confirm"}
Over == {"returned", "failed", "cancelled"}

Results == {"ok", "error", "RUNNING", "NOTRUNNING", "match", "differs"}
Request ==
  [met : Rpcs \ {"write"}]
    \union [met : {"write"}, chunk : 0..(Chunks - 1), img : Images]

ShellTypeOK ==
  /\ detail \in Details
  /\ gui \in {"idle", "stop", "ok_stop", "unrun", "kick", "join", "closed",
              "crashed"}
  /\ busy \in BOOLEAN /\ doneSig \in BOOLEAN
  /\ start_event \in BOOLEAN /\ stop_event \in BOOLEAN
  /\ running \in BOOLEAN /\ thrd_running \in BOOLEAN
  /\ worker \in {"while", "wait", "test", "begin", "consume", "await", "finish",
                 "emit", "clear", "over"}
  /\ method \in Methods

TaskTypeOK ==
  /\ task \in {"none"} \union Awaits \union Rpcs \union Over
  /\ cancelReq \in BOOLEAN
  /\ queued \in {"none", "true", "false"}
  /\ retries \in 0..Polls
  /\ chunk \in 0..Chunks
  /\ img \in Images \union {NoImage}
  /\ quiet \in BOOLEAN

RemoteTypeOK ==
  /\ LoopTypeOK
  /\ conn \in {"none", "up", "down"}
  /\ rpc \in {"idle", "sent"} \union Results
  /\ wire \in Seq(Request) /\ Len(wire) <= MaxWire
  /\ flash \in [0..(Chunks - 1) -> Images \union {Erased}]

FwTypeOK == ShellTypeOK /\ TaskTypeOK /\ RemoteTypeOK

FwInit ==
  /\ LoopInit
  /\ detail \in Details
  /\ gui = "idle" /\ busy = FALSE /\ doneSig = FALSE
  /\ start_event = FALSE /\ stop_event = FALSE
  /\ running = FALSE /\ thrd_running = TRUE
  /\ worker = "while" /\ method = "upload"
  /\ task = "none" /\ cancelReq = FALSE /\ queued = "none"
  /\ retries = 0 /\ chunk = 0 /\ img = NoImage /\ quiet = FALSE
  /\ conn = "none" /\ rpc = "idle" /\ wire = <<>>
  /\ flash = [c \in 0..(Chunks - 1) |-> Erased]

-----------------------------------------------------------------------------
(* The GUI thread.                                                         *)

Shell == "shell" \in detail

AppAlive == gui \notin {"closed", "crashed"}

(* Start Update or Confirm Image: do_work. *)
GuiStart ==
  /\ Shell /\ gui = "idle" /\ ~busy
  /\ busy' = TRUE
  /\ IF running
       THEN UNCHANGED <<method, start_event>>
       ELSE method' \in Methods /\ start_event' = TRUE
  /\ UNCHANGED <<detail, gui, doneSig, stop_event, running, thrd_running,
                 worker, taskVars, remote>>

(* The work_done signal gives the buttons back. *)
GuiWorkDone ==
  /\ Shell /\ gui = "idle" /\ doneSig
  /\ busy' = FALSE /\ doneSig' = FALSE
  /\ UNCHANGED <<detail, gui, events, worker, method, taskVars, remote>>

(* Cancel Operation, and OK, which cancels first: stop_work's test. *)
GuiCancel ==
  /\ Shell /\ gui = "idle" /\ busy
  /\ running /\ worker # "over"
  /\ gui' = "stop"
  /\ UNCHANGED <<detail, busy, doneSig, events, worker, method, taskVars,
                 remote>>

GuiOk ==
  /\ Shell /\ gui = "idle"
  /\ gui' = IF running /\ worker # "over" THEN "ok_stop" ELSE "unrun"
  /\ UNCHANGED <<detail, busy, doneSig, events, worker, method, taskVars,
                 remote>>

(* The rest of stop_work, whatever the worker did since the test.  The     *)
(* first operation's task may not exist yet: the exception in a slot ends  *)
(* the program.                                                            *)
GuiStopWork ==
  /\ gui \in {"stop", "ok_stop"}
  /\ stop_event' = TRUE
  /\ cancelReq' = (cancelReq \/ task \notin Over)
  /\ gui' = IF task = "none" THEN "crashed"
            ELSE IF gui = "stop" THEN "idle" ELSE "unrun"
  /\ UNCHANGED <<detail, busy, doneSig, start_event, running, thrd_running,
                 worker, method, task, queued, upload, quiet, remote>>

(* Escape or the window's close button. *)
GuiClose ==
  /\ Shell /\ gui = "idle"
  /\ gui' = "unrun"
  /\ UNCHANGED <<detail, busy, doneSig, events, worker, method, taskVars,
                 remote>>

GuiStopThrdKickFirst ==
  /\ \/ gui = "unrun" /\ gui' = "kick"
        /\ start_event' = TRUE /\ UNCHANGED thrd_running
     \/ gui = "kick" /\ gui' = "join"
        /\ thrd_running' = FALSE /\ UNCHANGED start_event
  /\ UNCHANGED <<detail, busy, doneSig, stop_event, running, worker, method,
                 taskVars, remote>>

(* stop_thrd: two stores. *)
GuiStopThrd ==
  /\ \/ gui = "unrun" /\ gui' = "kick"
        /\ thrd_running' = FALSE /\ UNCHANGED start_event
     \/ gui = "kick" /\ gui' = "join"
        /\ start_event' = TRUE /\ UNCHANGED thrd_running
  /\ UNCHANGED <<detail, busy, doneSig, stop_event, running, worker, method,
                 taskVars, remote>>

(* QThread.wait returns when run has. *)
GuiJoin ==
  /\ gui = "join" /\ gui' = "closed"
  /\ worker = "over"
  /\ UNCHANGED <<detail, busy, doneSig, events, worker, method, taskVars,
                 remote>>

GuiStep == GuiWorkDone \/ GuiStopWork \/ GuiStopThrd \/ GuiJoin

-----------------------------------------------------------------------------
(* The worker thread: run and _wrapper_run.                                *)

Goes(from, to) == Shell /\ AppAlive /\ worker = from /\ worker' = to

(* run's loop, before and after it waits for start_event. *)
WorkerWhile ==
  /\ \/ Goes("while", IF thrd_running THEN "wait" ELSE "over")
     \/ start_event /\ Goes("wait", "test")
  /\ UNCHANGED <<detail, guiVars, events, method, taskVars, remote>>

WorkerTest ==
  /\ Goes("test", IF thrd_running THEN "begin" ELSE "over")
  /\ running' = thrd_running
  /\ UNCHANGED <<detail, guiVars, start_event, stop_event, thrd_running,
                 method, taskVars, remote>>

WorkerCreate ==
  /\ Goes("begin", "consume")
  /\ task' = "created" /\ cancelReq' = FALSE /\ queued' = "none"
  /\ UNCHANGED <<detail, guiVars, events, method, upload, quiet, remote>>

WorkerConsumeDeaf ==
  /\ Goes("consume", "await")
  /\ task \in Awaits \union Over
  /\ queued # "none"
  /\ UNCHANGED <<detail, guiVars, events, method, taskVars, remote>>

(* The event queue is read, with a timeout, until there is a result or     *)
(* stop_event is set.                                                      *)
WorkerConsume ==
  /\ Goes("consume", "await")
  /\ task \in Awaits \union Over
  /\ stop_event \/ queued # "none"
  /\ UNCHANGED <<detail, guiVars, events, method, taskVars, remote>>

(* `await self.task` raises what the task raised, and out of run it ends   *)
(* the program.                                                            *)
WorkerAwait ==
  /\ AppAlive /\ worker = "await" /\ task \in Over
  /\ IF task = "failed"
       THEN gui' = "crashed" /\ UNCHANGED worker
       ELSE worker' = "finish" /\ UNCHANGED gui
  /\ UNCHANGED <<detail, busy, doneSig, events, method, taskVars, remote>>

WorkerFinish ==
  /\ Goes("finish", "emit")
  /\ running' = FALSE /\ stop_event' = FALSE
  /\ UNCHANGED <<detail, guiVars, start_event, thrd_running, method, taskVars,
                 remote>>

WorkerEmit ==
  /\ Goes("emit", "clear")
  /\ doneSig' = TRUE
  /\ UNCHANGED <<detail, gui, busy, events, method, taskVars, remote>>

WorkerClear ==
  /\ Goes("clear", "while")
  /\ start_event' = FALSE
  /\ UNCHANGED <<detail, guiVars, stop_event, running, thrd_running, method,
                 taskVars, remote>>

WorkerStep ==
  \/ WorkerWhile \/ WorkerTest \/ WorkerCreate \/ WorkerConsume \/ WorkerAwait
  \/ WorkerFinish \/ WorkerEmit \/ WorkerClear

-----------------------------------------------------------------------------
(* The SHV client.                                                         *)

shell == <<detail, guiVars, events, worker, method>>

(* The operation runs while the worker waits for an event or for its end.  *)
Runs(label) ==
  task = label /\ (Shell => AppAlive /\ worker \in {"consume", "await"})

(* _connect leaves shvclient.client as it was when it fails.               *)
AfterConnect == IF conn = "up" THEN {"up"} ELSE {"up", conn}

(* update_parameters_and_connect, with unchanged parameters, takes any     *)
(* client it has for a connected one.                                      *)
AfterUpdate == IF conn = "none" THEN {"up", "none"} ELSE {conn}

(* The operation is over, and its local variables are gone.                *)
Ends(how) ==
  /\ task' = how
  /\ retries' = 0 /\ chunk' = 0 /\ img' = NoImage

(* A call connects again if it must.  A request is sent or lost; without a *)
(* client, or with one that is not connected, the call may raise instead.  *)
TaskCall ==
  /\ task \in Rpcs /\ Runs(task) /\ rpc = "idle"
  /\ conn' \in AfterConnect
  /\ \/ /\ "target" \notin detail
        /\ rpc' \in Results
        /\ UNCHANGED <<task, upload, wire>>
     \/ /\ "target" \in detail /\ conn' = "up" /\ Len(wire) < MaxWire
        /\ rpc' = "sent"
        /\ wire' = Append(wire,
             IF task = "write"
               THEN [met |-> "write", chunk |-> chunk, img |-> img]
               ELSE [met |-> task])
        /\ UNCHANGED <<task, upload>>
     \/ conn' # "none" /\ rpc' = "error" /\ UNCHANGED <<task, upload, wire>>
     \/ conn' # "up" /\ Ends("failed") /\ UNCHANGED <<rpc, wire>>
  /\ UNCHANGED <<shell, cancelReq, queued, quiet, target>>

(* wait_for gives up; the request may still be on its way. *)
TaskCallTimeout ==
  /\ Runs(task) /\ rpc = "sent"
  /\ rpc' = "error"
  /\ UNCHANGED <<shell, taskVars, conn, wire, target>>

(* A call has returned. *)
Returned(met) ==
  /\ Runs(met)
  /\ rpc \in Results /\ rpc' = "idle"
  /\ UNCHANGED <<shell, cancelReq, wire, target>>

(* Back from an await, unless the operation was cancelled meanwhile.       *)
Resumed(label) ==
  /\ Runs(label) /\ ~cancelReq
  /\ UNCHANGED <<shell, cancelReq, rpc, wire, target>>

TaskCancelled ==
  /\ task \in Awaits /\ Runs(task) /\ cancelReq
  /\ Ends("cancelled")
  /\ UNCHANGED <<shell, cancelReq, queued, quiet, remote>>

Report(result) == Ends("returned") /\ queued' = result

-----------------------------------------------------------------------------
(* The operation: upload.                                                  *)

(* Without the file, or without the broker, the upload is over.            *)
TaskUpload ==
  /\ Resumed("created") /\ method = "upload"
  /\ quiet' = FALSE
  /\ \/ Report("false") /\ UNCHANGED conn
     \/ /\ conn' \in AfterUpdate
        /\ IF conn' = "up"
             THEN /\ task' = "stat" /\ img' \in Images
                  /\ UNCHANGED <<queued, retries, chunk>>
             ELSE Report("false")

(* It gives up its client, too, when it fails later. *)
GivesUp == Report("false") /\ conn' = "none"

TaskStat ==
  /\ Returned("stat")
  /\ IF rpc = "ok" THEN task' = "pause" /\ UNCHANGED <<queued, conn, upload>>
                   ELSE GivesUp
  /\ UNCHANGED quiet

TaskPause ==
  /\ Returned("pause")
  /\ task' = "getstate" /\ retries' = Polls
  /\ UNCHANGED <<queued, conn, quiet, chunk, img>>

TaskStateUnlessRunning ==
  /\ Returned("getstate")
  /\ IF rpc # "RUNNING" THEN task' = "sized" /\ quiet' = TRUE
                        ELSE task' = "nap" /\ UNCHANGED quiet
  /\ UNCHANGED <<queued, conn, retries, chunk, img>>

TaskState ==
  /\ Returned("getstate")
  /\ IF rpc = "NOTRUNNING" THEN task' = "sized" /\ quiet' = TRUE
                           ELSE task' = "nap" /\ UNCHANGED quiet
  /\ UNCHANGED <<queued, conn, retries, chunk, img>>

TaskNapForever ==
  /\ Resumed("nap")
  /\ retries' = retries - 1
  /\ task' = "getstate"
  /\ UNCHANGED <<queued, conn, quiet, chunk, img>>

(* After the last poll the upload goes on, whatever the state was.         *)
TaskNap ==
  /\ Resumed("nap")
  /\ retries' = retries - 1
  /\ task' = IF retries' = 0 THEN "sized" ELSE "getstate"
  /\ UNCHANGED <<queued, conn, quiet, chunk, img>>

AfterChunks(n) == IF n < Chunks THEN "write" ELSE "summed"

Yields(n) == n % 5 = 0 \/ n = Chunks - 1

(* The result of a write is not looked at. *)
TaskWrite ==
  /\ Returned("write")
  /\ chunk' = chunk + 1
  /\ task' = IF Yields(chunk) THEN "yield" ELSE AfterChunks(chunk + 1)
  /\ UNCHANGED <<queued, conn, retries, quiet, img>>

TaskAwake ==
  /\ \/ Resumed("sized") /\ task' = AfterChunks(0)
     \/ Resumed("yield") /\ task' = AfterChunks(chunk)
     \/ Resumed("summed") /\ task' = "crc"
     \/ Resumed("checked") /\ task' = "reset"
     \/ Resumed("announce") /\ task' = "confirm"
  /\ UNCHANGED <<queued, conn, upload, quiet>>

TaskCrcUnlessError ==
  /\ Returned("crc")
  /\ IF rpc # "error"
       THEN task' = "checked" /\ UNCHANGED <<queued, conn, upload>>
       ELSE GivesUp
  /\ UNCHANGED quiet

TaskCrc ==
  /\ Returned("crc")
  /\ IF rpc = "match"
       THEN task' = "checked" /\ UNCHANGED <<queued, conn, upload>>
       ELSE GivesUp
  /\ UNCHANGED quiet

(* Neither is that of the reset. *)
TaskReset ==
  /\ Returned("reset")
  /\ Report("true")
  /\ UNCHANGED <<conn, quiet>>

-----------------------------------------------------------------------------
(* The operation: confirm, or openocd.                                     *)

(* A failure to connect raises nothing. *)
TaskConfirm ==
  /\ Resumed("created") /\ method = "confirm"
  /\ conn' \in AfterUpdate
  /\ task' = "announce"
  /\ UNCHANGED <<queued, upload, quiet>>

(* A call that failed is reported neither way. *)
TaskConfirmed ==
  /\ Returned("confirm")
  /\ IF rpc = "ok" THEN Report("true") ELSE Ends("returned") /\ UNCHANGED queued
  /\ UNCHANGED <<conn, quiet>>

(* openocd runs to its end, or is killed after 20 s by an exception.       *)
TaskOpenocd ==
  /\ Resumed("created") /\ method = "openocd"
  /\ \/ \E b \in {"true", "false"} : Report(b)
     \/ Ends("failed") /\ UNCHANGED queued
  /\ UNCHANGED <<conn, quiet>>

TaskStep ==
  \/ TaskCall \/ TaskCallTimeout \/ TaskCancelled
  \/ TaskUpload \/ TaskStat \/ TaskPause \/ TaskState \/ TaskNap \/ TaskWrite
  \/ TaskCrc \/ TaskReset \/ TaskAwake
  \/ TaskConfirm \/ TaskConfirmed \/ TaskOpenocd

-----------------------------------------------------------------------------
(* The network and the target.                                             *)

host == <<shell, taskVars>>

(* Without its shell, an operation is started and cancelled at any time.   *)
AnyStart ==
  /\ ~Shell /\ task \in Over \union {"none"}
  /\ method' \in Methods
  /\ task' = "created" /\ cancelReq' = FALSE /\ queued' = "none"
  /\ UNCHANGED <<detail, guiVars, events, worker, upload, quiet, remote>>

AnyCancel ==
  /\ ~Shell /\ task \notin Over \union {"none"}
  /\ cancelReq' = TRUE
  /\ UNCHANGED <<shell, task, queued, upload, quiet, remote>>

(* The connection to the broker breaks. *)
ConnDrops ==
  /\ Shell /\ conn = "up" /\ conn' = "down"
  /\ rpc' = IF rpc = "sent" THEN "error" ELSE rpc
  /\ UNCHANGED <<host, wire, target>>

(* The oldest request is served.  Its reply reaches the call that waits    *)
(* for it, if one still does, or is lost.                                  *)
Served(met, result) ==
  /\ "target" \in detail
  /\ wire # <<>> /\ Head(wire).met = met
  /\ wire' = Tail(wire)
  /\ IF rpc = "sent" /\ Len(wire) = 1 THEN rpc' \in {result, "error"}
                                     ELSE UNCHANGED rpc
  /\ UNCHANGED <<host, conn>>

ServeStat == Served("stat", "ok") /\ UNCHANGED target

ServePause == Served("pause", "ok") /\ Pause /\ UNCHANGED flash

ServeGetState == Served("getstate", state) /\ UNCHANGED target

(* The file node writes the partition, or fails to. *)
ServeWrite ==
  \/ /\ Served("write", "ok")
     /\ flash' = [flash EXCEPT ![Head(wire).chunk] = Head(wire).img]
     /\ UNCHANGED loopVars
  \/ Served("write", "error") /\ UNCHANGED target

Whole(i) == \A c \in 0..(Chunks - 1) : flash[c] = i

ServeCrc ==
  /\ Served("crc", IF Whole(img) THEN "match" ELSE "differs")
  /\ UNCHANGED target

ServeConfirm == Served("confirm", "ok") /\ UNCHANGED target

(* The target starts from the beginning; nobody answers what was under way. *)
Restart ==
  /\ "target" \in detail
  /\ stopped' = FALSE /\ state' = "NOTRUNNING" /\ sampling' = FALSE
  /\ wire' = <<>>
  /\ rpc' = IF rpc = "sent" THEN "error" ELSE rpc
  /\ UNCHANGED <<host, conn, flash>>

ServeReset ==
  /\ wire # <<>> /\ Head(wire).met = "reset"
  /\ Restart

(* The loop goes on.  Somebody switches the target off and on, or its      *)
(* watchdog does.                                                          *)
TargetStep ==
  /\ "target" \in detail /\ LoopStep
  /\ UNCHANGED <<host, conn, rpc, wire, flash>>

Serve ==
  \/ ServeStat \/ ServePause \/ ServeGetState \/ ServeWrite \/ ServeCrc
  \/ ServeConfirm \/ ServeReset

-----------------------------------------------------------------------------
FwNext ==
  \/ GuiStart \/ GuiCancel \/ GuiOk \/ GuiClose \/ GuiStep
  \/ WorkerStep \/ TaskStep
  \/ AnyStart \/ AnyCancel
  \/ ConnDrops \/ Serve \/ Restart \/ TargetStep

(* Both of the host's threads go on when they can, and a call times out.   *)
(* The user need not do anything, the network need not deliver, the target *)
(* need not run.                                                           *)
FwSpec ==
  /\ FwInit /\ [][FwNext]_fwVars
  /\ WF_fwVars(GuiStep)
  /\ WF_fwVars(WorkerStep \/ TaskStep)

-----------------------------------------------------------------------------
(* Safety.                                                                 *)

(* An upload whose poll found the loop stopped writes no chunk while a     *)
(* sample is computed, as long as the target holds its pause: whatever was *)
(* lost or late, and although neither the pause's result is looked at nor  *)
(* a request that timed out is withdrawn.                                  *)
WrittenWhileQuiet ==
  [][flash' # flash /\ quiet /\ stopped => ~sampling]_fwVars

(* The uploader resets the target only with one whole image in the update  *)
(* partition, although it looks at no write's result and writes of an      *)
(* earlier, cancelled upload may still arrive.                             *)
ResetOnlyWhole ==
  [][ServeReset => \E i \in Images : Whole(i)]_fwVars

-----------------------------------------------------------------------------
(* Liveness.                                                               *)

(* Cancel ends an operation, at its next await or by its timeouts.         *)
CancelEnds == stop_event /\ running ~> ~running \/ gui = "crashed"

(* The operation is over and has queued no result. *)
Silent == task = "failed" \/ (task = "returned" /\ queued = "none")

(* Closing the dialog returns once the operation has reported its result.  *)
CloseReturnsIfReported ==
  gui = "join" ~> gui \in {"closed", "crashed"} \/ Silent

(* dialg.py on stop_thrd: "this effectively unlocks the loop", which the   *)
(* GUI thread then waits for.                                              *)
CloseReturns == gui = "join" ~> gui \in {"closed", "crashed"}
=============================================================================
