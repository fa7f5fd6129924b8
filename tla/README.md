# TLA+ models of pysimCoder

pysimCoder turns a block diagram, drawn in a Python editor, into a C program
that runs the diagram as a sampled control loop on Linux, NuttX or a
microcontroller. This directory holds TLA+ models of the parts of it in which
several threads, or a client on the network, meet; the TLC configurations that
check them on small instances; and theorems about them checked by TLAPS.

All paths below are relative to `src/`.

    tlc -workers 2 -config CtrlLoop_all.cfg MCCtrlLoop        # any run of section 3
    tlapm CtrlLoopProofs.tla                                  # any *Proofs module

- [1. The system](#1-the-system)
- [2. The modules](#2-the-modules)
- [3. What TLC checks](#3-what-tlc-checks)
- [4. What is proved](#4-what-is-proved)
- [5. Where code and documents disagree](#5-where-code-and-documents-disagree)
- [6. What is not modelled](#6-what-is-not-modelled)
- [7. Plan](#7-plan)

## 1. The system

### Data path

    diagram editor (Qt)  ->  .dgm file  ->  RCPgen.py: detBlkSeq, genCode, genMake
                                                |  writes
                                                v
                       <model>.c:  MODEL_init / MODEL_isr / MODEL_end
                                   MODEL_com_init / MODEL_com_end   (with SHV)
                                                |  calls, per block
                                                v
                       blocks: fcn(CG_INIT | CG_OUT | CG_STUPD | CG_END, block)
                                                ^
                                                |  called by
              a main program: linux_main_rt.c, nuttx_main.c, sim_main.c, ...
                                                ^
                                                |  pause, resume, getstate
              SHV thread: shv_manager_node.c  <-  SHV broker  <-  client.py, image_update.py

### Inventory

| Component | State it keeps | Operations | Talks to | What is hard | What makes it correct |
|---|---|---|---|---|---|
| Real-time main programs: `linux_main_rt.c`, `nuttx_main.c`, `nuttx_main_timerhook.c` | globals `end`, `T`; `<model>_pt_ctx`: `ctrlloopend`, `running_state`, `com_inited`, `mutex`, `pause_barrier` | `rt_task`, `endme`, `_pausectrl`, `_resumectrl`, `_getctrlstate` | the model's five entry points; the SHV thread; SIGINT | plain flags shared by a task, a thread and a signal handler; a condition variable; two nested loops with an exit condition each | entry points called in a legal order; no sample on closed devices; a pause stops, a resume starts; the program ends when told to, with nothing left running |
| SHV manager node: `shv_manager_node.c` | none of its own | `shv_pausectrl`, `shv_resumectrl`, `shv_getstate` | the platform context above | runs on the SHV thread, at any moment of `rt_task` | what it answers can be acted on |
| SHV tree: `shv_pysim.c`, `shv/generator.py` | the tree of nodes, the connection | `shv_tree_init`, `shv_tree_end` | blocks' parameters and signals | serves pointers into blocks that are opened and closed under it | no call into blocks that are gone |
| `TCPsocketAsync` block: `TCPsocketAsync.c`, `TCPdqf.h` | ring of doubles, `tcp_lock`, `tcp_cond`, four terminate flags, three frame buffers exchanged atomically | `init`, `inout`, `end`; threads `TCP_data_send`, `TCP_data_read` | the peer over a TCP connection | lock-free ring between two threads, counters that wrap, a broadcast without the mutex, cancellation after a timeout, memory freed at the end | samples enter whole and leave in order; frames leave whole and in order; `end` returns, and frees nothing that is in use |
| Code generator: `RCPgen.py` | lists of ordered and unordered blocks | `detBlkSeq`, `genCode`, `genMake` | writes the model's C code | a work queue that must neither give up too early nor turn for ever | every input is fresh when its block runs; loops, and only loops, are refused |
| Plain main programs: `nuttx_main_systemtickhook.c`, `sim_main.c`, bare-metal ones (`brikiSamd21RT.c`, `dspic_main.c`, `stm32h7_main.c`) | `end`, `T`; a semaphore a timer interrupt posts | main and `endme` | the model | nobody pauses them; the system tick program sets `end`, but its inner loop does not look at it | the same protocol, with no pause |
| Firmware update: `UpdimgDlg` in `dialg.py`, `image_update.py`, `image_confirm.py`, `shv/client.py`, `shv_fwstable_node.c` | GUI: which buttons are enabled; worker thread: its operation, an event queue and four events; uploader: how often it polled, what it wrote; the target's update partition | start, cancel, confirm, close; pause, poll `getstate`, write chunks, compare the checksum, reset | the SHV manager and file nodes, over a network | a GUI thread, a worker thread and an asyncio task; calls that time out but are served later; a target that restarts in between | no chunk is written while a sample is computed; no reset without a whole image; cancel and close end the operation |
| CANopen: `LinuxRT/devices/canopen.c` and the blocks of `CAN_dev` | `msgIn`, the list of messages waited for; `dev_cnt`, which counts the blocks that use the channel | `canOpenTH`, `registerMsg`, `canClose`; the receive thread `rcv` | blocks on a CAN bus | a list without a lock, extended while a thread walks it; blocks that count themselves in but not all of them out | the channel is open while it is used; one receive thread; each frame reaches its block |
| Unix socket blocks: `LinuxRT/devices/sock.c` | `intPar[0]`, the client block's descriptor, 0 for none | the client's `init`, `inout`, `end`; `reest_connection`, which tries every 100 ms; the server's `est_connection` | a plotting program, or a second model | a thread that outlives the block that started it; a variable both write; a server that serves one client, and dies | the block sends on its own socket, on one connection, is not kept by `send`, and finds the server again |
| UDP and synchronous TCP blocks | a socket, a receive thread | init, inout, end | a peer | outputs written by a thread while the RT task reads them | none is promised |
| Control blocks: `CodeGen/Common/common_dev` | states of filters, integrators | CG_* | no one | doubles | numerical |
| Device drivers: `nuttx/devices`, `CAN_dev`, ... | file descriptors | one system call per CG_* | hardware | little | open before use |
| Diagram editor: `scene.py`, `editor.py`, `block.py`, ... | blocks, connections, undo list | mouse and menu commands | `.dgm` files, code generator | undo and redo, nested subsystems | undo restores; flattening keeps connections |
| Diagram files: `dgmformat.py` | versions of the format | read, upgrade, write | editor | chains of upgrades | an upgraded diagram means the same |

`PROJECT.json` lists the same components with their status, and under
`hazards` the lines at which the behaviours in the column *what is hard*
can go wrong.

## 2. The modules

| Module | Kind | Code |
|---|---|---|
| `ModelProtocol` | abstract specification | in which order a main program may call the model's entry points (`RCPgen.py`, `generator.py`) |
| `PausableLoop` | abstract specification | what a main program promises to whoever pauses it (`platform.h`) |
| `CtrlLoop` | detailed specification, implements both | six main programs with `rt_task` and the SHV manager node |
| `FwUpdate` | composition with `PausableLoop` | the update dialog, its worker thread, the uploader, the network and the target |
| `WordStream` | abstract specification | the queue of words the sending half of TCPsocketAsync promises |
| `FrameBox` | abstract specification | the box for one frame the receiving half of TCPsocketAsync promises |
| `TcpAsync` | detailed specification, implements both | the block, its two threads and the ring |
| `CanOpen` | detailed specification | the CAN blocks of a model, the driver's list and its receive thread |
| `UnixSock` | detailed specification | the Unix socket client, its threads, and the server |
| `BlkSeq` | specification of an algorithm | the checks of `genCode` and `detBlkSeq` |
| `MCCtrlLoop`, `MCTcpAsync`, `MCFwUpdate`, `MCCanOpen`, `MCBlkSeq` | values of the constants | |
| `CtrlLoopProofs`, `TcpAsyncProofs`, `TcpFrameProofs`, `TcpStreamProofs`, `FwUpdateProofs`, `CanOpenProofs`, `UnixSockProofs`, `BlkSeqProofs` | theorems | |

`PROJECT.json`, `map`, names the lines of code of every definition.

### CtrlLoop, ModelProtocol and PausableLoop

State: `end` and `ctrlloopend`, `running_state`, `com_inited` and `T` are the
variables of the code. `mutex` is the owner of `pt_ctx.mutex`; `waiting` says
that `rt_task` is in the wait queue of `pause_barrier`; `pc`, `shv` and `sig`
are the places of the three threads of control. `blocks` and `call` record
what the model has been asked to do, `request` and `answer` what the client
has asked and was last told, and `late` counts the samples computed although
`ctrlloopend` was set. `build` is chosen by `Init` and says which main
program runs, with or without SHV, with or without `-f` on the command line.
`FinalTime` is what the program makes of it: only the Linux and the simulation
program store it, the others drop the option.

Actions: those whose names begin with `Rt` are `rt_task`, one for each access
to something another thread can see; tests and assignments to local variables
go with the access before or after them. `ShvPause`, `ShvGetState` and
`ShvResume` are requests of the client; a resume goes on with lock, store,
signal and unlock, each a step of its own. `SignalEnd` and `SignalLoopEnd`
are the two stores of `endme`. The six programs differ in a few guards
(`build.main`): only the timer hook program leaves the inner loop when `poll`
fails (with `EINTR` for instance) or calls `exit` in the middle, and only in
the Linux program does the final time set `end` (the simulation program has
one loop and need not). The programs of
`Plain` (`sim`, `systick`, `bare`) have neither pauses nor the flags for them:
they go from MODEL_init to samples and, when they end at all, to MODEL_end.

Stores and loads of the flags are single steps in program order. `end` and
`ctrlloopend` are `volatile int`; `running_state` is a plain one, but between
any two accesses to it `rt_task` calls into another translation unit or the
kernel, so the compiler has to store it where the code says.

Left out: the benchmark thread of the timer hook program (`-b`), printing,
the values the model computes. Wake-up of `rt_task` within a period is not
modelled (`MaxOverrun` bounds by how many periods it is late).

`ModelProtocol` says what blocks and tree survive: CG_INIT only after CG_END
or at the beginning; no sample on closed blocks; the communication set up once,
after a first CG_INIT, and shut down at most once; no model started after that.
It leaves open whether the tree ends before the blocks or after them: a comment
asks for the former, the programs do the latter (`loop_tree_end`, section 5).
None of the entry points checks any of this. `FollowsProtocol` is the
refinement.

`PausableLoop` says what a client on another machine can rely on: a stopped
loop begins no sample, and the loop reports RUNNING from before its first
sample until after its last. `KeepsPromise` is the refinement. `FwUpdate` is
built on `PausableLoop` and nothing else of `CtrlLoop`, so its target is any
of the programs with SHV.

### FwUpdate

Four parts, each with its own variables. The GUI thread has its buttons, the
`work_done` signal in its queue, and `stop_thrd` and `wait` when the dialog is
closed. The worker thread waits for `start_event`, runs one operation and
takes its events from a queue until there is a result or `stop_event` is set.
`task` is the operation: `upload`, `confirm` or `openocd`, with one step from
one `await` to the next; it shares the worker's thread, so the worker steps
only while it awaits. The target serves requests from `wire`, runs a
`PausableLoop` and may restart at any time, which also forgets the pause.

A call waits ten seconds. Its request may be lost, may be served although the
reply is lost, and may be served when nobody waits for it any more
(`rpc` and `wire` are separate). Requests reach the target in order.

`detail` chooses which half is modelled in detail, the shell around the
operation or the target. The other half is replaced by all it might do:
operations start and are cancelled at any time, calls have any result. What
holds with either half replaced holds of the whole; the theorems are about
any choice.

Left out: a second client that resumes the loop, SIGINT on the target, nxboot
(which boots and confirms images), what the dialog displays.

### CanOpen

The RT task initialises the model's CAN blocks one after the other, computes
samples and ends the blocks; a resumed model begins again. `registerMsg`
takes three steps, since the list is published before the message in it is
filled in. A receive thread reads a frame, walks the list from the message
registered last to the first one, comparing and storing in steps of their own,
and stores the value in every message with the frame's ID, index and subindex.
`known` records how many messages were set when the walk began: those it must
reach.

Left out: what the blocks send; functions no block calls (`canOpen`,
`rcvMsg`, `rcvMsgCob`); the NuttX driver, in which nothing is concurrent.

### UnixSock

`pc` and `sock` give each of the RT task and the threads its place and its
local variable `sock`; `socket` and `connect` are common to the block's `init`
and to `reest_connection`. Descriptors are numbers, given out lowest first as
POSIX has it, and `files` is what the system knows of each. Descriptor 0 is
the standard input, and 0 in `intPar[0]` means *not connected*. A connection
is `live`, `full` (one sample fills its buffer, so that `send` waits for the
server) or `dead`. `listen(sock, 1)` lets two connections wait to be accepted.
The build may read `intPar[0]` once or twice between its test and the call of
`send` (`RtCall`).

Left out: the values sent, the server block's samples and its end, and
`socket` failing for another reason than its limit.

### TcpAsync, WordStream and FrameBox

State: the fields of `tcp_txrx_state_t` under their names (`locin`, `locout`,
`buff`, `tx_terminate`, ..., `rxbuff`, `to_apply`, `in_apply`), the local
variables of the threads, the RT task's place in `init`, `inout` and `end`,
and the places of the two threads. `mutex` is the owner of `tcp_lock`,
`waiters` the wait queue of `tcp_cond`. `cfg` holds the block's parameters,
the counters' `range` and whether the sender is taken to be `prompt` (see
*Fairness*).
The peer, the connection and POSIX cancellation are external: `faults` notes
that a direction of the connection has failed.

Actions: `Rt...` are CG_INIT, CG_OUT and CG_END, `Snd...` and `Rcv...` the two
threads, one step for each access to shared memory or call that can block.
The block can be closed and opened again any number of times, as a paused and
resumed loop does.

Two devices keep the state space finite and the interesting cases near. The
counters `locin` and `locout` wrap around at `range` (2^32 in the code), a
multiple of the ring size just as in the code, so that wrap-around is met
after a few samples. The peer's n-th frame consists of words n, so that a
frame mixed from two, a stale frame and uninitialised memory (`Junk`) can be
told apart.

Left out: `lostcount`, which nobody reads; partial transfers within a double;
negative buffer sizes; failure of `pthread_create` or `malloc`.

`WordStream` is a bounded queue: the words of a sample enter all or none and
leave in order. It is open or closed: nothing enters or leaves while it is
closed, and `Open`, a step from closed to open, is the only one that empties it.
`StreamInOrder` is the refinement, with the words between `locout + sent` and
`locin` as the queue, `RtInit` as `Open` and the last step of `end` as `Close`
(`Up`: the RT task is in between). While the block is open no accepted word is
lost.

`FrameBox` holds at most one frame, the newest; while the block is open a frame
is passed over only for a newer one, and none is taken twice. It is opened and
closed by the same steps as the queue, and only `Open` throws a waiting frame
away. `NewestFrame` is the refinement: the box
is the exchanged buffer if it is marked new, a frame is in the box once the
reader has exchanged it, and it is shown from the moment `inout` has taken it,
although the outputs are written one by one. A failed read ends the promise.

### BlkSeq

The diagram is a sequence of blocks with input nodes, output nodes and the
feed-through flag `uy`. `blks`, `blks2order`, `counter` and `block_in` are the
variables of `detBlkSeq`; the steps are the turns of its loops. `block_in`
keeps for each block how often another block is in its list, since the list is
only searched, shortened by one entry at a time and tested for emptiness.
`Needs` and `Loop` are the independent definition of a feed-through loop: a
set of blocks each of which needs another one of the set.

### Variants

Each specification holds a few operators that nothing uses: the definition
that follows it with a plausible mistake in it. They document what each
property is good for. With the definition replaced, TLC finds the property
violated under the run's own configuration.

| Run | Property | Variant |
|---|---|---|
| `loop` | `TypeOK` | `RtNotRunningPaused`: a state the client does not know is reported |
| | `AtMostOneLateSample` | `RtLoopUntested`: the loop does not look at `ctrlloopend` |
| | `NoLostResume` | `ShvResumeUnlocked`: `_resumectrl` does not take the mutex |
| | `NothingLeftRunning` | `RtComEndNever`: the SHV thread is not stopped |
| | `QuietOnceAnswered`, `KeepsPromise` | `RtSettleUnannounced`: RUNNING is not reported when the loop starts |
| | `FollowsProtocol` | `RtComInitAgain`: every start of the model builds the tree |
| | `PauseStopsModel` | `RtLoopUntested` |
| | `ResumeStartsLoop` | `ShvResumeSilent`: a resume does not signal |
| | `SignalEndsUnpausable` | `RtIfEndDropped`: `end` is not tested before waiting |
| | `FinalTimeHeeded` | `RtFinalTimeKeepsEnd`: the final time does not set `end` |
| `tcp_safety` | `TypeOK` | `NextCntKept`: the downsampling counter is not reset |
| | `ExclusiveBuffers` | `GivenBackNot`: the exchange gives back the wrong buffer |
| | `WholeFrame` | `FrameDoneAtOnce`: a short read counts as a frame |
| | `DrainedAtEnd` | `SndOverHastily`: the sender leaves with data in the ring |
| | `StreamInOrder` | `CountUnwrapped`: the ring's end is not looked at |
| | `NeverBack` | `NewDataAssumed`: `DATA_TO_APPLY` is not tested |
| | `NewestFrame` | `NewDataLate`: `DATA_TO_APPLY` is looked for after the exchange has cleared it, so that frames are taken and never shown |
| `tcp_both` | `NoUseAfterFree` | `RtJoinNot`: `end` does not wait for the sender |
| | `EndReturns` | `RtCancelNever`: a stalled sender is not cancelled |
| | `SentEventually` | `RtBroadcastNever`: the sender is not woken |
| `fw_update` | `FwTypeOK` | `TaskNapForever`: the polls are not counted |
| | `WrittenWhileQuiet` | `TaskStateUnlessRunning`: any reply but RUNNING counts as stopped, a failure too |
| | `ResetOnlyWhole` | `TaskCrcUnlessError`: any checksum the target sends will do |
| | `CancelEnds` | `WorkerConsumeDeaf`: the worker does not look at `stop_event` |
| | `CloseReturnsIfReported` | `GuiStopThrdKickFirst`: the worker is woken before its flag is set |
| `canopen` | `CanTypeOK` | `CanOpenTHCountsOnce`: only the first block is counted |
| | `OpenWhileUsed` | `CanCloseEarly`: the channel is closed one block too early |
| | `OneReceiver` | `CanOpenTHEach`: every block starts a thread |
| | `FrameReachesBlock` | `RcvStoreOnce`: the walk ends at the first message that matches |
| `unix_socket` | `SockTypeOK` | `SrvAcceptFailsOpen`: a failed `accept` leaves the listening socket |
| | `OwnSocket` | `ConnectFailsKept`: a socket that did not connect is kept |
| | `OneConnection`, `SendReturns` | `TestSkipped`: the thread does not test whether the block is connected |
| | `Reconnects` | `RtSendFailsKept`: a failed `send` does not mark the connection as lost |
| `block_sequence` | `TypeOK` | `CollectSourceTwice`: an unconnected block is listed twice |
| | `FreshInputs` | `CollectBackwards`: the wrong blocks are waited for |
| | `EveryBlockOnce` | `DeferLost`: a block that must wait is dropped |
| | `LoopRefused` | `PlaceKeepsCounter`: the count of deferrals is not reset |
| | `Terminates` | `DeferUncounted`: deferrals are not counted |

## 3. What TLC checks

| Run | Configuration | States | Shows |
|---|---|---|---|
| `loop` | `CtrlLoop_all.cfg` | 37 863 | at most one sample after a pause or SIGINT; no resume is lost; nothing runs on when `rt_task` returns; NOTRUNNING after a pause means quiet; the entry points are called in a legal order; the promise of `platform.h` is kept; a lasting pause closes the blocks, a lasting resume computes samples for ever; SIGINT ends the program if no client can pause it, `-f` if the program stores it |
| `loop_signal` | `CtrlLoop_signal.cfg` | | SIGINT does not always end the program (section 5) |
| `loop_tree_end` | `CtrlLoop_treeend.cfg` | | the blocks are ended before the tree (section 5) |
| `loop_final_time` | `CtrlLoop_finaltime.cfg` | | the NuttX program does not heed `-f` (section 5) |
| `tcp_safety` | `TcpAsync_safety.cfg` | 304 000 | the ring is a queue of whole samples; frames are whole, in order, the newest there is, and never overwritten while in use; `end` drains the ring |
| `tcp_both` | `TcpAsync_both.cfg` | 195 558 | with both threads nothing is freed that is in use; `end` returns; with a ring of several samples, what was accepted is sent |
| `tcp_stall` | `TcpAsync_stall.cfg` | | with a ring of one sample it need not be (section 5) |
| `fw_update` | `FwUpdate_all.cfg` | 236 983 | no chunk is written while a sample is computed, as long as the pause lasts; the target is reset only with a whole image; cancel ends an operation; closing the dialog returns if the operation has reported |
| `fw_close` | `FwUpdate_close.cfg` | | closing need not return otherwise (section 5) |
| `canopen` | `CanOpen_all.cfg` | 321 867 | the channel is open from a block's init to its end; with a block that keeps it there is one receive thread; a frame reaches every block registered for it, although the list changes under the thread |
| `unix_socket` | `UnixSock_all.cfg` | 122 749 | until the model is resumed: the block uses a socket it has connected, holds one connection, `send` never keeps the RT task, and the block finds the server again |
| `block_sequence` | `BlkSeq_all.cfg` | 354 000 | the order respects feed-through and contains every block once; loops and only loops are refused; the search ends |

The runs of `UnixSock` need no module of their own: its constants are numbers.
`CHECK_DEADLOCK FALSE` is said where the system may stop: the dialog is closed
(`fw_update`, `fw_close`); the CAN program exits because the channel cannot be
opened, or is down with its starts used up; the Unix socket client's model has
ended with the server gone and the bounds used up, or, after a resume, its RT
task is kept by `send`.

### Bounds

- `MaxTime = 3`, `MaxOverrun = 1`: time only matters through `-f`, which is 2
  periods; 3 is the first value past it and an overrun jumps over the final
  time. Beyond that time saturates, so the loop still runs for ever.
- `late` is counted up to 2, one more than the property allows.
- The SHV client and the signal are not bounded: any number of pauses,
  resumes, questions and signals.
- `Configs`: samples of two words in rings of four words (asked for as three,
  so that rounding up happens), of two (one sample exactly, the default) and
  of one (never fits); downsampling by two; a receiver alone with frames of
  two words; both threads together. Samples of two words are the smallest
  that can be torn; a ring of four holds two of them, which can lie across
  the end of the memory after a short write.
- `range` is 8 (2 where both threads run and the ring holds one word): twice
  the largest ring, so that
  `locin` and `locout` wrap around at different times and a full ring
  (`locin # locout`, equal under the mask) differs from an empty one.
- `MaxRx = 3` frames: one in each of the three buffers.
- Two values of words (`Words`), so that a word out of place can be told from
  the right one.
- `FwUpdate`: two images (`Images`), so that an image of chunks from two
  uploads can be told from a whole one; `Chunks = 2`, the least that can be
  mixed; `Polls = 2` of 10, so that a poll is repeated and the uploader also
  gives up; `MaxWire = 2` requests on their way, the late one of a call that
  timed out and its successor. Operations, restarts and lost requests are not
  bounded.
- `CanOpen`: models of two or three CAN blocks, one of them with two that wait
  for the same object (`FewBlocks`), with and without a block that keeps the channel;
  two objects, so that the walk passes messages that do not match;
  `MaxFrames = 3`; `MaxStarts = 2`, which is one pause: the messages of the
  first life are then still in the list.
- `UnixSock`: `MaxFd = 4` (five descriptors, of which 0 is taken), enough to
  reconnect after two servers and few enough to run out; `MaxStarts = 2` and
  with it two threads; `MaxServers = 2`, a server and the one after it.
- `BlkSeq`: all 64 001 diagrams of no block or three blocks with up to two
  inputs, the first block with up to two outputs. Three blocks are enough for
  feed-through chains against the order of the diagram, loops of one, two and
  three blocks, double wires, outputs on one node, undriven inputs.

### Fairness

`CtrlLoop`. Weak fairness of `rt_task`'s own steps, of the handlers once they
have begun and of the second store of `endme`: all are scheduled
`SCHED_FIFO` or by the kernel and do not block. Strong fairness for the three
places where the mutex is taken: the mutex is held for a few instructions and
a thread that waits for it gets it. None for requests, signals, spurious
wake-ups and the failure of `sem_wait` in the system tick program
(`RtSemError`). The liveness properties that need a lasting pause or resume
say so. What each liveness theorem needs of this is in its statement
(section 4).

`TcpAsync`. Weak fairness of each thread's steps that do not depend on the
peer: `write` and `read` need not return, so none is assumed of `SndWrite`,
`RcvRead` and their failures. Strong fairness for taking `tcp_lock` and for
returning from the timed wait of `end`, which has a time limit of two
seconds; spurious wake-ups can interrupt it, not put it off for ever. Samples
keep coming, since `MODEL_isr` does.

A block whose `cfg.prompt` is set comes with one assumption about relative
speed: while the sender is between its test of the ring and its wait, at most
one sample begins (`SampleMayBegin`). A few instructions take less than a
sampling period. Without it even a large ring could fill up in that window.
The blocks of `SentEventually` are prompt, those of the safety properties are
not.

`FwUpdate`. Weak fairness of the GUI's event loop and of the worker's thread
(worker and task), and of nothing else: the user need not press a button, a
request need not be served, the target need not run. A call ends by itself
since it has a time limit.

`CanOpen`. None; its properties are safety properties.

`UnixSock`. Weak fairness of init, of samples, of each thread and of the
server's serving. None for pauses and resumes, for starting, killing or
failing of the server.

`BlkSeq`. Weak fairness of the only process there is.


## 4. What is proved

For every value of the constants that satisfies the assumptions below, not
only for the instances above.

| Theorem | Property |
|---|---|
| `CtrlLoopProofs!TypeCorrect` | `TypeOK` |
| `CtrlLoopProofs!LateSamples` | `AtMostOneLateSample` |
| `CtrlLoopProofs!ResumeNotLost` | `NoLostResume` |
| `CtrlLoopProofs!ReturnsClean` | `NothingLeftRunning` |
| `CtrlLoopProofs!PausedIsQuiet` | `QuietOnceAnswered` |
| `CtrlLoopProofs!Refinement` | `FollowsProtocol`: `Spec` implements `ModelProtocol!Spec` |
| `CtrlLoopProofs!PromiseKept` | `KeepsPromise`: `Spec` implements `PausableLoop!LoopSpec` |
| `CtrlLoopProofs!PauseStops` | `PauseStopsModel`, under `RtRuns` |
| `CtrlLoopProofs!ResumeStarts` | `ResumeStartsLoop`, under `RtRuns`, `LocksInTime`, `RelocksInTime` and `ShvRuns` |
| `CtrlLoopProofs!SignalEnds` | `SignalEndsUnpausable`, under `RtRuns` and `SignalReturns` |
| `TcpAsyncProofs!BuffersExclusive` | `ExclusiveBuffers` |
| `TcpAsyncProofs!FreedUnused` | `NoUseAfterFree` |
| `TcpAsyncProofs!EndDrains` | `DrainedAtEnd` |
| `TcpFrameProofs!TcpTypeCorrect` | `TypeOK` |
| `TcpFrameProofs!FramesWhole` | `WholeFrame` |
| `TcpFrameProofs!FramesForward` | `NeverBack` |
| `TcpFrameProofs!BoxKept` | `NewestFrame`: `Spec` implements `FrameBox!Spec` |
| `TcpStreamProofs!RingIsQueue` | `StreamInOrder`: `Spec` implements `WordStream!Spec` |
| `TcpStreamProofs!EndAlwaysReturns` | `EndReturns`, under `EndRuns`, `EndLocks`, `EndTimesOut`, `SndLocks`, `SndRuns` and `RcvRuns` |
| `FwUpdateProofs!FwTypeCorrect` | `FwTypeOK` |
| `FwUpdateProofs!QuietWrites` | `WrittenWhileQuiet` |
| `FwUpdateProofs!WholeResets` | `ResetOnlyWhole` |
| `CanOpenProofs!ChannelOpen` | `OpenWhileUsed` |
| `CanOpenProofs!ReceiverOnce` | `OneReceiver` |
| `CanOpenProofs!CanTypeCorrect` | `CanTypeOK` |
| `CanOpenProofs!FrameSaved` | `FrameReachesBlock` |
| `UnixSockProofs!SockTypeCorrect` | `SockTypeOK` |
| `UnixSockProofs!SocketOwned` | `OwnSocket` |
| `UnixSockProofs!ConnectionSingle` | `OneConnection` |
| `UnixSockProofs!SendsReturn` | `SendReturns`, under `InoutRuns` and `ServeRuns` |
| `UnixSockProofs!BlockReconnects` | `Reconnects`, under `InoutRuns` and `ThreadRuns` |
| `BlkSeqProofs!BlkTypeCorrect` | `TypeOK` |
| `BlkSeqProofs!OrderFresh` | `FreshInputs` |
| `BlkSeqProofs!OrderComplete` | `EveryBlockOnce` |
| `BlkSeqProofs!LoopsRefused` | `LoopRefused` |
| `BlkSeqProofs!SearchBounded` | each step lowers `StepsLeft`, which stays within `0..Longest` |

`Invariance`, `TcpInvariance`, `RingInvariance`, `FwInvariance`,
`CanInvariance`, `WalkInvariance`, `SockInvariance` and `BlkInvariance` are the inductive
invariants these follow from.

Assumptions. `BuildsAssumption`: builds are records of the six programs; the
bare-metal program has no command line to give a final time with, the plain
programs have no SHV. `BoundsAssumption`: the bounds are natural numbers and the final
time is within `MaxTime`. `TcpAssumption`: the ring of each block is not
empty, is smaller than its counters' range and divides it, which the code
ensures by rounding up to a power of two. `FwAssumption`, `CanAssumption` and
`SockAssumption` only say that the bounds are numbers and what a CAN block is;
`DiagramsAssumption` that a diagram is a sequence of blocks.

**CtrlLoop.** None of the properties is inductive. `IInv` is `TypeOK` and

- `Locks`: who is between lock and unlock holds the mutex, and no one else;
- `Waits`: `rt_task` has seen `ctrlloopend` under the mutex when it goes to
  sleep, so that only a resume that is about to signal can have cleared it;
- `Samples`: how late a sample can be at each place of `rt_task`;
- `Requests`: after a pause that no resume followed, `ctrlloopend` is set;
- `Reports`: with the pause set and NOTRUNNING reported, `rt_task` is where
  it can no longer compute a sample;
- `Lifecycle`: what `blocks`, `shv`, `com_inited` are at each place.

Each conjunct has a lemma with one step per action; the theorems follow from
`Invariance`. The refinement maps a step to the entry point it calls, or to a
stutter.

The three liveness theorems rest on `LiveInv`, which adds two facts: a plain
program is never told to leave its loop (`PlainRuns`), and whatever makes an
unpausable program leave has set `end` first (`EndsFirst`). `EndWithin`,
`SampleWithin` and `ExitWithin` number the places of `rt_task` by how far they
are from MODEL_end, from a sample and from the return: no step goes back, and a
fair step goes on.

**TcpAsync.** `TripleInv` says the three buffers are a permutation of 0..2 and
is inductive by itself. `LifeInv` relates the RT task's place in `end` to
which threads have ended: a thread is joined before `end` goes on.
For `EndDrains`, `SeesEnd` says what the sender has seen of `tx_terminate`
when it leaves: while `rt_task` is in `end` it adds nothing to the ring, so a
ring found empty after `tx_terminate` was read stays empty. It needs
`Counters` (`locin` and `locout` stay within the range of an `unsigned int`),
since "empty" is equality of counters and what is pending is their difference.

`TcpFrameProofs` adds `TypeInv`, `TypeOK` thread by thread, and `FrameInv`, which
says what each of the three buffers holds while no read has failed: the
reader's, the part of the frame received so far; the exchanged one, a whole
frame, not older than the outputs when it is marked new; the applier's, the
frame the outputs show or, while they are being written, the one of which the
first outputs are already there. `WholeFrame` and `NeverBack` follow from it and
from `TripleInv`. So does `BoxKept`, with two more facts: a thread that has ended
reads no more (`LifeInv`), and no thread is left when the block is opened, nor
after the process has exited (`Unopened`), so that whatever moves a frame finds
the block open.

`TcpStreamProofs` adds `Fits`: `Count` is at most `Size`, a sample that was begun
has room to its end, and the words the sender is writing are in the ring and do
not run over the end of `buff`. `Window` is what lies in the ring from one
counter to another; three lemmas say how it changes when a word is put, written
or left behind, and each step of `Spec` is then one of `WordStream` or a stutter; that the sender
runs only while the block is open is `Unopened` again.
The counters wrap at `LocMod` and the slots at `Size`; the lemmas on remainders
show that this agrees because the second divides the first.

`EndAlwaysReturns` rests on `EndInv`, which adds who holds `tcp_lock` at each
place (`Holders`) and what `end` has told the threads (`Told`): it joins a
sender that has terminated or been cancelled, and a receiver it has told to
leave. Three waits could keep `end` from returning.

- The timed wait: whoever holds the mutex gives it back after a few steps, so
  that it is free again and again, and the wait times out (`EndTimesOut` is
  strong fairness for that reason).
- The join of the sender: while `end` waits no sample comes in, and what is
  left in the ring takes at most two more writes, to the end of `buff` and from
  its beginning. `GoneWithin(k)` bounds the steps of a sender that was told so,
  and no step raises the bound. A write the peer holds up is cancelled.
- The join of the receiver: at most three steps, `ReadWithin`, since a read is
  cut off by `pthread_cancel`.

**FwUpdate.** `FwInv` is `FwTypeOK` and

- `Places`: a task is at work only while the worker waits for it, and a call
  is under way only where the task makes one;
- `Uploads`: how far the upload is, at each place of the task;
- `Quiets`: a loop that reports NOTRUNNING computes no sample, and the reply
  that says so finds nothing else on its way, so that no late pause can stop
  the loop in the middle of a sample;
- `Wholes`: the reply that the checksum is right finds no write on its way, so
  that the image is still whole when the reset comes.

`QuietWrites` uses of the target only what `PausableLoop` promises, and
`PromiseKept` says that the main programs keep it: together the two theorems
are about the uploader and the program it pauses.

**CanOpen.** `CanInv`: `Ranges`; `Counts`, that `dev_cnt` is at least the
number of blocks open now (`Owed`), plus one if a block of an earlier life has
left its count behind (`Left`); `Channel`, that the handle is open while the
count is not zero; `Receivers`, that a model with such a block starts its
thread when the count is zero for the first and only time. The models are any
sequences of blocks. `WalkInv` follows the list: `Filled`, that every message is
set but the one `registerMsg` is at; `Walked`, that of the messages the thread
knew when it read its frame, those it has passed hold the frame's value if they
are for its object. `FrameSaved` takes the greatest of the messages a block
might find, which exists because the list is finite (`Greatest`, from the
well-foundedness of the subsets of a finite set).

**UnixSock.** `SockInv` is `Types` and, in the first life, `Alone` (one
thread, started when `init` has stored its socket, and whoever connects does
so while `intPar[0]` is 0), `Sockets` (what the descriptors in `intPar[0]` and
the local variables stand for) and `Single` (a connection is in `intPar[0]` or
about to be stored there). `ServerInv`
(`Queues`, `Known`) says that the server knows each open connection and holds
for any number of lives. For `SendsReturn`, `QueueInv` says that what the
server serves or lets wait in the first life is a connection of the block; it
has one only, so the server gets to the one `send` waits for.
`BlockReconnects` uses that the queue has room when the block's one thread
connects, so that `connect` does not wait; `LinkWithin` numbers the places of
that thread and of `inout`.

**BlkSeq.** `BlkInv` describes the two lists and the work queue of
`detBlkSeq`:

- `Types`; `Shared`: each block seen is in one of the two lists, whose lengths
  add up, so that none is there twice; `Sorted`: only feed-through blocks are
  queued;
- `Complete` and `Honest`: a queued block's list in `block_in` names all
  feed-through blocks it still has to wait for, and nothing else, each at most
  as often as there are wires;
- `Tried`: the last `counter` blocks of the queue are not ready, so that a
  full turn means that none is;
- `Fresh`: the order so far respects the wires; `Acyclic`: no block of a loop
  is ordered. That a diagram with a loop is never ordered is thus an invariant
  of the algorithm, and needs no induction over the diagram;
- `Refused`: when the search has given up, the queue itself is a loop.

`StepsLeft` counts down from at most n (n + 2) + 3 for a diagram of n blocks: a
block placed leaves the rest of the queue a turn each, a block deferred is one
of that turn. With fairness this is `Terminates`.

**Fairness in the proofs.** `WF` and `SF` speak of ENABLED, which none of the
provers understands. The liveness theorems assume fairness written out instead:
`RtRuns` is `[]<>~RtCan \/ []<><<RtStep>>_vars`, where `RtCan` is the condition
under which `rt_task` has a step, read off the guards of its actions. That
`RtCan`, `LockCan`, `RelockCan`, `ShvCan`, `SignalCan`, `InoutCan`, `ThreadCan`
and `ServeCan` are true exactly where their actions are enabled was checked by
TLC in all states of `loop` and `unix_socket`; the same was done for `EndCan`,
`EndLockCan`, `TimeoutCan`, `SndLockCan`, `SndCan` and `RcvCan` in those of
`tcp_both` and `tcp_safety`. This step, from `WF` and `SF` to
what the theorems assume, is model-checked and not proved.

Only model-checked: every safety property of a passing run is a theorem, and so
are the liveness properties above. `FinalTimeHeeded`, `Terminates`,
`SentEventually`, `CancelEnds` and `CloseReturnsIfReported` stay with TLC: they
count down a number no constant bounds (time up to the final time, steps of the
search, words to be sent, chunks still to be written), which needs induction
over that number inside a temporal formula.

## 5. Where code and documents disagree

Each of these has a run in which TLC shows a behaviour of the code that a
comment or a help text rules out.

- `loop_signal`. `nuttx_main_timerhook.c:26` says the races of `end` only make
  the thread end "a bit later". SIGINT sent to a paused program leaves
  `rt_task` asleep on `pause_barrier`; a resume that overlaps it clears
  `ctrlloopend` again and the loop goes on. The other two programs have the
  same code. `SignalEndsUnpausable` is what does hold: without a client that
  can pause, SIGINT ends the Linux and the NuttX program.
- `loop_tree_end`. `shv_pysim.c:450` says `shv_tree_end` should be called
  before the blocks' end functions. `rt_task` calls it after them, at the end
  of the program; after a pause it is not called at all.
- `loop_final_time`. The usage text of `nuttx_main.c` offers `-f` for the final
  time (line 222) and `getopt` accepts it (257), but the body of its case is
  commented out (276-285): `FinalTime` stays 0.0, line 171 never breaks, and the
  program samples on. `nuttx_main_systemtickhook.c` has the same case.
  `FinalTimeHeeded` is what holds of the Linux and the simulation program.
- `tcp_stall`. `inout` broadcasts `tcp_cond` without `tcp_lock`. If the
  broadcast falls between the sender's test and its wait it is lost; usually
  the next sample repeats it, but a ring with room for one sample only is full
  by then, and `inout` returns before it gets that far.

- `fw_close`. `dialg.py:327` says of `stop_thrd` that "this effectively unlocks
  the loop", after which the GUI thread waits for the worker. A worker that
  runs an operation does not look at `thrd_running` or `start_event`; it waits
  for a result, which an operation that fails with an exception, or a confirm
  whose call timed out, never sends. The dialog then hangs, and the GUI with
  it. `CloseReturnsIfReported` is what does hold.

Seen on the way, contradicting nothing that is written down: a receive error
hands over the buffer as far as it was filled; while the ring is full the
outputs are not updated either; a block whose ring is smaller than one sample
never sends; `end` drops what is queued if the sender misses the broadcast
and two seconds pass; `intPar[4]` and the outputs survive a pause; and
NOTRUNNING is also reported while the blocks are being initialised.

Of the firmware update: after an upload that failed or was cancelled the loop
stays paused; a Start pressed between `work_done` and `start_event.clear` is
lost; a client that has lost its connection is not connected again by
`update_parameters_and_connect`; `shv_confirm` ignores a failed result.

Of the CAN blocks: if all blocks of a model give the channel back, a resume
starts another receive thread beside the first; the NuttX driver refuses every
block but the first.

Of the Unix socket blocks: each failed attempt to connect leaks its descriptor
(`sock.c:43-51`), ten times a second; the client's `end` removes the server's
name (line 117), so that a resumed model finds no server until somebody starts
it anew; each resume starts one more thread that reconnects, two of them can
connect at once, and as the server serves one of the connections, the block
may send on the other until `send` keeps the RT task for ever; the connections
such threads leave behind stay in the server's queue, and with three lives of
the model two of them fill it, so that every later `connect` waits for ever
although the server runs (`Reconnects` is therefore about the first life); the
server never accepts a second client; when its `accept` fails it turns in `recv(-1)`;
`sock.c:192` reads `intPar[1]`, while `unixsocketSBlk.py:19` gives the block
one integer parameter.

## 6. What is not modelled

See `components` in `PROJECT.json`.

- Control blocks: arithmetic on doubles, one thread.
- Device drivers: one system call per block function, no state beyond a
  descriptor.
- Vendored code and board support (`CodeGen/STM32H7`, `SAMD21`, FMU headers),
  by far the larger part of the repository's C code: not this project's own.
- The text `genCode`, `genMake` and `shv/generator.py` write, and the nodes of
  the SHV tree: data for a compiler and for the SHV library, which is external;
  the thread it starts is modelled by how `shv_pysim.c` uses it.
- Qt dialogs other than the update dialog, and the drawing of diagrams.
- plotJuggler and file blocks: pure output.
- UDP and synchronous TCP blocks: the thread writes the outputs while the task
  reads them, and no code or document promises anything about datagrams that
  this could break.
- The NuttX CAN driver, in which no second actor takes a step.
- The server half of `sock.c` beyond its thread.
- The editor's undo list and the upgrade of old diagram files: planned.

## 7. Plan

Done: the control loop of all main programs with its two promises, the
firmware update on top of it, the asynchronous TCP block with its queue, the
CAN blocks, the Unix socket client, the order of blocks.

Next, in this order:

1. The server block of `sock.c`: its outputs are written by the thread.
2. `DgmFormat` (upgrades of old files) and `Undo` (the editor's list).
3. The UDP blocks and the NuttX CAN driver, if they come to promise something.
