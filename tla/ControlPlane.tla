---------------------------- MODULE ControlPlane ----------------------------
(***************************************************************************)
(* The coordinator process (app/coordinator.cpp) and its workers           *)
(* (app/worker.cpp).  The coordinator runs one thread per connection; the  *)
(* threads share the scheduler, which locks itself, and a map from worker  *)
(* ids to connections under a mutex of its own.  A thread that needs both  *)
(* takes the two locks one after the other, and every gap between two      *)
(* critical sections is a step boundary here.                              *)
(*                                                                         *)
(* A worker process connects once, registers, executes what it receives in *)
(* order and reports on the same connection; when it dies a new process    *)
(* with the same worker id and a new boot id may take its place.  Frames,  *)
(* codecs, acknowledgements and status queries change no state and are     *)
(* left out.                                                               *)
(***************************************************************************)
EXTENDS Scheduler

CONSTANT ConnBound    \* bound of the model: worker connections ever made

Conn   == 1 .. ConnBound
NoConn == 0

ASSUME ControlAssumption == ConnBound \in Nat /\ "register" \in Calls

VARIABLES
  slot,     \* workers: the connection a worker id is mapped to
  conn,     \* the worker process and the coordinator thread of a connection
  driver    \* the thread that serves the driver's connection

controlVars == <<slot, conn, driver>>
planeVars   == <<vars, controlVars>>

(* The boot id of a connection's process; 0 is the null id the driver       *)
(* thread holds when it finds no slot.                                      *)
BootOf(c) == IF c = NoConn THEN 0 ELSE conn[c].boot

IdleDriver == [pc |-> "idle", before |-> <<>>, report |-> <<>>, worker |-> 0, conn |-> NoConn]

ControlInit ==
  /\ Init
  /\ slot = [w \in Worker |-> NoConn]
  /\ conn = [c \in Conn |-> [worker |-> 0, boot |-> 0, up |-> FALSE, thread |-> "none",
                             inbox |-> <<>>, sent |-> <<>>]]
  /\ driver = IdleDriver

-----------------------------------------------------------------------------
(* The driver's thread: submit, tick, then for every batch the tick sealed  *)
(* choose a worker, look it up, prepare the dispatch and send it.           *)

DriverSubmit ==
  /\ driver.pc = "idle" /\ Submit
  /\ driver' = [driver EXCEPT !.pc = "tick"]
  /\ UNCHANGED <<slot, conn>>

DriverTick ==
  /\ driver.pc = "tick" /\ Tick
  /\ driver' = [driver EXCEPT !.pc = "ticking", !.before = sealedOrder]
  /\ UNCHANGED <<slot, conn>>

(* The steps of whichever method holds the scheduler's mutex.  The tick     *)
(* reports the batches of sealed_order_ that were not there before it.      *)
FabricStep ==
  /\ OpStep
  /\ driver' = IF op.pc = "split" /\ op'.pc = "idle"
                 THEN [driver EXCEPT !.pc = "pick", !.report = sealedOrder] ELSE driver
  /\ UNCHANGED <<slot, conn>>

NextBatch == [driver EXCEPT !.pc = "pick", !.report = Tail(@)]

Mapped == {w \in Worker : slot[w] # NoConn}

(* Faulty: the first batch that is not new ends the loop. *)
DriverSkipEnds ==
  /\ driver.pc = "pick" /\ driver.report # <<>>
  /\ Head(driver.report) \in Range(driver.before)
  /\ driver' = IdleDriver
  /\ UNCHANGED <<vars, slot, conn>>

DriverSkip ==
  /\ driver.pc = "pick" /\ driver.report # <<>>
  /\ Head(driver.report) \in Range(driver.before)
  /\ driver' = NextBatch
  /\ UNCHANGED <<vars, slot, conn>>

(* The first worker of the map is chosen. *)
DriverPick ==
  /\ driver.pc = "pick" /\ driver.report # <<>>
  /\ Head(driver.report) \notin Range(driver.before)
  /\ \E w \in Mapped : /\ \A v \in Mapped : w <= v
                       /\ driver' = [driver EXCEPT !.pc = "find", !.worker = w]
  /\ UNCHANGED <<vars, slot, conn>>

(* Faulty: the thread waits for a worker. *)
DriverDoneWaits ==
  /\ driver.pc = "pick" /\ driver.report = <<>>
  /\ driver' = IdleDriver
  /\ UNCHANGED <<vars, slot, conn>>

(* Without a worker the remaining batches are given up. *)
DriverDone ==
  /\ driver.pc = "pick"
  /\ driver.report # <<>> => Head(driver.report) \notin Range(driver.before) /\ Mapped = {}
  /\ driver' = IdleDriver
  /\ UNCHANGED <<vars, slot, conn>>

(* The connection and its boot id are read under one lock. *)
DriverFind ==
  /\ driver.pc = "find"
  /\ driver' = [driver EXCEPT !.pc = "prepare", !.conn = slot[driver.worker]]
  /\ UNCHANGED <<vars, slot, conn>>

(* Faulty: the result of prepare_dispatch is not looked at. *)
DriverRefusedSends ==
  /\ driver.pc = "prepare" /\ Unlocked
  /\ workers[driver.worker].boot # BootOf(driver.conn)
  /\ driver' = [driver EXCEPT !.pc = "send"]
  /\ UNCHANGED <<vars, slot, conn>>

(* A refused prepare_dispatch leaves the batch sealed. *)
DriverRefused ==
  /\ driver.pc = "prepare" /\ Unlocked
  /\ ~( /\ batches[Head(driver.report)].state = "sealed"
        /\ workers[driver.worker].live /\ workers[driver.worker].boot = BootOf(driver.conn))
  /\ driver' = NextBatch
  /\ UNCHANGED <<vars, slot, conn>>

(* Faulty: prepare_dispatch does not compare boot ids. *)
DriverPrepareAny ==
  /\ driver.pc = "prepare"
  /\ PrepareDispatch(Head(driver.report), driver.worker)
  /\ driver' = [driver EXCEPT !.pc = "send"]
  /\ UNCHANGED <<slot, conn>>

DriverPrepare ==
  /\ driver.pc = "prepare"
  /\ workers[driver.worker].boot = BootOf(driver.conn)
  /\ PrepareDispatch(Head(driver.report), driver.worker)
  /\ driver' = [driver EXCEPT !.pc = "send"]
  /\ UNCHANGED <<slot, conn>>

(* The execution prepare_dispatch returned: a batch is handed out once. *)
Prepared == CHOOSE x \in dispatches : x.batch = Head(driver.report)

(* What is sent to a process that is gone is lost. *)
DriverSend ==
  /\ driver.pc = "send"
  /\ conn' = IF driver.conn # NoConn /\ conn[driver.conn].up
               THEN [conn EXCEPT ![driver.conn].inbox = Append(@, Prepared)] ELSE conn
  /\ driver' = NextBatch
  /\ UNCHANGED <<vars, slot>>

-----------------------------------------------------------------------------
(* Worker processes. *)

(* A process starts when no other one runs under its worker id. *)
WorkerConnect(c, w, boot) ==
  /\ conn[c].thread = "none" /\ \A d \in Conn : d < c => conn[d].thread # "none"
  /\ \A d \in Conn : conn[d].worker = w => ~conn[d].up /\ conn[d].boot < boot
  /\ conn' = [conn EXCEPT ![c] = [worker |-> w, boot |-> boot, up |-> TRUE,
                                  thread |-> "accepted", inbox |-> <<>>, sent |-> <<>>]]
  /\ UNCHANGED <<vars, slot, driver>>

(* Executing the next batch of the inbox gives every member the same status.*)
WorkerExecute(c, status) ==
  /\ conn[c].up /\ conn[c].inbox # <<>>
  /\ conn' = [conn EXCEPT ![c].inbox = Tail(@),
       ![c].sent = Append(@, [exec |-> Head(conn[c].inbox), status |-> status])]
  /\ UNCHANGED <<vars, slot, driver>>

(* The process dies; of what it sent a prefix still arrives. *)
WorkerCrash(c) ==
  /\ conn[c].up
  /\ \E n \in 0 .. Len(conn[c].sent) :
       conn' = [conn EXCEPT ![c].up = FALSE, ![c].inbox = <<>>, ![c].sent = SubSeq(@, 1, n)]
  /\ UNCHANGED <<vars, slot, driver>>

-----------------------------------------------------------------------------
(* The thread of a worker's connection. *)

(* Registration: first the map, then the scheduler. *)
MapWorker(c) ==
  /\ conn[c].thread = "accepted"
  /\ slot' = [slot EXCEPT ![conn[c].worker] = c]
  /\ conn' = [conn EXCEPT ![c].thread = "mapped"]
  /\ UNCHANGED <<vars, driver>>

EnrolWorker(c, size) ==
  /\ conn[c].thread = "mapped"
  /\ RegisterWorker(conn[c].worker, conn[c].boot, size)
  /\ conn' = [conn EXCEPT ![c].thread = "serving"]
  /\ UNCHANGED <<slot, driver>>

(* Faulty: the report is applied without the checks of complete(). *)
ReadReportUnchecked(c) ==
  /\ conn[c].thread = "serving" /\ conn[c].sent # <<>> /\ Unlocked
  /\ LET x == Head(conn[c].sent).exec
         s == Head(conn[c].sent).status
     IN BeginReport(x.batch, x.attempt, [r \in {q \in RequestId : x.attempt[q] # 0} |-> s])
  /\ conn' = [conn EXCEPT ![c].sent = Tail(@)]
  /\ UNCHANGED <<requestVars, idVars, batchVars, fairVars, envVars, slot, driver>>

(* A completion frame: complete() applies it or refuses it. *)
ReadReport(c) ==
  /\ conn[c].thread = "serving" /\ conn[c].sent # <<>> /\ Unlocked
  /\ LET x == Head(conn[c].sent).exec
         s == Head(conn[c].sent).status
     IN IF Authorised(x)
          THEN BeginReport(x.batch, x.attempt, [r \in {q \in RequestId : x.attempt[q] # 0} |-> s])
          ELSE UNCHANGED op
  /\ conn' = [conn EXCEPT ![c].sent = Tail(@)]
  /\ UNCHANGED <<requestVars, idVars, batchVars, fairVars, envVars, slot, driver>>

(* The connection has ended: the worker's entry goes, whichever connection  *)
(* it names by now.                                                         *)
Disconnect(c) ==
  /\ conn[c].thread = "serving" /\ ~conn[c].up /\ conn[c].sent = <<>>
  /\ slot' = [slot EXCEPT ![conn[c].worker] = NoConn]
  /\ conn' = [conn EXCEPT ![c].thread = "gone"]
  /\ UNCHANGED <<vars, driver>>

(* Other driver connections cancel requests and roll the epoch. *)
DriverCall ==
  /\ RollEpoch \/ \E r \in RequestId : Cancel(r)
  /\ UNCHANGED controlVars

-----------------------------------------------------------------------------
DriverStep == \/ DriverTick \/ DriverSkip \/ DriverPick \/ DriverDone \/ DriverFind \/ DriverRefused
              \/ DriverPrepare \/ DriverSend

ThreadStep == \E c \in Conn : \/ MapWorker(c) \/ ReadReport(c) \/ Disconnect(c)
                              \/ \E size \in WorkerSizes : EnrolWorker(c, size)

WorkerStep == \E c \in Conn, status \in ReportStatus : WorkerExecute(c, status)

ControlNext ==
  \/ DriverSubmit \/ FabricStep \/ DriverStep \/ ThreadStep \/ WorkerStep \/ DriverCall
  \/ \E c \in Conn, w \in Worker, boot \in BootId \ {0} : WorkerConnect(c, w, boot)
  \/ \E c \in Conn : WorkerCrash(c)

ControlSpec == ControlInit /\ [][ControlNext]_planeVars

(* The threads of the coordinator run, and a worker process that is up      *)
(* executes what it receives.  Processes may crash or never start, and the  *)
(* driver may stop submitting.                                              *)
ControlFairSpec ==
  /\ ControlSpec
  /\ WF_planeVars(FabricStep)
  /\ SF_planeVars(DriverStep)
  /\ \A c \in Conn :
       /\ SF_planeVars(MapWorker(c) \/ ReadReport(c) \/ Disconnect(c)
                         \/ \E size \in WorkerSizes : EnrolWorker(c, size))
       /\ WF_planeVars(\E status \in ReportStatus : WorkerExecute(c, status))

-----------------------------------------------------------------------------
ThreadState == {"none", "accepted", "mapped", "serving", "gone"}
DriverState == {"idle", "tick", "ticking", "pick", "find", "prepare", "send"}

Report    == [exec: dispatches, status: ReportStatus]
ConnRec   == [worker: Worker \cup {0}, boot: BootId, up: BOOLEAN, thread: ThreadState,
              inbox: Seq(dispatches), sent: Seq(Report)]
DriverRec == [pc: DriverState, before: Seq(BatchId), report: Seq(BatchId),
              worker: Worker \cup {0}, conn: Conn \cup {NoConn}]

(* The coordinator's records are well formed, and nothing is executed or    *)
(* reported that the scheduler did not hand out: inboxes and reports hold   *)
(* executions of dispatches, and the driver's thread sends only what        *)
(* prepare_dispatch returned for the batch at hand.                         *)
ControlInv ==
  /\ slot \in [Worker -> Conn \cup {NoConn}]
  /\ conn \in [Conn -> ConnRec]
  /\ \A c \in Conn : conn[c].thread # "none" => conn[c].worker \in Worker
  /\ driver \in DriverRec
  /\ driver.pc \in {"find", "prepare", "send"} =>
       driver.worker \in Worker /\ driver.report # <<>>
  /\ driver.pc = "send" => \E x \in dispatches : x.batch = Head(driver.report)

(* The coordinator and its workers, however they are scheduled, crash and   *)
(* restart, use the scheduler only as its own specification allows: what    *)
(* holds of every behaviour of the scheduler holds here.                    *)
ImplementsScheduler == Spec

(* A worker process holds only executions that were authorised for it: the  *)
(* worker id and the boot id under which the scheduler handed a batch out   *)
(* are those of the process that receives it, also when the worker was      *)
(* restarted between the lookup and the send.                               *)
ExecutionAddressed ==
  \A c \in Conn : \A i \in DOMAIN conn[c].inbox :
    conn[c].inbox[i].worker = conn[c].worker /\ conn[c].inbox[i].boot = conn[c].boot

(* Every submission is answered: the driver's thread returns to its         *)
(* connection whatever happens to the workers.                              *)
DriverAnswered == driver.pc # "idle" ~> driver.pc = "idle"

(* A worker that stays up, registered and mapped. *)
Ready(c) ==
  conn[c].up /\ conn[c].thread = "serving" /\ slot[conn[c].worker] = c

(* Fresh work completes: a request submitted while a registered worker is   *)
(* connected reaches a terminal state, unless that worker goes away or the  *)
(* epoch is rolled after its batch was formed, which no report then moves.  *)
FreshWorkCompletes ==
  \A r \in RequestId, c \in Conn :
    (driver.pc = "tick" /\ requests[r].state = "eligible" /\ Ready(c))
      ~> \/ requests[r].state \in Terminal \/ ~Ready(c)
         \/ requests[r].batch # NoBatch /\ batches[requests[r].batch].epoch # epoch
=============================================================================
