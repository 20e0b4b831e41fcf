------------------------- MODULE ControlPlaneProofs -------------------------
(***************************************************************************)
(* The coordinator and its workers implement the scheduler's specification.*)
(* Every step of theirs is a step of the scheduler or leaves it alone; the *)
(* one that needs an invariant is the reading of a report, which is a call *)
(* of complete() only because what a worker answers was handed out before. *)
(***************************************************************************)
EXTENDS ControlPlane, WorkProofs

(* A step of the scheduler forgets no execution. *)
LEMMA ExecutionsKept == [Next]_vars => dispatches \subseteq dispatches'
BY DispatchesGrow DEF PrepareDispatch

(* Every step of the control plane is a step of the scheduler, or none. *)
LEMMA StepImplements ==
  TypeOK /\ ControlInv /\ [ControlNext]_planeVars => [Next]_vars
<1> SUFFICES ASSUME TypeOK, ControlInv, [ControlNext]_planeVars PROVE [Next]_vars
  OBVIOUS
<1>1. CASE DriverSubmit
  BY <1>1 DEF DriverSubmit, Next
<1>2. CASE FabricStep
  BY <1>2 DEF FabricStep, Next
<1>3. CASE DriverStep
  <2>1. CASE DriverTick
    BY <2>1 DEF DriverTick, Next
  <2>2. CASE DriverPrepare
    <3>1. driver.worker \in Worker /\ Head(driver.report) \in BatchId
      <4>1. driver.report \in Seq(BatchId) /\ driver.report # <<>> /\ driver.worker \in Worker
        BY <2>2 DEF DriverPrepare, ControlInv, DriverRec
      <4> QED
        BY <4>1
    <3> QED
      BY <2>2, <3>1 DEF DriverPrepare, Next
  <2>3. CASE DriverSkip \/ DriverPick \/ DriverDone \/ DriverFind \/ DriverRefused \/ DriverSend
    BY <2>3 DEF DriverSkip, DriverPick, DriverDone, DriverFind, DriverRefused, DriverSend
  <2> QED
    BY <1>3, <2>1, <2>2, <2>3 DEF DriverStep
<1>4. CASE ThreadStep
  <2>1. ASSUME NEW c \in Conn, MapWorker(c) \/ Disconnect(c) PROVE UNCHANGED vars
    BY <2>1 DEF MapWorker, Disconnect
  <2>2. ASSUME NEW c \in Conn, NEW size \in WorkerSizes, EnrolWorker(c, size) PROVE Next
    <3>1. conn[c].worker \in Worker /\ conn[c].boot \in BootId
      BY <2>2 DEF EnrolWorker, ControlInv, ConnRec
    <3> QED
      BY <2>2, <3>1 DEF EnrolWorker, Next
  <2>3. ASSUME NEW c \in Conn, ReadReport(c) PROVE [Next]_vars
    <3> DEFINE x == Head(conn[c].sent).exec
               s == Head(conn[c].sent).status
    <3>1. x \in dispatches /\ s \in ReportStatus
      <4>1. conn[c].sent \in Seq(Report) /\ conn[c].sent # <<>>
        BY <2>3 DEF ReadReport, ControlInv, ConnRec
      <4>2. Head(conn[c].sent) \in Report
        BY <4>1, HeadTailProperties
      <4> QED
        BY <4>2 DEF Report
    <3>2. CASE Authorised(x)
      <4> DEFINE told == {q \in RequestId : x.attempt[q] # 0}
                 report == [r \in told |-> s]
      <4>1. BeginReport(x.batch, x.attempt, report)
        BY <2>3, <3>2 DEF ReadReport
      <4>2. told \in SUBSET {r \in RequestId : x.attempt[r] # 0} /\ report \in [told -> ReportStatus]
        BY <3>1
      <4>3. Unlocked /\ UNCHANGED <<requestVars, idVars, batchVars, fairVars, envVars>>
        BY <2>3 DEF ReadReport
      <4> HIDE DEF x, s, told, report
      <4>4. Complete(x)
        BY <3>2, <4>1, <4>2, <4>3 DEF Complete
      <4> QED
        BY <3>1, <4>4 DEF Next
    <3>3. CASE ~Authorised(x)
      BY <2>3, <3>3 DEF ReadReport, vars
    <3> QED
      BY <3>2, <3>3
  <2> QED
    BY <1>4, <2>1, <2>2, <2>3 DEF ThreadStep
<1>5. CASE WorkerStep
  BY <1>5 DEF WorkerStep, WorkerExecute
<1>6. CASE DriverCall
  BY <1>6 DEF DriverCall, Next
<1>7. CASE \E c \in Conn, w \in Worker, boot \in BootId \ {0} : WorkerConnect(c, w, boot)
  BY <1>7 DEF WorkerConnect
<1>8. CASE \E c \in Conn : WorkerCrash(c)
  BY <1>8 DEF WorkerCrash
<1>9. CASE UNCHANGED planeVars
  BY <1>9 DEF planeVars
<1> QED
  BY <1>1, <1>2, <1>3, <1>4, <1>5, <1>6, <1>7, <1>8, <1>9 DEF ControlNext

-----------------------------------------------------------------------------
(* The invariant of the control plane. *)

LEMMA SeqGrows ==
  ASSUME NEW S, NEW T, S \subseteq T, NEW s \in Seq(S)
  PROVE  s \in Seq(T)
<1>1. s \in [1 .. Len(s) -> S] /\ Len(s) \in Nat
  BY LenProperties
<1>2. s \in [1 .. Len(s) -> T]
  BY <1>1
<1> QED
  BY <1>1, <1>2, IsASeq

(* A connection's record stays one when executions are added. *)
LEMMA RecGrows ==
  ASSUME dispatches \subseteq dispatches', NEW e \in ConnRec
  PROVE  e \in ConnRec'
<1>1. Report \subseteq Report'
  BY DEF Report
<1>2. e.inbox \in Seq(dispatches') /\ e.sent \in Seq(Report')
  BY <1>1, SeqGrows DEF ConnRec
<1> QED
  BY <1>2 DEF ConnRec

LEMMA ControlInitInv == ControlInit => ControlInv
<1> SUFFICES ASSUME ControlInit PROVE ControlInv
  OBVIOUS
<1>1. <<>> \in Seq(dispatches) /\ <<>> \in Seq(Report) /\ <<>> \in Seq(BatchId)
  OBVIOUS
<1>2. 0 \in BootId
  BY SchedulerAssumption DEF BootId, SchedulerAssumption
<1>3. conn \in [Conn -> ConnRec]
  BY <1>1, <1>2 DEF ControlInit, ConnRec, ThreadState
<1>4. driver \in DriverRec
  BY <1>1 DEF ControlInit, IdleDriver, DriverRec, DriverState, NoConn
<1> QED
  BY <1>3, <1>4 DEF ControlInit, ControlInv, IdleDriver, NoConn

(* What a step that leaves the connections alone has to keep. *)
LEMMA ConnKept ==
  ASSUME ControlInv, dispatches \subseteq dispatches', UNCHANGED conn
  PROVE  /\ conn' \in [Conn -> ConnRec']
         /\ \A c \in Conn : conn'[c].thread # "none" => conn'[c].worker \in Worker
<1>1. \A c \in Conn : conn[c] \in ConnRec'
  BY RecGrows DEF ControlInv
<1> QED
  BY <1>1 DEF ControlInv

(* What a step that leaves the driver's thread alone has to keep. *)
LEMMA DriverKept ==
  ASSUME ControlInv, dispatches \subseteq dispatches', UNCHANGED driver
  PROVE  /\ driver' \in DriverRec
         /\ driver'.pc \in {"find", "prepare", "send"} =>
              driver'.worker \in Worker /\ driver'.report # <<>>
         /\ driver'.pc = "send" => \E x \in dispatches' : x.batch = Head(driver'.report)
BY DEF ControlInv

(* What a step that changes the record of one connection has to keep. *)
LEMMA ConnChanged ==
  ASSUME ControlInv, NEW c \in Conn, NEW e \in ConnRec, UNCHANGED dispatches,
         e.thread # "none" => e.worker \in Worker,
         conn' = [conn EXCEPT ![c] = e]
  PROVE  /\ conn' \in [Conn -> ConnRec']
         /\ \A d \in Conn : conn'[d].thread # "none" => conn'[d].worker \in Worker
<1>1. ConnRec' = ConnRec
  BY DEF ConnRec, Report
<1>2. conn' \in [Conn -> ConnRec]
  BY PutType DEF ControlInv
<1> QED
  BY <1>1, <1>2 DEF ControlInv

(* The driver's thread: its record and what it is about to send. *)
LEMMA DriverKeeps ==
  ASSUME TypeOK, ControlInv, DriverStep \/ DriverSubmit \/ FabricStep,
         dispatches \subseteq dispatches'
  PROVE  /\ driver' \in DriverRec
         /\ driver'.pc \in {"find", "prepare", "send"} =>
              driver'.worker \in Worker /\ driver'.report # <<>>
         /\ driver'.pc = "send" => \E x \in dispatches' : x.batch = Head(driver'.report)
<1>types. /\ driver \in DriverRec /\ slot \in [Worker -> Conn \cup {NoConn}]
          /\ sealedOrder \in Seq(BatchId)
  BY DEF ControlInv, TypeOK
<1>next. driver.report # <<>> => NextBatch \in DriverRec /\ NextBatch.pc = "pick"
  <2> SUFFICES ASSUME driver.report # <<>> PROVE NextBatch \in DriverRec /\ NextBatch.pc = "pick"
    OBVIOUS
  <2>1. Tail(driver.report) \in Seq(BatchId)
    BY <1>types, HeadTailProperties DEF DriverRec
  <2> QED
    BY <1>types, <2>1 DEF NextBatch, DriverRec, DriverState
<1>idle. IdleDriver \in DriverRec /\ IdleDriver.pc = "idle"
  <2>1. <<>> \in Seq(BatchId)
    OBVIOUS
  <2> QED
    BY <2>1 DEF IdleDriver, DriverRec, DriverState, NoConn
<1>1. CASE DriverSubmit
  BY <1>1, <1>types DEF DriverSubmit, DriverRec, DriverState
<1>2. CASE FabricStep
  <2>1. CASE UNCHANGED driver
    BY <2>1, DriverKept
  <2>2. CASE driver' = [driver EXCEPT !.pc = "pick", !.report = sealedOrder]
    BY <2>2, <1>types DEF DriverRec, DriverState
  <2> QED
    BY <1>2, <2>1, <2>2 DEF FabricStep
<1>3. CASE DriverTick
  BY <1>3, <1>types DEF DriverTick, DriverRec, DriverState
<1>4. CASE DriverSkip
  BY <1>4, <1>next DEF DriverSkip
<1>5. CASE DriverPick
  <2>1. PICK w \in Worker : driver' = [driver EXCEPT !.pc = "find", !.worker = w]
    BY <1>5 DEF DriverPick, Mapped
  <2>2. driver.report # <<>>
    BY <1>5 DEF DriverPick
  <2> QED
    BY <2>1, <2>2, <1>types DEF DriverRec, DriverState
<1>6. CASE DriverDone
  BY <1>6, <1>idle DEF DriverDone
<1>7. CASE DriverFind
  <2>1. driver.worker \in Worker /\ driver.report # <<>>
    BY <1>7 DEF DriverFind, ControlInv
  <2>2. driver' = [driver EXCEPT !.pc = "prepare", !.conn = slot[driver.worker]]
    BY <1>7 DEF DriverFind
  <2> QED
    BY <2>1, <2>2, <1>types DEF DriverRec, DriverState
<1>8. CASE DriverRefused
  <2>1. driver.report # <<>>
    BY <1>8 DEF DriverRefused, ControlInv
  <2> QED
    BY <1>8, <2>1, <1>next DEF DriverRefused
<1>9. CASE DriverPrepare
  <2>1. driver.worker \in Worker /\ driver.report # <<>>
    BY <1>9 DEF DriverPrepare, ControlInv
  <2>2. driver' = [driver EXCEPT !.pc = "send"]
    BY <1>9 DEF DriverPrepare
  <2>3. \E x \in dispatches' : x.batch = Head(driver.report)
    <3> DEFINE b == Head(driver.report)
               y == [batch |-> b, generation |-> batches[b].generation, epoch |-> batches[b].epoch,
                     worker |-> driver.worker, boot |-> workers[driver.worker].boot,
                     attempt |-> CurrentAttempts(b)]
    <3>1. y \in dispatches'
      BY <1>9 DEF DriverPrepare, PrepareDispatch
    <3> QED
      BY <3>1
  <2> QED
    BY <2>1, <2>2, <2>3, <1>types DEF DriverRec, DriverState
<1>10. CASE DriverSend
  <2>1. driver.report # <<>>
    BY <1>10 DEF DriverSend, ControlInv
  <2> QED
    BY <1>10, <2>1, <1>next DEF DriverSend
<1> QED
  BY <1>1, <1>2, <1>3, <1>4, <1>5, <1>6, <1>7, <1>8, <1>9, <1>10 DEF DriverStep

(* Every step of the control plane keeps its invariant. *)
LEMMA ControlStep ==
  TypeOK /\ ControlInv /\ [ControlNext]_planeVars => ControlInv'
<1> SUFFICES ASSUME TypeOK, ControlInv, [ControlNext]_planeVars PROVE ControlInv'
  OBVIOUS
<1>grow. dispatches \subseteq dispatches'
  BY StepImplements, ExecutionsKept
<1>types. /\ slot \in [Worker -> Conn \cup {NoConn}] /\ conn \in [Conn -> ConnRec]
          /\ \A c \in Conn : conn[c].thread # "none" => conn[c].worker \in Worker
  BY DEF ControlInv
<1>env. UNCHANGED vars => UNCHANGED dispatches
  BY DEF vars, envVars
<1>1. CASE DriverSubmit \/ FabricStep \/ (DriverStep /\ ~DriverSend)
  <2>1. UNCHANGED <<slot, conn>>
    BY <1>1 DEF DriverSubmit, FabricStep, DriverStep, DriverTick, DriverSkip, DriverPick,
                DriverDone, DriverFind, DriverRefused, DriverPrepare
  <2> QED
    BY <1>1, <1>grow, <1>types, <2>1, ConnKept, DriverKeeps DEF ControlInv
<1>2. CASE DriverSend
  <2>1. UNCHANGED <<dispatches, slot>>
    BY <1>2, <1>env DEF DriverSend
  <2>2. CASE UNCHANGED conn
    BY <1>2, <1>grow, <1>types, <2>1, <2>2, ConnKept, DriverKeeps DEF ControlInv, DriverStep
  <2>3. CASE /\ driver.conn # NoConn
             /\ conn' = [conn EXCEPT ![driver.conn].inbox = Append(@, Prepared)]
    <3> DEFINE c == driver.conn
               e == [conn[c] EXCEPT !.inbox = Append(@, Prepared)]
    <3>1. c \in Conn
      BY <2>3 DEF ControlInv, DriverRec
    <3>2. Prepared \in dispatches
      BY <1>2 DEF DriverSend, ControlInv, Prepared
    <3>3. Append(conn[c].inbox, Prepared) \in Seq(dispatches)
      BY <3>1, <3>2, <1>types, AppendProperties DEF ConnRec
    <3>4. e \in ConnRec /\ e.thread = conn[c].thread /\ e.worker = conn[c].worker
      BY <3>1, <3>3, <1>types DEF ConnRec
    <3>5. conn' = [conn EXCEPT ![c] = e]
      BY <2>3
    <3> HIDE DEF e
    <3>6. /\ conn' \in [Conn -> ConnRec']
          /\ \A d \in Conn : conn'[d].thread # "none" => conn'[d].worker \in Worker
      BY <1>types, <2>1, <3>1, <3>4, <3>5, ConnChanged
    <3> QED
      BY <1>2, <1>grow, <1>types, <2>1, <3>6, DriverKeeps DEF ControlInv, DriverStep
  <2> QED
    BY <1>2, <2>2, <2>3 DEF DriverSend
<1>3. CASE \E c \in Conn, w \in Worker, boot \in BootId \ {0} : WorkerConnect(c, w, boot)
  <2>1. PICK c \in Conn, w \in Worker, boot \in BootId \ {0} : WorkerConnect(c, w, boot)
    BY <1>3
  <2> DEFINE e == [worker |-> w, boot |-> boot, up |-> TRUE, thread |-> "accepted",
                   inbox |-> <<>>, sent |-> <<>>]
  <2>2. e \in ConnRec /\ e.worker \in Worker
    <3>1. <<>> \in Seq(dispatches) /\ <<>> \in Seq(Report)
      OBVIOUS
    <3> QED
      BY <3>1 DEF ConnRec, ThreadState
  <2>3. conn' = [conn EXCEPT ![c] = e] /\ UNCHANGED <<dispatches, slot, driver>>
    BY <2>1, <1>env DEF WorkerConnect
  <2> HIDE DEF e
  <2> QED
    BY <1>types, <1>grow, <2>2, <2>3, ConnChanged, DriverKept DEF ControlInv
<1>4. CASE WorkerStep
  <2>1. PICK c \in Conn, status \in ReportStatus : WorkerExecute(c, status)
    BY <1>4 DEF WorkerStep
  <2> DEFINE rep == [exec |-> Head(conn[c].inbox), status |-> status]
             e == [conn[c] EXCEPT !.inbox = Tail(@), !.sent = Append(@, rep)]
  <2>2. conn[c].inbox \in Seq(dispatches) /\ conn[c].inbox # <<>> /\ conn[c].sent \in Seq(Report)
    BY <2>1, <1>types DEF WorkerExecute, ConnRec
  <2>3. Tail(conn[c].inbox) \in Seq(dispatches) /\ rep \in Report
    BY <2>2, HeadTailProperties DEF Report
  <2>4. Append(conn[c].sent, rep) \in Seq(Report)
    BY <2>2, <2>3, AppendProperties
  <2>5. conn' = [conn EXCEPT ![c] = e] /\ UNCHANGED <<dispatches, slot, driver>>
    BY <2>1, <1>env DEF WorkerExecute
  <2> HIDE DEF rep
  <2>6. e \in ConnRec /\ e.thread = conn[c].thread /\ e.worker = conn[c].worker
    BY <2>3, <2>4, <1>types DEF ConnRec
  <2> HIDE DEF e
  <2> QED
    BY <1>types, <1>grow, <2>5, <2>6, ConnChanged, DriverKept DEF ControlInv
<1>5. CASE \E c \in Conn : WorkerCrash(c)
  <2>1. PICK c \in Conn : WorkerCrash(c)
    BY <1>5
  <2>2. PICK n \in 0 .. Len(conn[c].sent) :
          conn' = [conn EXCEPT ![c].up = FALSE, ![c].inbox = <<>>, ![c].sent = SubSeq(@, 1, n)]
    BY <2>1 DEF WorkerCrash
  <2> DEFINE e == [conn[c] EXCEPT !.up = FALSE, !.inbox = <<>>, !.sent = SubSeq(@, 1, n)]
  <2>3. conn[c].sent \in Seq(Report)
    BY <1>types DEF ConnRec
  <2>4. SubSeq(conn[c].sent, 1, n) \in Seq(Report)
    <3>1. \A i \in 1 .. n : conn[c].sent[i] \in Report
      BY <2>3
    <3> QED
      BY <2>3, <3>1, SubSeqProperties
  <2>5. <<>> \in Seq(dispatches)
    OBVIOUS
  <2>6. e \in ConnRec /\ e.thread = conn[c].thread /\ e.worker = conn[c].worker
    BY <2>4, <2>5, <1>types DEF ConnRec
  <2>7. conn' = [conn EXCEPT ![c] = e] /\ UNCHANGED <<dispatches, slot, driver>>
    BY <2>1, <2>2, <1>env DEF WorkerCrash
  <2> HIDE DEF e
  <2> QED
    BY <1>types, <1>grow, <2>6, <2>7, ConnChanged, DriverKept DEF ControlInv
<1>6. ASSUME NEW c \in Conn, MapWorker(c) \/ Disconnect(c) PROVE ControlInv'
  <2> DEFINE e(t) == [conn[c] EXCEPT !.thread = t]
  <2>1. PICK t \in ThreadState \ {"none"} : conn' = [conn EXCEPT ![c] = e(t)]
    BY <1>6 DEF MapWorker, Disconnect, ThreadState
  <2>2. conn[c].worker \in Worker /\ UNCHANGED <<dispatches, driver>>
    BY <1>6, <1>types, <1>env DEF MapWorker, Disconnect
  <2>3. slot' \in [Worker -> Conn \cup {NoConn}]
    BY <1>6, <1>types DEF MapWorker, Disconnect
  <2>4. e(t) \in ConnRec /\ e(t).worker = conn[c].worker
    BY <1>types DEF ConnRec
  <2> HIDE DEF e
  <2> QED
    BY <1>types, <1>grow, <2>1, <2>2, <2>3, <2>4, ConnChanged, DriverKept DEF ControlInv
<1>7. ASSUME NEW c \in Conn, NEW size \in WorkerSizes, EnrolWorker(c, size) PROVE ControlInv'
  <2> DEFINE e == [conn[c] EXCEPT !.thread = "serving"]
  <2>1. conn' = [conn EXCEPT ![c] = e] /\ conn[c].worker \in Worker
    BY <1>7, <1>types DEF EnrolWorker
  <2>2. UNCHANGED <<dispatches, slot, driver>>
    BY <1>7 DEF EnrolWorker, RegisterWorker
  <2>3. e \in ConnRec /\ e.worker = conn[c].worker
    BY <1>types DEF ConnRec, ThreadState
  <2> HIDE DEF e
  <2> QED
    BY <1>types, <1>grow, <2>1, <2>2, <2>3, ConnChanged, DriverKept DEF ControlInv
<1>8. ASSUME NEW c \in Conn, ReadReport(c) PROVE ControlInv'
  <2> DEFINE e == [conn[c] EXCEPT !.sent = Tail(@)]
  <2>1. conn' = [conn EXCEPT ![c] = e]
    BY <1>8 DEF ReadReport
  <2>2. UNCHANGED <<dispatches, slot, driver>>
    BY <1>8 DEF ReadReport, envVars
  <2>3. conn[c].sent \in Seq(Report) /\ conn[c].sent # <<>>
    BY <1>8, <1>types DEF ReadReport, ConnRec
  <2>4. Tail(conn[c].sent) \in Seq(Report)
    BY <2>3, HeadTailProperties
  <2>5. e \in ConnRec /\ e.worker = conn[c].worker /\ e.thread = conn[c].thread
    BY <1>types, <2>4 DEF ConnRec
  <2> HIDE DEF e
  <2> QED
    BY <1>types, <1>grow, <2>1, <2>2, <2>5, ConnChanged, DriverKept DEF ControlInv
<1>9. CASE DriverCall \/ UNCHANGED planeVars
  <2>1. UNCHANGED <<slot, conn, driver>>
    BY <1>9 DEF DriverCall, controlVars, planeVars
  <2> QED
    BY <1>types, <1>grow, <2>1, ConnKept, DriverKept DEF ControlInv
<1> QED
  BY <1>1, <1>2, <1>3, <1>4, <1>5, <1>6, <1>7, <1>8, <1>9 DEF ControlNext, DriverStep, ThreadStep

-----------------------------------------------------------------------------
(* What the coordinator executes and reports was handed out by the          *)
(* scheduler, for any number of workers, connections, crashes and restarts. *)
THEOREM ControlConsistent == ControlSpec => []ControlInv
<1>1. ControlInit => TypeOK /\ ControlInv
  BY InitType, ControlInitInv DEF ControlInit
<1>2. (TypeOK /\ ControlInv) /\ [ControlNext]_planeVars => (TypeOK /\ ControlInv)'
  BY StepImplements, ControlStep, TypeStep
<1> QED
  BY <1>1, <1>2, PTL DEF ControlSpec

(* The coordinator and its workers implement the scheduler's specification. *)
THEOREM CoordinatorImplements == ControlSpec => ImplementsScheduler
<1>1. ControlInit => Init /\ TypeOK /\ ControlInv
  BY InitType, ControlInitInv DEF ControlInit
<1>2. (TypeOK /\ ControlInv) /\ [ControlNext]_planeVars => (TypeOK /\ ControlInv)' /\ [Next]_vars
  BY StepImplements, ControlStep, TypeStep
<1> QED
  BY <1>1, <1>2, PTL DEF ControlSpec, ImplementsScheduler, Spec

(* So every attempt ledger the coordinator reaches is consistent. *)
THEOREM CoordinatorAttempts == ControlSpec => []AttemptInv
BY CoordinatorImplements, AttemptsConsistent, PTL DEF ImplementsScheduler

-----------------------------------------------------------------------------
(* Whom an execution reaches. *)

(* A connection is that of a process of worker w once it was accepted, and  *)
(* then keeps its worker and boot id for good.                              *)
Known(c, w) == conn[c].thread # "none" /\ conn[c].worker = w

(* A worker's entry, and the connection the driver's thread has looked up,  *)
(* are connections of that worker; what prepare_dispatch() returned was     *)
(* authorised for the boot that was looked up; a batch is handed out once,  *)
(* so that the thread sends just that.                                      *)
Addressed ==
  /\ \A w \in Worker : slot[w] # NoConn => Known(slot[w], w)
  /\ driver.pc \in {"prepare", "send"} /\ driver.conn # NoConn => Known(driver.conn, driver.worker)
  /\ driver.pc = "send" =>
       \E x \in dispatches : /\ x.batch = Head(driver.report) /\ x.worker = driver.worker
                             /\ x.boot = BootOf(driver.conn)
  /\ \A x, y \in dispatches : x.batch = y.batch => x = y
  /\ ExecutionAddressed

(* What a step does to a connection. *)
LEMMA ConnSteps ==
  ASSUME ControlInv, [ControlNext]_planeVars, NEW c \in Conn
  PROVE  \/ conn[c].thread = "none" /\ conn'[c].inbox = <<>>
         \/ /\ conn'[c].worker = conn[c].worker /\ conn'[c].boot = conn[c].boot
            /\ conn'[c].thread = "none" => conn[c].thread = "none"
            /\ \/ conn'[c].inbox = conn[c].inbox
               \/ conn'[c].inbox = <<>>
               \/ conn[c].inbox # <<>> /\ conn'[c].inbox = Tail(conn[c].inbox)
               \/ DriverSend /\ c = driver.conn /\ conn'[c].inbox = Append(conn[c].inbox, Prepared)
<1>types. conn \in [Conn -> ConnRec]
  BY DEF ControlInv
<1>1. CASE DriverSubmit \/ FabricStep \/ DriverCall \/ (DriverStep /\ ~DriverSend) \/ UNCHANGED planeVars
  <2>1. UNCHANGED conn
    BY <1>1 DEF DriverSubmit, FabricStep, DriverCall, DriverStep, DriverTick, DriverSkip, DriverPick,
                DriverDone, DriverFind, DriverRefused, DriverPrepare, planeVars, controlVars
  <2> QED
    BY <2>1
<1>2. CASE DriverSend
  <2>1. CASE UNCHANGED conn
    BY <2>1
  <2>2. CASE /\ driver.conn # NoConn
             /\ conn' = [conn EXCEPT ![driver.conn].inbox = Append(@, Prepared)]
    <3>1. driver.conn \in Conn
      BY <2>2 DEF ControlInv, DriverRec
    <3> QED
      BY <1>2, <1>types, <2>2, <3>1 DEF ConnRec
  <2> QED
    BY <1>2, <2>1, <2>2 DEF DriverSend
<1>3. ASSUME NEW d \in Conn, NEW w \in Worker, NEW boot \in BootId, WorkerConnect(d, w, boot)
      PROVE  \/ conn[c].thread = "none" /\ conn'[c].inbox = <<>>
             \/ conn'[c] = conn[c]
  BY <1>3, <1>types DEF WorkerConnect
<1>4. ASSUME NEW d \in Conn, NEW status \in ReportStatus, WorkerExecute(d, status)
      PROVE  /\ conn'[c].worker = conn[c].worker /\ conn'[c].boot = conn[c].boot
             /\ conn'[c].thread = conn[c].thread
             /\ \/ conn'[c].inbox = conn[c].inbox
                \/ conn[c].inbox # <<>> /\ conn'[c].inbox = Tail(conn[c].inbox)
  BY <1>4, <1>types DEF WorkerExecute, ConnRec
<1>5. ASSUME NEW d \in Conn, WorkerCrash(d)
      PROVE  /\ conn'[c].worker = conn[c].worker /\ conn'[c].boot = conn[c].boot
             /\ conn'[c].thread = conn[c].thread
             /\ conn'[c].inbox \in {conn[c].inbox, <<>>}
  BY <1>5, <1>types DEF WorkerCrash, ConnRec
<1>6. ASSUME NEW d \in Conn, MapWorker(d) \/ Disconnect(d) \/ \E size \in WorkerSizes : EnrolWorker(d, size)
      PROVE  /\ conn'[c].worker = conn[c].worker /\ conn'[c].boot = conn[c].boot
             /\ conn'[c].thread = "none" => conn[c].thread = "none"
             /\ conn'[c].inbox = conn[c].inbox
  <2>1. PICK t \in ThreadState \ {"none"} : conn' = [conn EXCEPT ![d].thread = t]
    BY <1>6 DEF MapWorker, Disconnect, EnrolWorker, ThreadState
  <2> QED
    BY <1>types, <2>1 DEF ConnRec
<1>7. ASSUME NEW d \in Conn, ReadReport(d)
      PROVE  /\ conn'[c].worker = conn[c].worker /\ conn'[c].boot = conn[c].boot
             /\ conn'[c].thread = conn[c].thread /\ conn'[c].inbox = conn[c].inbox
  <2>1. conn' = [conn EXCEPT ![d].sent = Tail(@)]
    BY <1>7 DEF ReadReport
  <2> QED
    BY <1>types, <2>1 DEF ConnRec
<1> QED
  BY <1>1, <1>2, <1>3, <1>4, <1>5, <1>6, <1>7 DEF ControlNext, DriverStep, ThreadStep, WorkerStep

(* A connection of a worker stays one, with its boot id. *)
LEMMA KnownKept ==
  ASSUME ControlInv, [ControlNext]_planeVars, NEW c \in Conn, NEW w, Known(c, w)
  PROVE  Known(c, w)' /\ conn'[c].boot = conn[c].boot
BY ConnSteps DEF Known

(* A batch is handed out once: only a sealed batch is, and one that was     *)
(* handed out is never sealed again.                                        *)
LEMMA HandedOnce ==
  ASSUME TypeOK, ReportInv, [Next]_vars, \A x, y \in dispatches : x.batch = y.batch => x = y
  PROVE  \A x, y \in dispatches' : x.batch = y.batch => x = y
<1>1. CASE dispatches' = dispatches
  BY <1>1
<1>2. ASSUME NEW b \in BatchId, NEW w \in Worker, PrepareDispatch(b, w)
      PROVE  \A x, y \in dispatches' : x.batch = y.batch => x = y
  <2> DEFINE z == [batch |-> b, generation |-> batches[b].generation, epoch |-> batches[b].epoch,
                   worker |-> w, boot |-> workers[w].boot, attempt |-> CurrentAttempts(b)]
  <2>1. dispatches' = dispatches \cup {z} /\ batches[b].state = "sealed" /\ z.batch = b
    BY <1>2 DEF PrepareDispatch
  <2> HIDE DEF z
  <2>2. \A x \in dispatches : x.batch # b
    BY <2>1 DEF ReportInv, Executions
  <2> QED
    BY <2>1, <2>2
<1> QED
  BY <1>1, <1>2, DispatchesGrow

(* Inboxes hold what was addressed to their process. *)
LEMMA InboxStep ==
  ASSUME ControlInv, Addressed, [ControlNext]_planeVars
  PROVE  ExecutionAddressed'
<1>prepared. ASSUME DriverSend, driver.conn \in Conn
             PROVE  /\ Prepared.worker = conn[driver.conn].worker
                    /\ Prepared.boot = conn[driver.conn].boot
  <2>1. PICK x \in dispatches : /\ x.batch = Head(driver.report) /\ x.worker = driver.worker
                                /\ x.boot = BootOf(driver.conn)
    BY <1>prepared DEF DriverSend, Addressed
  <2>2. Prepared \in dispatches /\ Prepared.batch = Head(driver.report)
    BY <2>1 DEF Prepared
  <2>3. Prepared = x
    BY <2>1, <2>2 DEF Addressed
  <2>4. driver.conn # NoConn
    BY <1>prepared, ControlAssumption DEF Conn, NoConn
  <2> QED
    BY <1>prepared, <2>1, <2>3, <2>4 DEF DriverSend, Addressed, Known, BootOf
<1> SUFFICES ASSUME NEW c \in Conn, NEW i \in DOMAIN conn'[c].inbox
             PROVE  /\ conn'[c].inbox[i].worker = conn'[c].worker
                    /\ conn'[c].inbox[i].boot = conn'[c].boot
  BY DEF ExecutionAddressed
<1>types. conn[c].inbox \in Seq(dispatches)
  BY DEF ControlInv, ConnRec
<1>old. \A j \in DOMAIN conn[c].inbox : /\ conn[c].inbox[j].worker = conn[c].worker
                                        /\ conn[c].inbox[j].boot = conn[c].boot
  BY DEF Addressed, ExecutionAddressed
<1>1. CASE conn'[c].inbox = <<>>
  BY <1>1
<1>2. CASE conn'[c].inbox = conn[c].inbox /\ conn'[c].worker = conn[c].worker /\ conn'[c].boot = conn[c].boot
  BY <1>2, <1>old
<1>3. CASE /\ conn[c].inbox # <<>> /\ conn'[c].inbox = Tail(conn[c].inbox)
           /\ conn'[c].worker = conn[c].worker /\ conn'[c].boot = conn[c].boot
  <2>1. i \in 1 .. Len(conn[c].inbox) - 1 /\ conn'[c].inbox[i] = conn[c].inbox[i + 1]
    BY <1>3, <1>types
  <2>2. i + 1 \in DOMAIN conn[c].inbox
    BY <1>types, <2>1
  <2> QED
    BY <1>3, <1>old, <2>1, <2>2
<1>4. CASE /\ DriverSend /\ c = driver.conn /\ conn'[c].inbox = Append(conn[c].inbox, Prepared)
           /\ conn'[c].worker = conn[c].worker /\ conn'[c].boot = conn[c].boot
  <2>1. CASE i \in DOMAIN conn[c].inbox
    <3>1. conn'[c].inbox[i] = conn[c].inbox[i]
      BY <1>4, <1>types, <2>1
    <3> QED
      BY <1>4, <1>old, <2>1, <3>1
  <2>2. CASE i \notin DOMAIN conn[c].inbox
    <3>1. conn'[c].inbox[i] = Prepared
      BY <1>4, <1>types, <2>2
    <3> QED
      BY <1>4, <1>prepared, <3>1
  <2> QED
    BY <2>1, <2>2
<1> QED
  BY <1>1, <1>2, <1>3, <1>4, ConnSteps

(* Every step of the control plane keeps the addresses right. *)
LEMMA AddressStep ==
  ASSUME TypeOK, ControlInv, ControlInv', ReportInv, Addressed, [ControlNext]_planeVars
  PROVE  Addressed'
<1>types. /\ slot \in [Worker -> Conn \cup {NoConn}] /\ conn \in [Conn -> ConnRec] /\ driver \in DriverRec
          /\ \A c \in Conn : conn[c].thread # "none" => conn[c].worker \in Worker
  BY DEF ControlInv
<1>bound. /\ \A w \in Worker : slot[w] # NoConn => slot[w] \in Conn
          /\ driver.conn # NoConn => driver.conn \in Conn
  BY <1>types DEF DriverRec
<1>next. [Next]_vars
  BY StepImplements
<1>quiet. ASSUME UNCHANGED driver
          PROVE  /\ driver'.pc \in {"prepare", "send"} /\ driver'.conn # NoConn =>
                      Known(driver.conn, driver.worker)'
                 /\ driver'.pc = "send" =>
                      \E x \in dispatches' : /\ x.batch = Head(driver'.report) /\ x.worker = driver'.worker
                                             /\ x.boot = BootOf(driver.conn)'
  <2>1. driver.pc \in {"prepare", "send"} /\ driver.conn # NoConn =>
          Known(driver.conn, driver.worker)' /\ conn'[driver.conn].boot = conn[driver.conn].boot
    BY <1>quiet, <1>bound, KnownKept DEF Addressed
  <2>2. dispatches \subseteq dispatches'
    BY <1>next, ExecutionsKept
  <2>3. driver.pc = "send" => BootOf(driver.conn)' = BootOf(driver.conn)
    BY <1>quiet, <2>1 DEF BootOf
  <2> QED
    BY <1>quiet, <2>1, <2>2, <2>3 DEF Addressed
<1>1. \A w \in Worker : slot'[w] # NoConn => Known(slot[w], w)'
  <2> SUFFICES ASSUME NEW w \in Worker, slot'[w] # NoConn PROVE Known(slot[w], w)'
    OBVIOUS
  <2>1. CASE slot'[w] = slot[w]
    BY <1>bound, <2>1, KnownKept DEF Addressed, Known
  <2>2. ASSUME NEW c \in Conn, MapWorker(c), slot'[w] # slot[w] PROVE Known(slot[w], w)'
    <3>1. w = conn[c].worker /\ slot'[w] = c /\ conn[c].thread # "none"
      BY <1>types, <2>2 DEF MapWorker
    <3>2. Known(c, w)
      BY <3>1 DEF Known
    <3> QED
      BY <3>1, <3>2, KnownKept DEF Known
  <2>3. ASSUME NEW c \in Conn, Disconnect(c), slot'[w] # slot[w] PROVE FALSE
    BY <1>types, <2>3 DEF Disconnect
  <2>4. \/ slot' = slot \/ \E c \in Conn : MapWorker(c) \/ Disconnect(c)
    BY DEF ControlNext, DriverSubmit, FabricStep, DriverStep, ThreadStep, WorkerStep, DriverCall,
           DriverTick, DriverSkip, DriverPick, DriverDone, DriverFind, DriverRefused, DriverPrepare,
           DriverSend, ReadReport, EnrolWorker, WorkerExecute, WorkerConnect, WorkerCrash, planeVars,
           controlVars
  <2> QED
    BY <2>1, <2>2, <2>3, <2>4
<1>2. /\ driver'.pc \in {"prepare", "send"} /\ driver'.conn # NoConn => Known(driver.conn, driver.worker)'
      /\ driver'.pc = "send" =>
           \E x \in dispatches' : /\ x.batch = Head(driver'.report) /\ x.worker = driver'.worker
                                  /\ x.boot = BootOf(driver.conn)'
  <2>1. CASE UNCHANGED driver
    BY <1>quiet, <2>1
  <2>2. CASE driver'.pc \notin {"prepare", "send"}
    BY <2>2
  <2>3. CASE DriverFind
    <3>1. /\ driver'.pc = "prepare" /\ driver'.conn = slot[driver.worker] /\ driver'.worker = driver.worker
          /\ driver.worker \in Worker /\ conn' = conn
      BY <1>types, <2>3 DEF DriverFind, DriverRec, ControlInv
    <3> QED
      BY <3>1 DEF Addressed, Known
  <2>4. CASE DriverPrepare
    <3> DEFINE b == Head(driver.report)
               y == [batch |-> b, generation |-> batches[b].generation, epoch |-> batches[b].epoch,
                     worker |-> driver.worker, boot |-> workers[driver.worker].boot,
                     attempt |-> CurrentAttempts(b)]
    <3>1. y \in dispatches' /\ workers[driver.worker].boot = BootOf(driver.conn)
      BY <2>4 DEF DriverPrepare, PrepareDispatch
    <3>2. /\ driver.pc = "prepare" /\ driver'.conn = driver.conn /\ driver'.worker = driver.worker
          /\ driver'.report = driver.report /\ conn' = conn
      BY <1>types, <2>4 DEF DriverPrepare, DriverRec
    <3>3. BootOf(driver.conn)' = BootOf(driver.conn)
      BY <3>2 DEF BootOf
    <3>4. y.batch = Head(driver'.report) /\ y.worker = driver'.worker /\ y.boot = BootOf(driver.conn)'
      BY <3>1, <3>2, <3>3
    <3> HIDE DEF y
    <3> QED
      BY <3>1, <3>2, <3>4 DEF Addressed, Known
  <2>5. \/ UNCHANGED driver \/ driver'.pc \notin {"prepare", "send"} \/ DriverFind \/ DriverPrepare
    <3>1. CASE DriverSubmit \/ FabricStep \/ (DriverStep /\ ~DriverFind /\ ~DriverPrepare)
      <4>1. NextBatch.pc = "pick" /\ IdleDriver.pc = "idle"
        BY <1>types DEF NextBatch, IdleDriver, DriverRec
      <4>2. CASE DriverSubmit \/ DriverTick \/ DriverPick
        BY <1>types, <4>2 DEF DriverSubmit, DriverTick, DriverPick, DriverRec
      <4>3. CASE FabricStep
        BY <1>types, <4>3 DEF FabricStep, DriverRec
      <4>4. CASE DriverSkip \/ DriverDone \/ DriverRefused \/ DriverSend
        BY <4>1, <4>4 DEF DriverSkip, DriverDone, DriverRefused, DriverSend
      <4> QED
        BY <3>1, <4>2, <4>3, <4>4 DEF DriverStep
    <3>2. CASE ThreadStep \/ WorkerStep \/ DriverCall \/ UNCHANGED planeVars
      BY <3>2 DEF ThreadStep, WorkerStep, DriverCall, MapWorker, Disconnect, ReadReport, EnrolWorker,
                  WorkerExecute, planeVars, controlVars
    <3>3. CASE \/ \E c \in Conn, w \in Worker, boot \in BootId \ {0} : WorkerConnect(c, w, boot)
               \/ \E c \in Conn : WorkerCrash(c)
      BY <3>3 DEF WorkerConnect, WorkerCrash
    <3> QED
      BY <3>1, <3>2, <3>3 DEF ControlNext, DriverStep
  <2> QED
    BY <2>1, <2>2, <2>3, <2>4, <2>5
<1>3. \A x, y \in dispatches' : x.batch = y.batch => x = y
  BY <1>next, HandedOnce DEF Addressed
<1>4. ExecutionAddressed'
  BY InboxStep
<1> QED
  BY <1>1, <1>2, <1>3, <1>4 DEF Addressed

(* A worker process holds only executions that were authorised for its own  *)
(* worker id and boot id, for any number of workers, connections, crashes   *)
(* and restarts: the comparison of boot ids in prepare_dispatch() covers    *)
(* the gap between the lookup of the connection and the send.               *)
THEOREM ExecutionsAddressed == ControlSpec => []ExecutionAddressed
<1>1. ControlInit => Addressed
  <2> SUFFICES ASSUME ControlInit PROVE Addressed
    OBVIOUS
  <2>1. dispatches = {} /\ driver.pc = "idle" /\ \A w \in Worker : slot[w] = NoConn
    BY DEF ControlInit, Init, IdleDriver
  <2>2. \A c \in Conn : DOMAIN conn[c].inbox = {}
    BY DEF ControlInit
  <2> QED
    BY <2>1, <2>2 DEF Addressed, ExecutionAddressed
<1>2. TypeOK /\ ControlInv /\ ControlInv' /\ ReportInv /\ Addressed /\ [ControlNext]_planeVars => Addressed'
  BY AddressStep
<1>3. ControlSpec => []TypeOK /\ []ReportInv
  BY CoordinatorImplements, TypeCorrect, ReportsSound, PTL DEF ImplementsScheduler
<1>4. Addressed => ExecutionAddressed
  BY DEF Addressed
<1> QED
  BY <1>1, <1>2, <1>3, <1>4, ControlConsistent, PTL DEF ControlSpec

(* What the coordinator and its workers inherit from the scheduler without  *)
(* an assumption on the way they are used: no accepted request is lost, and *)
(* a batch leaves execution only through an authorised report.              *)
THEOREM CoordinatorKeepsRequests == ControlSpec => []NoRequestLost /\ ReportAuthority
BY CoordinatorImplements, RequestsKept, ReportsAuthorised, PTL DEF ImplementsScheduler

-----------------------------------------------------------------------------
(* The coordinator is a careful client of its scheduler: no connection can  *)
(* make it call retry() or dispatch_and_run(), so the properties that those *)
(* two calls can break hold of it for every value of the constants.         *)

(* What the calls do that the coordinator does not make. *)
LEMMA RetryMarks ==
  ASSUME TypeOK, NEW r \in RequestId, Retry(r)
  PROVE  op.pc = "idle" /\ op'.pc = "expire" /\ nextRequest' = nextRequest /\ attempts' # attempts
<1>1. attempts \in [RequestId -> Seq(AttemptRec)] /\ nextRequest' = nextRequest
  BY DEF Retry, TypeOK, idVars
<1>2. attempts'[r] = Append(attempts[r], Eligible) /\ attempts[r] \in Seq(AttemptRec)
  BY <1>1 DEF Retry
<1>3. Len(Append(attempts[r], Eligible)) # Len(attempts[r])
  BY <1>2
<1> QED
  BY <1>1, <1>2, <1>3 DEF Retry, Unlocked, Idle

(* What the coordinator's calls do while the scheduler is free. *)
LEMMA CallMarks ==
  ASSUME TypeOK, ControlInv, [ControlNext]_planeVars, op.pc = "idle"
  PROVE  \/ nextRequest' # nextRequest /\ op'.pc = "idle"
         \/ attempts' = attempts /\ op'.pc # "fail"
         \/ op' = op
<1> USE DEF requestVars, idVars, batchVars, fairVars, envVars
<1>types. nextRequest \in Nat
  BY IdsNatural DEF TypeOK
<1>1. CASE DriverSubmit
  <2>1. nextRequest' = nextRequest + 1 /\ op' = op
    BY <1>1 DEF DriverSubmit, Submit, SubmitExpired, SubmitOversized, SubmitDeferred, SubmitAdmitted, NewRequest
  <2> QED
    BY <1>types, <2>1
<1>2. ~FabricStep
  BY DEF FabricStep, OpStep, ExpireWaiting, EvictDone, FillNewDone, MakeDone, FillDone, FormDone, MergeDone,
       SplitStep, TickDone, CompleteDone, FailDone, EvictMember, Place, CompleteMember,
       FailMember, MakeForming, FormNext, MergePair
<1>3. CASE DriverTick
  BY <1>3 DEF DriverTick, Tick, Idle
<1>4. CASE DriverStep /\ ~DriverTick
  BY <1>4 DEF DriverStep, DriverSkip, DriverPick, DriverDone, DriverFind, DriverRefused, DriverSend,
       DriverPrepare, PrepareDispatch, vars
<1>5. ASSUME NEW c \in Conn, ReadReport(c)
      PROVE  attempts' = attempts /\ op'.pc # "fail"
  <2>1. \/ op' = op
        \/ BeginReport(Head(conn[c].sent).exec.batch, Head(conn[c].sent).exec.attempt,
             [r \in {q \in RequestId : Head(conn[c].sent).exec.attempt[q] # 0} |-> Head(conn[c].sent).status])
    BY <1>5 DEF ReadReport
  <2>2. op'.pc # "fail"
    BY <2>1, ReportOpen
  <2> QED
    BY <1>5, <2>2 DEF ReadReport
<1>6. CASE ThreadStep /\ ~ \E c \in Conn : ReadReport(c)
  BY <1>6 DEF ThreadStep, MapWorker, Disconnect, EnrolWorker, RegisterWorker, vars
<1>7. CASE WorkerStep \/ UNCHANGED planeVars
  BY <1>7 DEF WorkerStep, WorkerExecute, planeVars, vars
<1>8. CASE DriverCall
  BY <1>8 DEF DriverCall, RollEpoch, Cancel
<1>9. CASE \/ \E c \in Conn, w \in Worker, boot \in BootId \ {0} : WorkerConnect(c, w, boot)
           \/ \E c \in Conn : WorkerCrash(c)
  BY <1>9 DEF WorkerConnect, WorkerCrash, vars
<1> QED
  BY <1>1, <1>2, <1>3, <1>4, <1>5, <1>6, <1>7, <1>8, <1>9 DEF ControlNext

LEMMA CoordinatorUnretried ==
  ASSUME TypeOK, ControlInv, [ControlNext]_planeVars
  PROVE  Unretried
BY RetryMarks, CallMarks DEF Unretried

LEMMA CoordinatorNotFailing ==
  ASSUME TypeOK, ControlInv, NotFailing, [ControlNext]_planeVars
  PROVE  NotFailing'
<1>1. [Next]_vars
  BY StepImplements
<1>2. ASSUME NEW b \in BatchId, RunFailed(b) PROVE FALSE
  <2>1. op.pc = "idle" /\ op'.pc = "fail" /\ nextRequest' = nextRequest
    BY <1>2 DEF RunFailed, StartRun, Unlocked, Idle, idVars
  <2> QED
    BY <2>1, CallMarks
<1> QED
  BY <1>1, <1>2, FailEntry

LEMMA CoordinatorPlaced == ControlSpec => []NotFailing /\ []Placement /\ []CompletedEnded
<1>1. ControlInit => NotFailing /\ Placement /\ CompletedEnded
  <2>1. Init => NotFailing /\ CompletedEnded
    BY DEF Init, Idle, NotFailing, NoBatchRec, CompletedEnded
  <2> QED
    BY <2>1, PlacementInit DEF ControlInit
<1>2. ASSUME TypeOK, ControlInv, BatchInv, AttemptInv, ReportInv, NotFailing, Placement,
             CompletedEnded, [ControlNext]_planeVars
      PROVE  NotFailing' /\ Placement' /\ CompletedEnded'
  <2>1. [Next]_vars /\ Unretried /\ NotFailing'
    BY <1>2, StepImplements, CoordinatorUnretried, CoordinatorNotFailing
  <2>2. CarefulStep
    BY <2>1 DEF CarefulStep, Unretried
  <2> QED
    BY <1>2, <2>1, <2>2, PlacementStep, EndedStep
<1>3. ControlSpec => []TypeOK /\ []BatchInv /\ []AttemptInv /\ []ReportInv
  BY CoordinatorImplements, TypeCorrect, BatchesBooked, AttemptsConsistent, ReportsSound, PTL
     DEF ImplementsScheduler
<1> QED
  BY <1>1, <1>2, <1>3, ControlConsistent, PTL DEF ControlSpec

(* In the coordinator no request is in two batches, no attempt is executed  *)
(* twice, the waiting index and the states of the members are in step:      *)
(* what retry() and a failing in-process execution can break holds here     *)
(* whatever the clients send and however the workers crash and restart.     *)
THEOREM CoordinatorPlacesRequests ==
  ControlSpec => []OneActiveBatch /\ []ExecutedOnce /\ []IndexCoherent /\ []MemberStates
<1>1. Placement => OneActiveBatch
  BY MemberTypes DEF Placement, Layout, Disjoint, Active, OneActiveBatch
<1>2. Placement => ExecutedOnce /\ IndexCoherent
  BY DEF Placement
<1> QED
  BY <1>1, <1>2, StatesFollow, CoordinatorPlaced, PTL

(* The recorded outcome of an attempt is final in the coordinator. *)
THEOREM CoordinatorOutcomesFinal == ControlSpec => AttemptFinal
<1>1. ControlSpec => []TypeOK /\ []AttemptInv /\ [][Next]_vars
  BY CoordinatorImplements, TypeCorrect, AttemptsConsistent, PTL DEF ImplementsScheduler, Spec
<1> QED
  BY <1>1, CoordinatorPlaced, OutcomeKept, PTL DEF AttemptFinal

(* The coordinator implements the specified life of its requests: every     *)
(* step of its threads, of the workers and of the scheduler between them    *)
(* is, for every request, a step RequestLife allows.                        *)
THEOREM CoordinatorLives == ControlSpec => LivesAsSpecified
<1>1. ASSUME TypeOK, ControlInv, BatchInv, AttemptInv, NotFailing, Placement, [ControlNext]_planeVars
      PROVE  Life!LifeNext
  <2>1. [Next]_vars /\ Unretried
    BY <1>1, StepImplements, CoordinatorUnretried
  <2> QED
    BY <1>1, <2>1, EveryLife, LifeSteps DEF Placement
<1>2. ControlSpec => []TypeOK /\ []BatchInv /\ []AttemptInv
  BY CoordinatorImplements, TypeCorrect, BatchesBooked, AttemptsConsistent, PTL DEF ImplementsScheduler
<1>3. ControlInit => Life!LifeInit
  BY LifeStart DEF ControlInit
<1> QED
  BY <1>1, <1>2, <1>3, ControlConsistent, CoordinatorPlaced, PTL
     DEF ControlSpec, LivesAsSpecified, Life!LifeSpec

(* No call of the coordinator makes a batch, as split() would: batches are  *)
(* made in the course of a tick.                                            *)
LEMMA CoordinatorUncut ==
  ASSUME TypeOK, ControlInv, [ControlNext]_planeVars
  PROVE  Uncut
<1> USE DEF requestVars, idVars, batchVars, fairVars, envVars
<1> SUFFICES ASSUME NEW b \in BatchId, Split(b) PROVE FALSE
  BY DEF Uncut
<1>1. op.pc = "idle" /\ nextBatch' # nextBatch
  <2>1. nextBatch \in Nat /\ (nextBatch' = nextBatch + 1 \/ nextBatch' = nextBatch + 2) /\ Unlocked
    BY IdsNatural DEF Split, DoSplit, SplitSealed, SplitOpen, TypeOK
  <2> QED
    BY <2>1 DEF Unlocked
<1>2. ~DriverSubmit
  BY <1>1 DEF DriverSubmit, Submit, SubmitExpired, SubmitOversized, SubmitDeferred, SubmitAdmitted, NewRequest
<1>3. ~FabricStep
  BY <1>1 DEF FabricStep, OpStep, ExpireWaiting, EvictDone, FillNewDone, MakeDone, FillDone, FormDone, MergeDone,
       SplitStep, TickDone, CompleteDone, FailDone, EvictMember, Place, CompleteMember,
       FailMember, MakeForming, FormNext, MergePair
<1>4. ~DriverStep
  BY <1>1 DEF DriverStep, DriverTick, Tick, DriverSkip, DriverPick, DriverDone, DriverFind, DriverRefused,
       DriverSend, DriverPrepare, PrepareDispatch, vars
<1>5. ~ThreadStep
  BY <1>1 DEF ThreadStep, MapWorker, Disconnect, EnrolWorker, RegisterWorker, ReadReport, vars
<1>6. ~(WorkerStep \/ UNCHANGED planeVars)
  BY <1>1 DEF WorkerStep, WorkerExecute, planeVars, vars
<1>7. ~DriverCall
  BY <1>1 DEF DriverCall, RollEpoch, Cancel, DoCancel
<1>8. ~(\/ \E c \in Conn, w \in Worker, boot \in BootId \ {0} : WorkerConnect(c, w, boot)
        \/ \E c \in Conn : WorkerCrash(c))
  BY <1>1 DEF WorkerConnect, WorkerCrash, vars
<1> QED
  BY <1>2, <1>3, <1>4, <1>5, <1>6, <1>7, <1>8 DEF ControlNext

(* Every tick of the coordinator leaves behind no forming batch that has    *)
(* waited as long as it may and no queued request whose deadline has        *)
(* passed, also when its splits follow the limits of the workers.           *)
THEOREM CoordinatorMeetsDeadlines == ControlSpec => TickMeetsDeadlines
<1>1. ASSUME TypeOK, TypeOK', ControlInv, BatchInv, EntriesForming, Timely, [ControlNext]_planeVars
      PROVE  EntriesForming' /\ Timely'
  <2>1. [Next]_vars /\ Uncut
    BY <1>1, StepImplements, CoordinatorUncut
  <2> QED
    BY <1>1, <2>1, EntriesStep, TimelyStep
<1>2. ControlSpec => []TypeOK /\ []BatchInv
  BY CoordinatorImplements, TypeCorrect, BatchesBooked, PTL DEF ImplementsScheduler
<1>3. ControlInit => EntriesForming /\ Timely
  BY TimelyInit DEF ControlInit
<1> QED
  BY <1>1, <1>2, <1>3, ControlConsistent, TickEnds, PTL DEF ControlSpec, TickMeetsDeadlines

(* In the coordinator the work charged to a tenant covers its requests that *)
(* were admitted and have not ended, whatever the workers report: the only  *)
(* retries are the automatic ones of complete(), of work charged before.    *)
THEOREM CoordinatorCharges == ControlSpec => []OutstandingCovers
<1>1. ASSUME TypeOK, TypeOK', ControlInv, BatchInv, AttemptInv, NotFailing, Placement, Charged,
             [ControlNext]_planeVars
      PROVE  Charged'
  <2>1. [Next]_vars /\ Unretried
    BY <1>1, StepImplements, CoordinatorUnretried
  <2>2. ChargedRetry
    BY <2>1 DEF ChargedRetry, Unretried
  <2> QED
    BY <1>1, <2>1, <2>2, ChargeStep DEF Placement
<1>2. ControlSpec => []TypeOK /\ []BatchInv /\ []AttemptInv
  BY CoordinatorImplements, TypeCorrect, BatchesBooked, AttemptsConsistent, PTL DEF ImplementsScheduler
<1>3. ControlInit => Charged
  BY ChargeInit DEF ControlInit
<1> QED
  BY <1>1, <1>2, <1>3, ControlConsistent, CoordinatorPlaced, ChargeCovers, PTL DEF ControlSpec
=============================================================================
