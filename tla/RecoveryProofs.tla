--------------------------- MODULE RecoveryProofs ---------------------------
(***************************************************************************)
(* Crashes and the state file: what holds of the scheduler when any state  *)
(* it saved may come back in a new process.  The file is described by what *)
(* a reader of it may rely on; a save writes a file that fits, a load of   *)
(* a file that fits brings the invariants of the scheduler back, and       *)
(* between the two the steps of the scheduler keep them.                   *)
(***************************************************************************)
EXTENDS Recovery, WorkProofs

-----------------------------------------------------------------------------
(* What a file tells. *)

ImageType ==
  [epoch: Nat, nextRequest: Nat \ {0}, nextBatch: Nat \ {0}, nextGeneration: Nat \ {0},
   meta: [RequestId -> Meta], attempts: [RequestId -> Seq(AttemptRec)], served: [Tenant -> Nat],
   lineage: [BatchId -> LineageRec], requests: [RequestId -> RequestRec],
   batches: [BatchId -> BatchRec]]

(* The records of the batches are within the counter, and a request names   *)
(* a batch that exists.                                                     *)
FileBooks(f) ==
  /\ \A b \in BatchId : b >= f.nextBatch =>
       f.batches[b].state = "none" /\ f.lineage[b] = NoLineage
  /\ \A r \in RequestId : f.requests[r].batch # NoBatch =>
       f.batches[f.requests[r].batch].state # "none"

(* The ledger of attempts agrees with the requests. *)
FileLedger(f) ==
  /\ \A r \in RequestId : /\ f.requests[r].attempt = Len(f.attempts[r])
                          /\ f.requests[r].attempt = 0 <=> f.requests[r].state = "created"
                          /\ r >= f.nextRequest => f.requests[r].state = "created"
  /\ \A b \in BatchId : \A r \in Range(f.batches[b].members) : f.requests[r].state # "created"
  /\ \A r \in RequestId : f.requests[r].state \notin Terminal \cup {"created"} =>
       f.attempts[r][f.requests[r].attempt].state \notin Finished

(* As long as nothing was merged or split, a request in its first attempt   *)
(* is listed in one batch at most, and not while it waits for one.          *)
Singly ==
  (\A b \in BatchId : lineage[b] = NoLineage) =>
    \A r \in RequestId : requests[r].attempt <= 1 =>
      /\ \A a, b \in BatchId : r \in Members(a) /\ r \in Members(b) => a = b
      /\ r \in AllMembers => requests[r].state \notin WaitingState

FileSingly(f) ==
  (\A b \in BatchId : f.lineage[b] = NoLineage) =>
    \A r \in RequestId : f.requests[r].attempt <= 1 =>
      /\ \A a, b \in BatchId :
           r \in Range(f.batches[a].members) /\ r \in Range(f.batches[b].members) => a = b
      /\ \A b \in BatchId :
           r \in Range(f.batches[b].members) => f.requests[r].state \notin WaitingState

Fits(f) == f \in ImageType /\ FileBooks(f) /\ FileLedger(f) /\ FileSingly(f)

(* What the scheduler keeps, whatever it is made to do. *)
Kernel == TypeOK /\ BatchInv /\ AttemptInv /\ Singly

RecoveryInv == Kernel /\ \A f \in disk : Fits(f)

-----------------------------------------------------------------------------
(* A save. *)

(* What is written fits. *)
LEMMA ImageFits ==
  ASSUME Kernel
  PROVE  Fits(Image)
<1> DEFINE reqs == [r \in RequestId |-> [requests[r] EXCEPT !.queued = FALSE]]
           bats == [b \in BatchId |-> [batches[b] EXCEPT !.outcomes = NoOutcomes]]
<1>types. /\ requests \in [RequestId -> RequestRec] /\ batches \in [BatchId -> BatchRec]
  BY DEF Kernel, TypeOK
<1>1. \A r \in RequestId : /\ reqs[r] \in RequestRec
                           /\ reqs[r].state = requests[r].state
                           /\ reqs[r].attempt = requests[r].attempt
                           /\ reqs[r].batch = requests[r].batch
  BY <1>types DEF RequestRec
<1>2. \A b \in BatchId : /\ bats[b] \in BatchRec
                         /\ bats[b].state = batches[b].state
                         /\ bats[b].members = batches[b].members
  BY <1>types DEF BatchRec, NoOutcomes
<1>3. reqs \in [RequestId -> RequestRec] /\ bats \in [BatchId -> BatchRec]
  BY <1>1, <1>2
<1> HIDE DEF reqs, bats
<1>4. /\ Image.epoch = epoch /\ Image.nextRequest = nextRequest /\ Image.nextBatch = nextBatch
      /\ Image.nextGeneration = nextGeneration /\ Image.meta = meta
      /\ Image.attempts = attempts /\ Image.served = served /\ Image.lineage = lineage
      /\ Image.requests = reqs /\ Image.batches = bats
  BY DEF Image, reqs, bats
<1>5. Image \in ImageType
  BY <1>3 DEF Image, ImageType, Kernel, TypeOK, reqs, bats
<1>6. FileBooks(Image)
  <2>1. FreshBatches /\ KnownBatches
    BY DEF Kernel, BatchInv, Books
  <2>2. \A b \in BatchId : b >= nextBatch => bats[b].state = "none" /\ lineage[b] = NoLineage
    BY <1>2, <2>1 DEF FreshBatches
  <2>3. \A r \in RequestId : reqs[r].batch # NoBatch => bats[reqs[r].batch].state # "none"
    <3> SUFFICES ASSUME NEW r \in RequestId, reqs[r].batch # NoBatch
                 PROVE  bats[reqs[r].batch].state # "none"
      OBVIOUS
    <3>1. reqs[r].batch = requests[r].batch /\ requests[r].batch \in BatchId
      BY <1>1, <1>types DEF RequestRec
    <3> QED
      BY <1>2, <2>1, <3>1 DEF KnownBatches
  <2> QED
    BY <1>4, <2>2, <2>3 DEF FileBooks
<1>7. FileLedger(Image)
  <2>1. AttemptNumbers /\ SubmittedOnly /\ OpenAttempts
    BY DEF Kernel, AttemptInv
  <2>2. \A r \in RequestId : /\ reqs[r].attempt = Len(attempts[r])
                             /\ reqs[r].attempt = 0 <=> reqs[r].state = "created"
                             /\ r >= nextRequest => reqs[r].state = "created"
    BY <1>1, <2>1 DEF AttemptNumbers
  <2>3. \A b \in BatchId : \A r \in Range(bats[b].members) : reqs[r].state # "created"
    <3> SUFFICES ASSUME NEW b \in BatchId, NEW r \in Members(b) PROVE reqs[r].state # "created"
      BY <1>2 DEF Members
    <3>1. r \in RequestId /\ r \in AllMembers
      BY MemberTypes DEF Kernel, AllMembers
    <3> QED
      BY <1>1, <2>1, <3>1 DEF SubmittedOnly
  <2>4. \A r \in RequestId : reqs[r].state \notin Terminal \cup {"created"} =>
          attempts[r][reqs[r].attempt].state \notin Finished
    BY <1>1, <2>1 DEF OpenAttempts, Live, Open
  <2> QED
    BY <1>4, <2>2, <2>3, <2>4 DEF FileLedger
<1>8. FileSingly(Image)
  <2>1. Singly
    BY DEF Kernel
  <2> SUFFICES ASSUME \A b \in BatchId : lineage[b] = NoLineage,
                      NEW r \in RequestId, reqs[r].attempt <= 1
               PROVE  /\ \A a, b \in BatchId :
                           r \in Range(bats[a].members) /\ r \in Range(bats[b].members) => a = b
                      /\ \A b \in BatchId :
                           r \in Range(bats[b].members) => reqs[r].state \notin WaitingState
    BY <1>4 DEF FileSingly
  <2>2. /\ \A a, b \in BatchId : r \in Members(a) /\ r \in Members(b) => a = b
        /\ r \in AllMembers => requests[r].state \notin WaitingState
    BY <1>1, <2>1 DEF Singly
  <2> QED
    BY <1>1, <1>2, <2>2 DEF Members, AllMembers
<1> QED
  BY <1>5, <1>6, <1>7, <1>8 DEF Fits

-----------------------------------------------------------------------------
(* A load. *)

(* A set of ids that is not empty has a greatest element. *)
LEMMA GreatestId ==
  ASSUME NEW S, S \subseteq BatchId, S # {}
  PROVE  Max(S) \in S
<1>1. BatchBound \in Nat
  BY SchedulerAssumption DEF SchedulerAssumption
<1> DEFINE T == {BatchBound - b : b \in S}
<1>2. \A b \in S : b \in Nat /\ b <= BatchBound
  BY <1>1 DEF BatchId
<1>3. T \subseteq Nat /\ T # {}
  BY <1>1, <1>2
<1>4. PICK m \in T : \A k \in T : m <= k
  BY <1>3, LeastNumber
<1>5. PICK g \in S : m = BatchBound - g
  BY <1>4
<1>6. ASSUME NEW b \in S PROVE g >= b
  <2>1. m <= BatchBound - b
    BY <1>4
  <2>2. b \in Nat /\ g \in Nat
    BY <1>2
  <2> HIDE DEF T
  <2> QED
    BY <1>1, <1>5, <2>1, <2>2
<1> QED
  BY <1>6 DEF Max

(* The file a load reads, with what Load and NewProcess leave beside it. *)
Loads(f) == Fits(f) /\ (\A b \in BatchId : Aligned(f.lineage[b])) /\ Load(f) /\ NewProcess

(* The records of a file that fits. *)
LEMMA FileRecords ==
  ASSUME NEW f, Fits(f)
  PROVE  /\ f.requests \in [RequestId -> RequestRec] /\ f.batches \in [BatchId -> BatchRec]
         /\ f.attempts \in [RequestId -> Seq(AttemptRec)] /\ f.lineage \in [BatchId -> LineageRec]
         /\ \A b \in BatchId : Range(f.batches[b].members) \subseteq RequestId
<1>1. /\ f.requests \in [RequestId -> RequestRec] /\ f.batches \in [BatchId -> BatchRec]
      /\ f.attempts \in [RequestId -> Seq(AttemptRec)] /\ f.lineage \in [BatchId -> LineageRec]
  BY DEF Fits, ImageType
<1> QED
  BY <1>1, RangeOfSeq DEF BatchRec

(* The requests come back as they were saved, but for the flag. *)
LEMMA LoadedRequests ==
  ASSUME NEW f, Loads(f), NEW r \in RequestId
  PROVE  /\ requests'[r] \in RequestRec
         /\ requests'[r].state = f.requests[r].state
         /\ requests'[r].attempt = f.requests[r].attempt
         /\ requests'[r].batch = f.requests[r].batch
         /\ requests'[r].queued = Requeued(f, r)
         /\ waiting'[r] = IF Requeued(f, r) THEN 1 ELSE 0
<1>1. f.requests[r] \in RequestRec /\ Requeued(f, r) \in BOOLEAN
  BY FileRecords DEF Loads, Requeued
<1>2. requests'[r] = [f.requests[r] EXCEPT !.queued = Requeued(f, r)]
  BY DEF Loads, Load
<1>3. waiting'[r] = IF Requeued(f, r) THEN 1 ELSE 0
  BY DEF Loads, Load, RebuiltWaiting
<1> QED
  BY <1>1, <1>2, <1>3 DEF RequestRec

(* A seal order that was rebuilt lists each sealed batch once. *)
LEMMA LoadedOrder ==
  ASSUME NEW f, Loads(f)
  PROVE  /\ sealedOrder' \in Seq(BatchId) /\ Distinct(sealedOrder')
         /\ \A b \in Range(sealedOrder') : f.batches[b].state = "sealed"
<1> DEFINE bs == InState(f, "sealed")
<1>1. /\ sealedOrder' \in [1 .. Cardinality(bs) -> bs]
      /\ \A i, j \in DOMAIN sealedOrder' : i < j => sealedOrder'[i] < sealedOrder'[j]
  BY DEF Loads, Load, RebuiltOrders
<1>2. bs \subseteq BatchId /\ \A b \in bs : f.batches[b].state = "sealed"
  BY DEF InState
<1>3. Cardinality(bs) \in Nat
  <2>1. IsFiniteSet(BatchId)
    BY FS_Interval, SchedulerAssumption DEF BatchId, SchedulerAssumption
  <2> QED
    BY <1>2, <2>1, FS_Subset, FS_CardinalityType
<1> HIDE DEF bs
<1>4. sealedOrder' \in Seq(BatchId)
  <2>1. sealedOrder' \in [1 .. Cardinality(bs) -> BatchId]
    BY <1>1, <1>2
  <2>2. \A n \in Nat : \A s \in [1 .. n -> BatchId] : s \in Seq(BatchId)
    OBVIOUS
  <2> QED
    BY <1>3, <2>1, <2>2
<1>5. ASSUME NEW i \in DOMAIN sealedOrder' PROVE i \in Nat /\ sealedOrder'[i] \in Nat
  <2>1. i \in 1 .. Cardinality(bs) /\ sealedOrder'[i] \in bs
    BY <1>1
  <2>2. i \in Nat
    BY <1>3, <2>1
  <2> QED
    BY <1>2, <2>1, <2>2, IdsNatural
<1>6. Distinct(sealedOrder')
  <2> SUFFICES ASSUME NEW i \in DOMAIN sealedOrder', NEW j \in DOMAIN sealedOrder',
                      sealedOrder'[i] = sealedOrder'[j]
               PROVE  i = j
    BY DEF Distinct
  <2>1. ~(i < j) /\ ~(j < i)
    BY <1>1, <1>5
  <2> QED
    BY <1>5, <2>1
<1>7. \A b \in Range(sealedOrder') : f.batches[b].state = "sealed"
  BY <1>1, <1>2 DEF Range
<1> QED
  BY <1>4, <1>6, <1>7

(* The entry of a key that was rebuilt names a forming batch of the key. *)
LEMMA LoadedEntries ==
  ASSUME NEW f, Loads(f), NEW k \in Key
  PROVE  /\ formingByKey'[k] \in BatchId \cup {NoBatch}
         /\ formingByKey'[k] # NoBatch =>
              /\ f.batches[formingByKey'[k]].state = "forming"
              /\ f.batches[formingByKey'[k]].key = k
<1> DEFINE bs == {b \in InState(f, "forming") : f.batches[b].key = k}
<1>1. formingByKey'[k] = IF bs = {} THEN NoBatch ELSE Max(bs)
  BY DEF Loads, Load, RebuiltForming
<1>2. bs \subseteq BatchId
  BY DEF InState
<1>3. bs # {} => Max(bs) \in bs
  BY <1>2, GreatestId
<1> QED
  BY <1>1, <1>2, <1>3 DEF InState

(* The lineage of a batch whose two numbers agree is read as a lineage, and *)
(* as none only if it was none.                                             *)
LEMMA LineageRead ==
  ASSUME NEW l \in LineageRec, Aligned(l)
  PROVE  /\ ReadLineage(l) \in LineageRec
         /\ ReadLineage(l) = NoLineage <=> l = NoLineage
<1>1. CASE l.parents = <<>>
  BY <1>1 DEF ReadLineage
<1>2. CASE l.parents # <<>>
  <2>1. l.parents \in Seq(BatchId) /\ l.children \in Seq(BatchId)
    BY DEF LineageRec
  <2>2. Len(l.children) \in BatchId /\ Tail(l.parents) \in Seq(BatchId)
    BY <1>2, <2>1 DEF Aligned
  <2>3. Append(Tail(l.parents), Len(l.children)) \in Seq(BatchId)
    BY <2>2
  <2>4. Append(Tail(l.parents), Len(l.children)) # <<>>
    BY <2>2
  <2>5. ReadLineage(l) = [l EXCEPT !.parents = Append(Tail(l.parents), Len(l.children))]
    BY <1>2 DEF ReadLineage
  <2> DEFINE p == Append(Tail(l.parents), Len(l.children))
  <2> HIDE DEF p
  <2>6. ReadLineage(l) \in LineageRec /\ ReadLineage(l).parents = p
    BY <2>1, <2>3, <2>5 DEF LineageRec, p
  <2> QED
    BY <1>2, <2>4, <2>6 DEF NoLineage, p
<1> QED
  BY <1>1, <1>2

(* A load makes well formed records of well formed ones. *)
LEMMA LoadTypes ==
  ASSUME TypeOK, NEW f, Loads(f)
  PROVE  TypeOK'
<1>1. requests' \in [RequestId -> RequestRec]
  <2>1. requests' = [r \in RequestId |-> [f.requests[r] EXCEPT !.queued = Requeued(f, r)]]
    BY DEF Loads, Load
  <2>2. \A r \in RequestId : requests'[r] \in RequestRec
    BY LoadedRequests
  <2> QED
    BY <2>1, <2>2
<1>2. waiting' \in [RequestId -> Nat]
  BY DEF Loads, Load, RebuiltWaiting
<1>3. lineage' \in [BatchId -> LineageRec]
  <2>1. \A b \in BatchId : f.lineage[b] \in LineageRec /\ Aligned(f.lineage[b])
    BY FileRecords DEF Loads
  <2>2. lineage' = [b \in BatchId |-> ReadLineage(f.lineage[b])]
    BY DEF Loads, Load
  <2> QED
    BY <2>1, <2>2, LineageRead
<1>4. formingByKey' \in [Key -> BatchId \cup {NoBatch}]
  <2>1. formingByKey' = RebuiltForming(f)
    BY DEF Loads, Load
  <2> QED
    BY <2>1, LoadedEntries DEF RebuiltForming
<1>5. /\ epoch' \in Nat /\ nextRequest' \in Nat \ {0} /\ nextBatch' \in Nat \ {0}
      /\ nextGeneration' \in Nat \ {0} /\ meta' \in [RequestId -> Meta]
      /\ attempts' \in [RequestId -> Seq(AttemptRec)] /\ batches' \in [BatchId -> BatchRec]
      /\ served' \in [Tenant -> Nat]
  BY DEF Loads, Load, Fits, ImageType
<1>6. workers' \in [WorkerId -> [live: BOOLEAN, boot: BootId, size: Nat]]
  BY IdsNatural DEF Loads, NewProcess
<1>7. /\ outstanding' \in [Tenant -> Nat] /\ merged' \in Nat /\ dispatches' \subseteq Execution
      /\ clock' \in Nat
  BY DEF Loads, NewProcess, TypeOK
<1>8. OpOK'
  <2>1. op' = Idle
    BY DEF Loads, NewProcess
  <2>2. Idle.pc = "idle"
    BY DEF Idle
  <2> QED
    BY <2>1, <2>2, IdleType DEF OpOK
<1>9. sealedOrder' \in Seq(BatchId)
  BY LoadedOrder
<1> QED
  BY <1>1, <1>2, <1>3, <1>4, <1>5, <1>6, <1>7, <1>8, <1>9 DEF TypeOK

(* The books of the batches are in order again: the indexes are rebuilt     *)
(* from the states of the batches.                                          *)
LEMMA LoadBooks ==
  ASSUME NEW f, Loads(f)
  PROVE  BatchInv'
<1>1. batches' = f.batches /\ nextBatch' = f.nextBatch /\ op' = Idle /\ FileBooks(f)
  BY DEF Loads, Load, NewProcess, Fits
<1>2. FreshBatches'
  <2> SUFFICES ASSUME NEW b \in BatchId, b >= f.nextBatch
               PROVE  f.batches[b].state = "none" /\ lineage'[b] = NoLineage
    BY <1>1 DEF FreshBatches
  <2>1. f.batches[b].state = "none" /\ f.lineage[b] = NoLineage
    BY <1>1 DEF FileBooks
  <2>2. lineage'[b] = ReadLineage(f.lineage[b])
    BY DEF Loads, Load
  <2> QED
    BY <2>1, <2>2 DEF ReadLineage, NoLineage
<1>3. SealOrder'
  BY <1>1, LoadedOrder DEF SealOrder
<1>4. KeyEntries'
  BY <1>1, LoadedEntries DEF KeyEntries, Fillable
<1>5. KnownBatches'
  BY <1>1, LoadedRequests DEF KnownBatches, FileBooks
<1>6. OpBatches'
  BY <1>1 DEF OpBatches, Idle
<1> QED
  BY <1>2, <1>3, <1>4, <1>5, <1>6 DEF BatchInv, Books

(* So is the ledger of attempts. *)
LEMMA LoadLedger ==
  ASSUME NEW f, Loads(f)
  PROVE  AttemptInv'
<1>1. /\ batches' = f.batches /\ attempts' = f.attempts /\ nextRequest' = f.nextRequest
      /\ op' = Idle /\ FileLedger(f)
  BY DEF Loads, Load, NewProcess, Fits
<1>2. AttemptNumbers'
  BY <1>1, LoadedRequests DEF AttemptNumbers, FileLedger
<1>3. SubmittedOnly'
  <2>1. ASSUME NEW r \in AllMembers' PROVE requests'[r].state # "created"
    <3>1. PICK b \in BatchId : r \in Range(f.batches[b].members)
      BY <1>1, <2>1 DEF AllMembers, Members
    <3>2. r \in RequestId
      BY <3>1, FileRecords DEF Loads
    <3> QED
      BY <1>1, <3>1, <3>2, LoadedRequests DEF FileLedger
  <2>2. ASSUME NEW r \in RequestId, waiting'[r] > 0 PROVE requests'[r].state # "created"
    BY <2>2, LoadedRequests DEF Requeued, WaitingState
  <2> QED
    BY <1>1, <2>1, <2>2 DEF SubmittedOnly, Idle
<1>4. OpenAttempts'
  <2>1. ASSUME NEW r \in RequestId, Live(r)' PROVE Open(r)'
    BY <1>1, <2>1, LoadedRequests DEF Live, Open, FileLedger
  <2> QED
    BY <1>1, <2>1 DEF OpenAttempts, Idle
<1> QED
  BY <1>2, <1>3, <1>4 DEF AttemptInv

LEMMA LoadSingly ==
  ASSUME NEW f, Loads(f)
  PROVE  Singly'
<1>1. batches' = f.batches /\ FileSingly(f)
  BY DEF Loads, Load, Fits
<1>2. \A b \in BatchId : lineage'[b] = NoLineage <=> f.lineage[b] = NoLineage
  BY FileRecords, LineageRead DEF Loads, Load
<1> QED
  BY <1>1, <1>2, LoadedRequests DEF Singly, FileSingly, AllMembers, Members

LEMMA LoadKernel ==
  ASSUME TypeOK, NEW f, Loads(f)
  PROVE  Kernel'
BY LoadTypes, LoadBooks, LoadLedger, LoadSingly DEF Kernel

-----------------------------------------------------------------------------
(* The steps of the scheduler. *)

Undivided == \A b \in BatchId : lineage[b] = NoLineage

LEMMA LongerFilled ==
  ASSUME NEW S, NEW s \in Seq(S), NEW x \in S
  PROVE  Append(s, x) # <<>>
<1>1. Len(Append(s, x)) = Len(s) + 1 /\ Len(s) \in Nat
  OBVIOUS
<1>2. Len(<<>>) = 0
  OBVIOUS
<1>3. Len(Append(s, x)) # Len(<<>>)
  BY <1>1, <1>2
<1> QED
  BY ONLY <1>3

(* What was merged or split stays recorded: a step after which nothing is   *)
(* recorded is no merge and no split, and nothing was recorded before it.   *)
LEMMA UndividedOrigin ==
  ASSUME TypeOK, BatchInv, [Next]_vars, Undivided'
  PROVE  /\ Undivided
         /\ \A a, b \in BatchId : ~DoMerge(a, b)
         /\ \A b \in BatchId : ~DoSplit(b)
<1>types. lineage \in [BatchId -> LineageRec]
  BY DEF TypeOK
<1>none. \A b \in BatchId : lineage'[b].parents = <<>>
  BY DEF Undivided, NoLineage
<1>1. ASSUME NEW a \in BatchId, NEW b \in BatchId, DoMerge(a, b) PROVE FALSE
  <2> DEFINE p == lineage[a].parents \o lineage[b].parents
  <2>1. lineage[a].parents \in Seq(BatchId) /\ lineage[b].parents \in Seq(BatchId)
    BY <1>types DEF LineageRec
  <2>2. p \in Seq(BatchId)
    BY <2>1
  <2>3. Append(p, b) # <<>>
    BY <2>2, LongerFilled
  <2>4. lineage' = [lineage EXCEPT
          ![a] = [parents |-> Append(p, b), children |-> @.children \o lineage[b].children]]
    BY <1>1 DEF DoMerge
  <2> HIDE DEF p
  <2> QED
    BY <1>none, <1>types, <2>3, <2>4
<1>2. ASSUME NEW b \in BatchId, DoSplit(b) PROVE FALSE
  <2>1. CASE SplitSealed(b)
    <3> DEFINE l == [lineage EXCEPT
                       ![b].children = @ \o <<nextBatch, nextBatch + 1>>,
                       ![nextBatch]  = [parents |-> <<b, nextBatch + 1>>, children |-> <<>>]]
    <3>1. /\ nextBatch + 1 \in BatchId
          /\ lineage' = [l EXCEPT ![nextBatch + 1] = [parents |-> <<b>>, children |-> <<nextBatch>>]]
      BY <2>1 DEF SplitSealed
    <3>2. DOMAIN l = BatchId
      BY <1>types
    <3> HIDE DEF l
    <3>3. lineage'[nextBatch + 1].parents = <<b>>
      BY <3>1, <3>2
    <3> QED
      BY <1>none, <3>1, <3>3
  <2>2. CASE SplitOpen(b)
    <3>1. nextBatch \in BatchId /\ lineage'[nextBatch].parents = <<b>>
      BY <1>types, <2>2 DEF SplitOpen
    <3>2. lineage'[nextBatch].parents # <<>>
      BY <3>1
    <3> QED
      BY <1>none, <3>1, <3>2
  <2> QED
    BY <1>2, <2>1, <2>2 DEF DoSplit
<1> USE DEF requestVars, idVars, batchVars
<1>3. ASSUME Submit \/ Still \/ ExpireWaiting \/ \E r \in RequestId : Retry(r)
      PROVE  lineage' = lineage
  BY <1>3, SubmitRequests DEF Still, Retry, ExpireWaiting
<1>4. ASSUME FillNewDone \/ CompleteDone \/ \E r \in RequestId : CompleteMember(r) \/ FailMember(r)
      PROVE  lineage' = lineage
  BY <1>4 DEF FillNewDone, CompleteDone, CompleteMember, FailMember, ApplyOutcome
<1>5. ASSUME \E r \in RequestId : DoCancel(r) \/ Place(r) PROVE lineage' = lineage
  BY <1>5 DEF DoCancel, Place
<1>6. ASSUME \/ \E k \in Key : MakeForming(k)
             \/ \E b \in BatchId : StartRun(b) \/ \E w \in Worker : PrepareDispatch(b, w)
      PROVE  lineage' = lineage
  BY <1>6 DEF MakeForming, StartRun, PrepareDispatch
<1>7. lineage' = lineage
  BY <1>1, <1>2, <1>3, <1>4, <1>5, <1>6, StepKinds
<1> QED
  BY <1>1, <1>2, <1>7 DEF Undivided

(* Where request q is listed, and whether it waits, tells on a step. *)
SinglyAt(q) ==
  requests[q].attempt <= 1 =>
    /\ \A a, b \in BatchId : q \in Members(a) /\ q \in Members(b) => a = b
    /\ q \in AllMembers => requests[q].state \notin WaitingState

(* A step that lists the request nowhere anew and queues it only if it is   *)
(* queued already. *)
LEMMA QuietSingly ==
  ASSUME NEW q, SinglyAt(q),
         \A b \in BatchId : q \in Members(b)' => q \in Members(b),
         requests'[q].attempt <= 1 =>
           /\ requests[q].attempt <= 1
           /\ requests'[q].state \in WaitingState => requests[q].state \in WaitingState
  PROVE  SinglyAt(q)'
BY DEF SinglyAt, AllMembers

(* Every step keeps a request in its first attempt in one place.  Only a    *)
(* fill lists a request anew, and takes it from where it waits; only a      *)
(* retry queues it again, for another attempt.                              *)
LEMMA SinglyStep ==
  ASSUME TypeOK, BatchInv, AttemptInv, Singly, [Next]_vars
  PROVE  Singly'
<1>types. requests \in [RequestId -> RequestRec] /\ batches \in [BatchId -> BatchRec]
  BY DEF TypeOK
<1> SUFFICES ASSUME Undivided', NEW q \in RequestId PROVE SinglyAt(q)'
  BY DEF Singly, SinglyAt, Undivided
<1>origin. /\ \A a, b \in BatchId : ~DoMerge(a, b)
           /\ \A b \in BatchId : ~DoSplit(b)
           /\ SinglyAt(q)
  BY UndividedOrigin DEF Singly, SinglyAt, Undivided
<1>known. /\ q \in AllMembers => requests[q].state # "created"
          /\ requests[q].state # "created" => requests[q].attempt # 0 /\ requests[q].attempt \in Nat
  BY <1>types DEF AttemptInv, SubmittedOnly, AttemptNumbers, RequestRec
<1>kept. ASSUME \A b \in BatchId : SameMembers(b)
         PROVE  \A b \in BatchId : q \in Members(b)' => q \in Members(b)
  BY <1>kept DEF SameMembers, Members
<1>same. ASSUME requests'[q] = requests[q] \/ (requests'[q].state \notin WaitingState
                                               /\ requests'[q].attempt = requests[q].attempt)
         PROVE  requests'[q].attempt <= 1 =>
                  /\ requests[q].attempt <= 1
                  /\ requests'[q].state \in WaitingState => requests[q].state \in WaitingState
  BY <1>same
<1>renewed. ASSUME requests[q].state # "created", requests'[q].attempt = requests[q].attempt + 1
            PROVE  SinglyAt(q)'
  <2>1. ~(requests'[q].attempt <= 1)
    BY <1>known, <1>renewed
  <2> QED
    BY <2>1 DEF SinglyAt
<1>requeued. ASSUME NEW r \in RequestId, Requeue(r), requests[r].state # "created", batches' = batches \/ BatchesKept
             PROVE  SinglyAt(q)'
  <2>1. \A b \in BatchId : SameMembers(b)
    BY <1>requeued DEF BatchesKept, SameMembers
  <2>2. CASE q = r
    BY <1>renewed, <1>requeued, <2>2, RetryRequests
  <2>3. CASE q # r
    BY <1>kept, <1>origin, <1>requeued, <1>same, <2>1, <2>3, QuietSingly, RetryRequests
  <2> QED
    BY <2>2, <2>3
<1>1. CASE Submit
  <2>1. batches' = batches /\ \A r \in RequestId \ {nextRequest} : requests'[r] = requests[r]
    BY <1>1, SubmitRequests DEF batchVars
  <2>2. \A b \in BatchId : SameMembers(b)
    BY <2>1 DEF SameMembers
  <2>3. CASE q = nextRequest
    <3>1. q >= nextRequest
      BY <2>3, IdsNatural
    <3>2. q \notin AllMembers
      BY <1>known, <3>1 DEF AttemptInv, AttemptNumbers
    <3> QED
      BY <1>kept, <2>2, <3>2 DEF SinglyAt, AllMembers
  <2>4. CASE q # nextRequest
    BY <1>kept, <1>origin, <1>same, <2>1, <2>2, <2>4, QuietSingly
  <2> QED
    BY <2>3, <2>4
<1>2. CASE Still
  <2>1. requests' = requests /\ \A b \in BatchId : SameMembers(b)
    BY <1>2 DEF Still, requestVars, batchVars, SameMembers
  <2> QED
    BY <1>kept, <1>origin, <1>same, <2>1, QuietSingly
<1>3. CASE ExpireWaiting
  <2>1. \A b \in BatchId : SameMembers(b)
    BY <1>3, ExpireRequests DEF batchVars, SameMembers
  <2>2. requests'[q] = requests[q] \/ (requests'[q].state \notin WaitingState
                                       /\ requests'[q].attempt = requests[q].attempt)
    BY <1>3, ExpireRequests DEF WaitingState
  <2> QED
    BY <1>kept, <1>origin, <1>same, <2>1, <2>2, QuietSingly
<1>4. CASE FillNewDone \/ CompleteDone
  <2>1. requests' = requests /\ \A b \in BatchId : SameMembers(b)
    BY <1>4, FillNewFields, DoneFields DEF FillNewDone, CompleteDone, requestVars, BatchesKept
  <2> QED
    BY <1>kept, <1>origin, <1>same, <2>1, QuietSingly
<1>5. ASSUME NEW r \in RequestId, DoCancel(r) PROVE SinglyAt(q)'
  <2>1. \A b \in BatchId : q \in Members(b)' => q \in Members(b)
    <3> SUFFICES ASSUME NEW b \in BatchId PROVE Range(batches'[b].members) \subseteq Range(batches[b].members)
      BY DEF Members
    <3>1. Range(Without(batches[b].members, r)) \subseteq Range(batches[b].members)
      BY WithoutRange, MemberTypes
    <3> QED
      BY <1>5, <3>1, CancelFields DEF SameMembers
  <2>2. requests'[q] = requests[q] \/ (requests'[q].state \notin WaitingState
                                       /\ requests'[q].attempt = requests[q].attempt)
    BY <1>5, CancelRequests DEF WaitingState
  <2> QED
    BY <1>origin, <1>same, <2>1, <2>2, QuietSingly
<1>6. ASSUME NEW k \in Key, MakeForming(k) PROVE SinglyAt(q)'
  <2>1. \A b \in BatchId : q \in Members(b)' => q \in Members(b)
    <3>1. q \notin Range(<<>>)
      BY DEF Range
    <3> QED
      BY <1>6, <3>1, MakeFields DEF Members
  <2>2. requests' = requests
    BY <1>6 DEF MakeForming, requestVars
  <2> QED
    BY <1>origin, <1>same, <2>1, <2>2, QuietSingly
<1>7. ASSUME NEW r \in RequestId, Place(r) PROVE SinglyAt(q)'
  <2> PICK c \in BatchId : c = op.cur
    BY <1>7, PlaceFields
  <2>1. /\ \A b \in BatchId \ {c} : SameMembers(b)
        /\ \A p : p \in Members(c)' <=> p \in Members(c) \/ p = r
    <3>1. /\ \A b \in BatchId \ {c} : SameMembers(b)
          /\ batches'[c].members = Append(batches[c].members, r)
      BY <1>7, PlaceFields
    <3>2. batches[c].members \in Seq(RequestId)
      BY <3>1, MemberTypes
    <3>3. Range(Append(batches[c].members, r)) = Range(batches[c].members) \cup {r}
      BY <3>2, AppendRange
    <3> QED
      BY <3>1, <3>3 DEF Members
  <2>2. CASE q = r
    <3>1. /\ requests[q].state \in WaitingState /\ requests'[q].state = "reserved"
          /\ requests'[q].attempt = requests[q].attempt
      BY <1>7, <2>2, PlaceRequests
    <3>2. requests'[q].attempt <= 1 => \A b \in BatchId : q \notin Members(b)
      BY <1>origin, <3>1 DEF SinglyAt, AllMembers
    <3>3. requests'[q].attempt <= 1 => \A b \in BatchId : q \in Members(b)' => b = c
      BY <2>1, <3>2 DEF Members, SameMembers
    <3> QED
      BY <3>1, <3>3 DEF SinglyAt, WaitingState
  <2>3. CASE q # r
    <3>1. requests'[q] = requests[q]
      BY <1>7, <2>3, PlaceRequests
    <3>2. \A b \in BatchId : q \in Members(b)' => q \in Members(b)
      <4> SUFFICES ASSUME NEW b \in BatchId PROVE q \in Members(b)' => q \in Members(b)
        OBVIOUS
      <4>1. CASE b = c
        BY <2>1, <2>3, <4>1
      <4>2. CASE b # c
        BY <2>1, <4>2 DEF Members, SameMembers
      <4> QED
        BY <4>1, <4>2
    <3> QED
      BY <1>origin, <1>same, <3>1, <3>2, QuietSingly
  <2> QED
    BY <2>2, <2>3
<1>8. ASSUME NEW b \in BatchId, DoSeal(b) PROVE SinglyAt(q)'
  <2>1. \A c \in BatchId : SameMembers(c)
    BY <1>8, SealFields
  <2>2. requests'[q] = requests[q] \/ (requests'[q].state \notin WaitingState
                                       /\ requests'[q].attempt = requests[q].attempt)
    <3>1. CASE requests'[q] = [requests[q] EXCEPT !.state = "batched"]
      <4>1. requests'[q].state = "batched" /\ requests'[q].attempt = requests[q].attempt
        BY <1>types, <3>1 DEF RequestRec
      <4> QED
        BY <4>1 DEF WaitingState
    <3> QED
      BY <1>8, <3>1, SealRequests
  <2> QED
    BY <1>kept, <1>origin, <1>same, <2>1, <2>2, QuietSingly
<1>9. ASSUME NEW r \in RequestId, Retry(r) PROVE SinglyAt(q)'
  <2>1. Requeue(r) /\ requests[r].state # "created" /\ batches' = batches
    BY <1>9, SchedulerAssumption DEF Retry, SchedulerAssumption, batchVars
  <2> QED
    BY <1>requeued, <2>1
<1>10. ASSUME NEW r \in RequestId, CompleteMember(r) \/ FailMember(r) PROVE SinglyAt(q)'
  <2>1. PICK status : ApplyOutcome(r, status)
    BY <1>10 DEF CompleteMember, FailMember
  <2>2. BatchesKept
    BY <2>1, OutcomeFields
  <2>3. requests[r].state # "created"
    BY <1>10 DEF CompleteMember, FailMember, AttemptInv, SubmittedOnly
  <2>4. CASE Requeue(r)
    BY <1>requeued, <2>2, <2>3, <2>4
  <2>5. CASE ~Requeue(r)
    <3>1. requests'[q] = requests[q] \/ (requests'[q].state \notin WaitingState
                                         /\ requests'[q].attempt = requests[q].attempt)
      BY <2>1, <2>5, OutcomeRequests DEF WaitingState
    <3>2. \A b \in BatchId : SameMembers(b)
      BY <2>2 DEF BatchesKept
    <3> QED
      BY <1>kept, <1>origin, <1>same, <3>1, <3>2, QuietSingly
  <2> QED
    BY <2>4, <2>5
<1>11. ASSUME NEW b \in BatchId, NEW state \in HandedOut, Advance(b, state),
              \A c \in BatchId : SameMembers(c)
       PROVE  SinglyAt(q)'
  <2>1. requests'[q] = requests[q] \/ (requests'[q].state \notin WaitingState
                                       /\ requests'[q].attempt = requests[q].attempt)
    BY <1>11, AdvanceRequests DEF WaitingState, HandedOut
  <2> QED
    BY <1>11, <1>kept, <1>origin, <1>same, <2>1, QuietSingly
<1>12. ASSUME NEW b \in BatchId, StartRun(b) PROVE SinglyAt(q)'
  BY <1>11, <1>12, RunFields DEF StartRun, Handed, HandedOut
<1>13. ASSUME NEW b \in BatchId, NEW w \in Worker, PrepareDispatch(b, w) PROVE SinglyAt(q)'
  BY <1>11, <1>13, DispatchFields DEF PrepareDispatch, Handed, HandedOut
<1> QED
  BY <1>origin, <1>1, <1>2, <1>3, <1>4, <1>5, <1>6, <1>7, <1>8, <1>9, <1>10, <1>12, <1>13, StepKinds

-----------------------------------------------------------------------------
(* The first process, and one that starts empty. *)

(* To start empty is to read a file that says nothing. *)
Blank ==
  [epoch |-> 1, nextRequest |-> 1, nextBatch |-> 1, nextGeneration |-> 1,
   meta |-> [r \in RequestId |-> CHOOSE m \in Offered : TRUE],
   attempts |-> [r \in RequestId |-> <<>>], served |-> [t \in Tenant |-> 0],
   lineage |-> [b \in BatchId |-> NoLineage],
   requests |-> [r \in RequestId |->
     [state |-> "created", attempt |-> 0, batch |-> NoBatch, queued |-> FALSE, submitted |-> 0]],
   batches |-> [b \in BatchId |-> NoBatchRec]]

LEMMA BlankFields ==
  /\ Blank.epoch = 1 /\ Blank.nextRequest = 1 /\ Blank.nextBatch = 1 /\ Blank.nextGeneration = 1
  /\ Blank.meta = [r \in RequestId |-> CHOOSE m \in Offered : TRUE]
  /\ Blank.attempts = [r \in RequestId |-> <<>>] /\ Blank.served = [t \in Tenant |-> 0]
  /\ Blank.lineage = [b \in BatchId |-> NoLineage] /\ Blank.batches = [b \in BatchId |-> NoBatchRec]
  /\ Blank.requests = [r \in RequestId |->
       [state |-> "created", attempt |-> 0, batch |-> NoBatch, queued |-> FALSE, submitted |-> 0]]
BY DEF Blank

LEMMA BlankFits == Fits(Blank)
<1>1. /\ \A r \in RequestId : /\ Blank.requests[r] \in RequestRec
                              /\ Blank.requests[r].state = "created"
                              /\ Blank.requests[r].attempt = 0 /\ Blank.requests[r].batch = NoBatch
                              /\ Blank.attempts[r] = <<>>
      /\ \A b \in BatchId : /\ Blank.batches[b] = NoBatchRec /\ Blank.lineage[b] = NoLineage
                            /\ Range(Blank.batches[b].members) = {}
  BY BlankFields DEF RequestRec, RequestState, NoBatch, NoBatchRec, Range
<1>2. Blank \in ImageType
  <2>1. (CHOOSE m \in Offered : TRUE) \in Meta
    BY SchedulerAssumption DEF SchedulerAssumption
  <2>2. Blank.meta \in [RequestId -> Meta]
    BY <2>1, BlankFields
  <2>3. Blank.requests \in [RequestId -> RequestRec]
    BY <1>1, BlankFields
  <2>4. Blank.batches \in [BatchId -> BatchRec]
    BY BlankFields, NoBatchRecType
  <2>5. Blank.lineage \in [BatchId -> LineageRec]
    BY BlankFields DEF LineageRec, NoLineage
  <2>6. Blank.attempts \in [RequestId -> Seq(AttemptRec)] /\ Blank.served \in [Tenant -> Nat]
    BY BlankFields
  <2> DEFINE m == Blank.meta
             a == Blank.attempts
             s == Blank.served
             l == Blank.lineage
             q == Blank.requests
             c == Blank.batches
  <2>7. Blank = [epoch |-> 1, nextRequest |-> 1, nextBatch |-> 1, nextGeneration |-> 1, meta |-> m,
                 attempts |-> a, served |-> s, lineage |-> l, requests |-> q, batches |-> c]
    BY DEF Blank
  <2> HIDE DEF m, a, s, l, q, c
  <2>8. /\ m \in [RequestId -> Meta] /\ a \in [RequestId -> Seq(AttemptRec)]
        /\ s \in [Tenant -> Nat] /\ l \in [BatchId -> LineageRec]
        /\ q \in [RequestId -> RequestRec] /\ c \in [BatchId -> BatchRec]
    BY <2>2, <2>3, <2>4, <2>5, <2>6 DEF m, a, s, l, q, c
  <2> QED
    BY <2>7, <2>8 DEF ImageType
<1>3. FileBooks(Blank)
  <2>1. NoBatchRec.state = "none"
    BY DEF NoBatchRec
  <2> QED
    BY <1>1, <2>1 DEF FileBooks
<1>4. FileLedger(Blank)
  BY <1>1 DEF FileLedger
<1>5. FileSingly(Blank)
  BY <1>1 DEF FileSingly
<1> QED
  BY <1>2, <1>3, <1>4, <1>5 DEF Fits

LEMMA EmptyLoads ==
  ASSUME RestartEmpty
  PROVE  Loads(Blank)
<1>1. \A b \in BatchId : Blank.lineage[b] = NoLineage /\ Blank.batches[b].state = "none"
  BY BlankFields DEF NoBatchRec
<1>2. \A r \in RequestId : ~Requeued(Blank, r)
  BY BlankFields DEF Requeued, WaitingState
<1>3. requests' = [r \in RequestId |-> [Blank.requests[r] EXCEPT !.queued = Requeued(Blank, r)]]
  <2> DEFINE new == [state |-> "created", attempt |-> 0, batch |-> NoBatch, queued |-> FALSE, submitted |-> 0]
  <2>1. requests' = [r \in RequestId |-> new] /\ Blank.requests = [r \in RequestId |-> new]
    BY BlankFields DEF RestartEmpty
  <2>2. \A r \in RequestId : Requeued(Blank, r) = FALSE
    BY <1>2 DEF Requeued
  <2>3. [new EXCEPT !.queued = FALSE] = new
    <3>1. new \in RequestRec /\ new.queued = FALSE
      BY DEF RequestRec, RequestState, NoBatch
    <3> HIDE DEF new
    <3> QED
      BY <3>1 DEF RequestRec
  <2> HIDE DEF new
  <2>4. ASSUME NEW r \in RequestId
        PROVE  [Blank.requests[r] EXCEPT !.queued = Requeued(Blank, r)] = new
    <3>1. Blank.requests[r] = new /\ Requeued(Blank, r) = FALSE
      BY <2>1, <2>2
    <3> QED
      BY ONLY <2>3, <3>1
  <2> QED
    BY <2>1, <2>4
<1>4. waiting' = RebuiltWaiting(Blank)
  BY <1>2 DEF RestartEmpty, RebuiltWaiting
<1>5. InState(Blank, "forming") = {} /\ InState(Blank, "sealed") = {}
  BY <1>1 DEF InState
<1>6. formingByKey' = RebuiltForming(Blank)
  BY <1>5 DEF RestartEmpty, RebuiltForming
<1>7. sealedOrder' \in RebuiltOrders(Blank)
  <2>1. sealedOrder' = <<>> /\ Cardinality({}) = 0
    BY FS_EmptySet DEF RestartEmpty
  <2>2. <<>> \in [1 .. 0 -> {}] /\ DOMAIN <<>> = {}
    OBVIOUS
  <2> QED
    BY <1>5, <2>1, <2>2 DEF RebuiltOrders
<1>8. lineage' = [b \in BatchId |-> ReadLineage(Blank.lineage[b])]
  BY <1>1 DEF RestartEmpty, ReadLineage, NoLineage
<1>9. \A b \in BatchId : Aligned(Blank.lineage[b])
  BY <1>1 DEF Aligned, NoLineage
<1>10. Load(Blank)
  BY <1>3, <1>4, <1>6, <1>7, <1>8, BlankFields DEF RestartEmpty, Load
<1> QED
  BY <1>9, <1>10, BlankFits DEF Loads, RestartEmpty

LEMMA RestartLoads ==
  ASSUME \A f \in disk : Fits(f), Restart \/ RestartEmpty
  PROVE  \E f : (f \in disk \/ f = Blank) /\ Loads(f)
<1>1. CASE Restart
  <2>1. PICK f \in disk : Accepts(f) /\ Load(f)
    BY <1>1 DEF Restart
  <2>2. \A b \in BatchId : Aligned(f.lineage[b])
    BY <2>1 DEF Accepts
  <2> QED
    BY <1>1, <2>1, <2>2 DEF Restart, Loads
<1>2. CASE RestartEmpty
  BY <1>2, EmptyLoads
<1> QED
  BY <1>1, <1>2

-----------------------------------------------------------------------------
(* What holds across crashes. *)

(* The books, the ledger and the types survive: the steps of the scheduler  *)
(* keep them and a save writes them into the file, from which a new process *)
(* takes them.                                                              *)
LEMMA RecoveryStep ==
  ASSUME RecoveryInv, [RecoveryNext]_allVars
  PROVE  RecoveryInv'
<1>fits. \A f \in disk : Fits(f)
  BY DEF RecoveryInv
<1>kernel. Kernel
  BY DEF RecoveryInv
<1>call. ASSUME [Next]_vars PROVE Kernel'
  <2>1. TypeOK'
    BY <1>call, <1>kernel, TypeStep DEF Kernel
  <2>2. BatchInv'
    BY <1>call, <1>kernel, <2>1, BatchStep DEF Kernel
  <2>3. AttemptInv'
    BY <1>call, <1>kernel, <2>1, AttemptStep DEF Kernel
  <2>4. Singly'
    BY <1>call, <1>kernel, SinglyStep DEF Kernel
  <2> QED
    BY <2>1, <2>2, <2>3, <2>4 DEF Kernel
<1>1. CASE [Next]_vars /\ UNCHANGED recoveryVars
  <2>1. disk' = disk
    BY <1>1 DEF recoveryVars
  <2> QED
    BY <1>1, <1>call, <1>fits, <2>1 DEF RecoveryInv
<1>2. CASE PersistTo
  <2>1. Kernel'
    BY <1>2, <1>call DEF PersistTo
  <2>2. disk' = {Image}
    BY <1>2 DEF PersistTo
  <2> QED
    BY <1>kernel, <2>1, <2>2, ImageFits DEF RecoveryInv
<1>3. CASE Restart \/ RestartEmpty
  <2>1. \E f : Loads(f)
    BY <1>3, <1>fits, RestartLoads
  <2>2. Kernel'
    BY <1>kernel, <2>1, LoadKernel DEF Kernel
  <2>3. disk' = disk
    BY <1>3 DEF Restart, RestartEmpty, NewProcess
  <2> QED
    BY <1>fits, <2>2, <2>3 DEF RecoveryInv
<1> QED
  BY <1>1, <1>2, <1>3 DEF RecoveryNext, allVars

LEMMA RecoveryStart == RecoveryInit => RecoveryInv
<1> SUFFICES ASSUME RecoveryInit PROVE RecoveryInv
  OBVIOUS
<1>1. Init /\ disk = {}
  BY DEF RecoveryInit
<1>2. Singly
  BY <1>1 DEF Init, Singly, AllMembers, Members, Range, NoBatchRec
<1> QED
  BY <1>1, <1>2, InitType, BatchStart, AttemptStart DEF RecoveryInv, Kernel

(* The records and the file stay well formed, the books of the batches and  *)
(* the ledger of attempts stay in order, for every policy and every         *)
(* sequence of calls, saves, crashes and recoveries (persist_to and         *)
(* recover_from).                                                           *)
THEOREM RecoveryConsistent == RecoverySpec => []RecoveryInv
BY RecoveryStart, RecoveryStep, PTL DEF RecoverySpec

(* A set with no two elements has cardinality one at most. *)
LEMMA AtMostOne ==
  ASSUME NEW S, \A a, b \in S : a = b
  PROVE  Cardinality(S) <= 1
<1>1. CASE S = {}
  BY <1>1, FS_EmptySet
<1>2. CASE S # {}
  <2>1. PICK a \in S : S = {a}
    BY <1>2
  <2> QED
    BY <2>1, FS_Singleton
<1> QED
  BY <1>1, <1>2

(* The scheduler accepts what it saved itself, unless batches were merged   *)
(* or split or a request was tried again: whatever else was submitted,      *)
(* cancelled, expired, sealed, dispatched or reported, and however often    *)
(* the process died and recovered before the save, no member is listed in   *)
(* two active batches and none is unknown to the file (the checks of        *)
(* parse()).                                                                *)
THEOREM OwnFilesAccepted == RecoverySpec => []OwnFileAccepted
<1>1. ASSUME NEW f, Fits(f), \A b \in BatchId : f.lineage[b] = NoLineage,
             \A r \in RequestId : f.requests[r].attempt <= 1
      PROVE  Accepts(f)
  <2> DEFINE holders(r) == {b \in BatchId : /\ f.batches[b].state \notin BatchTerminal \cup {"none"}
                                            /\ r \in Range(f.batches[b].members)}
  <2>1. \A b \in BatchId : Aligned(f.lineage[b])
    BY <1>1 DEF Aligned, NoLineage
  <2>2. ASSUME NEW r \in RequestId PROVE Cardinality(holders(r)) <= 1
    <3>1. \A a, b \in holders(r) : a = b
      BY <1>1 DEF Fits, FileSingly
    <3> HIDE DEF holders
    <3> QED
      BY <3>1, AtMostOne
  <2>3. \A b \in BatchId : \A r \in Range(f.batches[b].members) : f.requests[r].state # "created"
    BY <1>1 DEF Fits, FileLedger
  <2> QED
    BY <2>1, <2>2, <2>3 DEF Accepts
<1>2. RecoveryInv => OwnFileAccepted
  BY <1>1 DEF RecoveryInv, OwnFileAccepted
<1> QED
  BY <1>2, RecoveryConsistent, PTL

-----------------------------------------------------------------------------
(* What the records of a file have in common with those of the scheduler.   *)

LEMMA ImageRecords ==
  ASSUME TypeOK
  PROVE  /\ Image.attempts = attempts /\ Image.meta = meta
         /\ \A r \in RequestId : /\ Image.requests[r].state = requests[r].state
                                 /\ Image.requests[r].attempt = requests[r].attempt
                                 /\ Image.requests[r].batch = requests[r].batch
         /\ \A b \in BatchId : /\ Image.batches[b].state = batches[b].state
                               /\ Image.batches[b].members = batches[b].members
                               /\ Image.batches[b].key = batches[b].key
<1> DEFINE reqs == [r \in RequestId |-> [requests[r] EXCEPT !.queued = FALSE]]
           bats == [b \in BatchId |-> [batches[b] EXCEPT !.outcomes = NoOutcomes]]
<1>1. /\ Image.attempts = attempts /\ Image.meta = meta
      /\ Image.requests = reqs /\ Image.batches = bats
  BY DEF Image
<1>2. \A r \in RequestId : requests[r] \in RequestRec
  BY DEF TypeOK
<1>3. \A b \in BatchId : batches[b] \in BatchRec
  BY DEF TypeOK
<1>4. ASSUME NEW r \in RequestId
      PROVE  /\ reqs[r].state = requests[r].state /\ reqs[r].attempt = requests[r].attempt
             /\ reqs[r].batch = requests[r].batch
  BY <1>2 DEF RequestRec
<1>5. ASSUME NEW b \in BatchId
      PROVE  /\ bats[b].state = batches[b].state /\ bats[b].members = batches[b].members
             /\ bats[b].key = batches[b].key
  BY <1>3 DEF BatchRec
<1> HIDE DEF reqs, bats
<1> QED
  BY <1>1, <1>4, <1>5

LEMMA LoadedRecords ==
  ASSUME NEW f, Loads(f)
  PROVE  /\ batches' = f.batches /\ meta' = f.meta /\ attempts' = f.attempts
         /\ dispatches' = {} /\ op'.pc = "idle" /\ workers'[0].live
<1>1. 0 \in WorkerId
  BY DEF WorkerId
<1> QED
  BY <1>1 DEF Loads, Load, NewProcess, Idle

LEMMA BlankRecords ==
  /\ \A r \in RequestId : Blank.requests[r].state = "created" /\ Blank.attempts[r] = <<>>
  /\ \A b \in BatchId : Blank.batches[b].state = "none" /\ Range(Blank.batches[b].members) = {}
BY BlankFields DEF NoBatchRec, Range

-----------------------------------------------------------------------------
(* Retries, keys and the whereabouts of the requests, across crashes.       *)

Promises == AttemptsBounded /\ BatchCompatible /\ Placed

Held(f, b) == Range(f.batches[b].members)

FilePromises(f) ==
  /\ \A r \in RequestId : Len(f.attempts[r]) <= (IF MaxAttempts > 1 THEN MaxAttempts ELSE 1)
  /\ \A b \in BatchId : \A r \in Held(f, b) : f.meta[r].key = f.batches[b].key
  /\ \A r \in RequestId : f.requests[r].state \in InBatchState =>
       \E b \in BatchId : r \in Held(f, b) /\ f.batches[b].state \in Homes

LEMMA ImagePromises ==
  ASSUME TypeOK, Promises
  PROVE  FilePromises(Image)
<1>1. \A b \in BatchId : Held(Image, b) = Members(b)
  BY ImageRecords DEF Held, Members
<1>2. \A r \in RequestId : Len(Image.attempts[r]) <= (IF MaxAttempts > 1 THEN MaxAttempts ELSE 1)
  BY ImageRecords DEF Promises, AttemptsBounded
<1>3. \A b \in BatchId : \A r \in Held(Image, b) : Image.meta[r].key = Image.batches[b].key
  BY <1>1, ImageRecords DEF Promises, BatchCompatible
<1>4. ASSUME NEW r \in RequestId, Image.requests[r].state \in InBatchState
      PROVE  \E b \in BatchId : r \in Held(Image, b) /\ Image.batches[b].state \in Homes
  <2>1. requests[r].state \in InBatchState
    BY <1>4, ImageRecords
  <2>2. PICK b \in BatchId : HomeOf(b, r)
    BY <2>1 DEF Promises, Placed
  <2> QED
    BY <1>1, <2>2, ImageRecords DEF HomeOf
<1> QED
  BY <1>2, <1>3, <1>4 DEF FilePromises

LEMMA LoadPromises ==
  ASSUME NEW f, Loads(f), FilePromises(f)
  PROVE  Promises'
<1>1. AttemptsBounded'
  BY LoadedRecords DEF FilePromises, AttemptsBounded
<1>2. BatchCompatible'
  BY LoadedRecords DEF FilePromises, BatchCompatible, Held, Members
<1>3. Placed'
  BY LoadedRecords, LoadedRequests DEF FilePromises, Placed, HomeOf, Held, Members
<1> QED
  BY <1>1, <1>2, <1>3 DEF Promises

LEMMA BlankPromises == FilePromises(Blank)
<1>1. \A r \in RequestId : Len(Blank.attempts[r]) = 0 /\ Blank.requests[r].state \notin InBatchState
  BY BlankRecords DEF InBatchState
<1>2. \A b \in BatchId : Held(Blank, b) = {}
  BY BlankRecords DEF Held
<1>3. 0 <= (IF MaxAttempts > 1 THEN MaxAttempts ELSE 1)
  BY PolicyAssumption DEF PolicyAssumption
<1> QED
  BY <1>1, <1>2, <1>3 DEF FilePromises

PromisesInv == Promises /\ \A f \in disk : FilePromises(f)

LEMMA PromisesStep ==
  ASSUME RecoveryInv, RecoveryInv', PromisesInv, [RecoveryNext]_allVars
  PROVE  PromisesInv'
<1>types. TypeOK /\ TypeOK' /\ BatchInv /\ AttemptInv /\ \A f \in disk : Fits(f)
  BY DEF RecoveryInv, Kernel
<1>files. Promises /\ \A f \in disk : FilePromises(f)
  BY DEF PromisesInv
<1>call. ASSUME [Next]_vars PROVE Promises'
  BY <1>call, <1>types, <1>files, BoundedStep, CompatibleStep, PlacedStep DEF Promises
<1>1. CASE [Next]_vars /\ UNCHANGED recoveryVars
  BY <1>1, <1>call, <1>files DEF recoveryVars, PromisesInv
<1>2. CASE PersistTo
  <2>1. Promises' /\ disk' = {Image}
    BY <1>2, <1>call DEF PersistTo
  <2> QED
    BY <1>types, <1>files, <2>1, ImagePromises DEF PromisesInv
<1>3. CASE Restart \/ RestartEmpty
  <2>1. PICK f : (f \in disk \/ f = Blank) /\ Loads(f)
    BY <1>3, <1>types, RestartLoads
  <2>2. FilePromises(f)
    BY <1>files, <2>1, BlankPromises
  <2>3. Promises' /\ disk' = disk
    BY <1>3, <2>1, <2>2, LoadPromises DEF Restart, RestartEmpty, NewProcess
  <2> QED
    BY <1>files, <2>3 DEF PromisesInv
<1> QED
  BY <1>1, <1>2, <1>3 DEF RecoveryNext, allVars

(* Whatever the process saved, lost and recovered: no request gets more     *)
(* attempts than the policy allows, counted over all the processes; no      *)
(* batch holds a request of another key; and a live request that has left   *)
(* the queue is a member of a batch that has not ended (load_persisted).    *)
THEOREM PromisesSurvive ==
  RecoverySpec => [](AttemptsBounded /\ BatchCompatible /\ NoRequestLost)
<1>1. RecoveryInit => PromisesInv
  BY BoundedStart, CompatibleStart, PlacedStart DEF RecoveryInit, PromisesInv, Promises
<1>2. RecoveryInv /\ RecoveryInv' /\ PromisesInv /\ [RecoveryNext]_allVars => PromisesInv'
  BY PromisesStep
<1>3. PromisesInv => AttemptsBounded /\ BatchCompatible /\ NoRequestLost
  BY NothingLost DEF PromisesInv, Promises
<1> QED
  BY <1>1, <1>2, <1>3, RecoveryConsistent, PTL DEF RecoverySpec

-----------------------------------------------------------------------------
(* Where a request is, across crashes.                                      *)

(* No tenant has a limit of outstanding work: submit() defers nothing.  A   *)
(* request that was deferred is kept out of the waiting index by submit()   *)
(* and put into it by load_persisted().                                     *)
Undeferred == ~FairnessEnabled \/ MaxOutstanding = 0

NoneDeferred == \A r \in RequestId : requests[r].state # "waiting"

LEMMA NoneDeferredStep ==
  ASSUME Undeferred, TypeOK, BatchInv, AttemptInv, Todo, NotFailing, NoneDeferred, [Next]_vars
  PROVE  NoneDeferred'
<1> SUFFICES ASSUME NEW q \in RequestId PROVE requests'[q].state # "waiting"
  BY DEF NoneDeferred
<1>now. requests[q].state # "waiting"
  BY DEF NoneDeferred
<1>1. CASE Submit
  <2>1. PICK m \in Offered : SubmitExpired(m) \/ SubmitOversized(m) \/ SubmitAdmitted(m)
    BY <1>1 DEF Submit, SubmitDeferred, Deferrable, AtOutstandingCap, Undeferred
  <2>2. PICK state \in {"expired", "rejected", "eligible"}, outcome \in Status :
           NewRequest(m, state, outcome)
    BY <2>1 DEF Status, SubmitExpired, SubmitOversized, SubmitAdmitted
  <2>3. requests \in [RequestId -> RequestRec]
    BY DEF TypeOK
  <2> QED
    BY <1>now, <2>2, <2>3 DEF NewRequest
<1>2. CASE Still \/ FillNewDone \/ CompleteDone \/ \E k \in Key : MakeForming(k)
  BY <1>2, <1>now DEF Still, FillNewDone, CompleteDone, MakeForming, requestVars
<1>3. CASE ExpireWaiting
  BY <1>3, <1>now, ExpireRequests
<1>4. ASSUME NEW r \in RequestId, DoCancel(r) PROVE requests'[q].state # "waiting"
  BY <1>4, <1>now, CancelRequests
<1>5. ASSUME NEW r \in RequestId, Place(r) PROVE requests'[q].state # "waiting"
  BY <1>5, <1>now, PlaceRequests
<1>6. ASSUME NEW b \in BatchId, DoSeal(b) PROVE requests'[q].state # "waiting"
  <2>1. requests[q] \in RequestRec
    BY DEF TypeOK
  <2> QED
    BY <1>6, <1>now, <2>1, SealRequests DEF RequestRec
<1>7. ASSUME NEW b \in BatchId, StartRun(b) \/ \E w \in Worker : PrepareDispatch(b, w)
      PROVE  requests'[q].state # "waiting"
  <2>1. PICK state \in HandedOut : Advance(b, state)
    BY <1>7 DEF StartRun, PrepareDispatch, HandedOut
  <2> QED
    BY <1>now, <2>1, AdvanceRequests DEF HandedOut
<1>8. ASSUME NEW a \in BatchId, NEW b \in BatchId, DoMerge(a, b) \/ DoSplit(b)
      PROVE  requests'[q].state # "waiting"
  BY <1>8, <1>now, MergeRequests, RehomeRequests
<1>9. ASSUME NEW r \in RequestId, CompleteMember(r) PROVE requests'[q].state # "waiting"
  <2>1. ApplyOutcome(r, op.report[r])
    BY <1>9 DEF CompleteMember
  <2> QED
    BY <1>now, <2>1, OutcomeRequests, RetryRequests
<1>10. ASSUME NEW r \in RequestId, Retry(r) PROVE requests'[q].state # "waiting"
  <2>1. Requeue(r)
    BY <1>10 DEF Retry
  <2> QED
    BY <1>now, <2>1, RetryRequests
<1>11. ~ \E r \in RequestId : FailMember(r)
  BY DEF FailMember, NotFailing
<1> QED
  BY <1>1, <1>2, <1>3, <1>4, <1>5, <1>6, <1>7, <1>8, <1>9, <1>10, <1>11, StepKinds

(* What a file that was saved between two methods tells of the batches.     *)
FileActive(f, b) == f.batches[b].state \in ActiveBatch

FilePlaced(f) ==
  /\ \A a, b \in BatchId :
       FileActive(f, a) /\ FileActive(f, b) /\ a # b => Held(f, a) \cap Held(f, b) = {}
  /\ \A b \in BatchId : FileActive(f, b) => Distinct(f.batches[b].members)
  /\ \A r \in RequestId, c \in BatchId :
       (/\ FileActive(f, c) /\ r \in Held(f, c)
        /\ f.requests[r].batch # NoBatch /\ FileActive(f, f.requests[r].batch))
         => f.requests[r].batch = c
  /\ \A b \in BatchId : FileActive(f, b) =>
       \A r \in Held(f, b) : f.requests[r].state \in Implied(f.batches[b].state)
  /\ \A r \in RequestId : f.requests[r].state \in Terminal =>
       f.attempts[r][f.requests[r].attempt].state = f.requests[r].state
  /\ \A r \in RequestId : f.requests[r].state # "waiting"

LEMMA ImagePlaced ==
  ASSUME TypeOK, Unlocked, Placement, NoneDeferred
  PROVE  FilePlaced(Image)
<1>1. \A b \in BatchId : Held(Image, b) = Members(b) /\ (FileActive(Image, b) <=> Active(b))
  BY ImageRecords DEF Held, Members, FileActive, Active
<1>2. \A r \in RequestId : requests[r].batch \in BatchId \cup {NoBatch}
  BY DEF TypeOK, RequestRec
<1>3. \A a, b \in BatchId :
        FileActive(Image, a) /\ FileActive(Image, b) /\ a # b => Held(Image, a) \cap Held(Image, b) = {}
  BY <1>1 DEF Placement, Layout, Disjoint
<1>4. \A b \in BatchId : FileActive(Image, b) => Distinct(Image.batches[b].members)
  BY <1>1, ImageRecords DEF Placement, Layout, NoRepeats
<1>5. ASSUME NEW r \in RequestId, NEW c \in BatchId, FileActive(Image, c), r \in Held(Image, c),
             Image.requests[r].batch # NoBatch, FileActive(Image, Image.requests[r].batch)
      PROVE  Image.requests[r].batch = c
  <2>1. Image.requests[r].batch = requests[r].batch
    BY ImageRecords
  <2>2. requests[r].batch \in BatchId /\ Active(requests[r].batch)
    BY <1>1, <1>2, <1>5, <2>1
  <2> QED
    BY <1>1, <1>5, <2>1, <2>2 DEF Placement, Layout, FieldAgrees
<1>6. ASSUME NEW b \in BatchId, FileActive(Image, b), NEW r \in Held(Image, b)
      PROVE  Image.requests[r].state \in Implied(Image.batches[b].state)
  <2>1. r \in Members(b) /\ r \in RequestId /\ Active(b)
    BY <1>1, <1>6, MemberTypes
  <2>2. requests[r].state \in Implied(batches[b].state)
    BY <2>1 DEF Placement, StatesImplied, Reported, Unlocked
  <2> QED
    BY <2>1, <2>2, ImageRecords
<1>7. \A r \in RequestId : Image.requests[r].state \in Terminal =>
        Image.attempts[r][Image.requests[r].attempt].state = Image.requests[r].state
  BY ImageRecords DEF Placement, EndRecorded, Recorded
<1>8. \A r \in RequestId : Image.requests[r].state # "waiting"
  BY ImageRecords DEF NoneDeferred
<1> QED
  BY <1>3, <1>4, <1>5, <1>6, <1>7, <1>8 DEF FilePlaced

(* The new process has no report to apply and no execution to wait for; its *)
(* waiting index holds the eligible requests of the file.                   *)
LEMMA LoadPlaced ==
  ASSUME NEW f, Loads(f), FilePlaced(f)
  PROVE  Placement' /\ NoneDeferred' /\ ReportInv' /\ NotFailing'
<1>1. /\ batches' = f.batches /\ attempts' = f.attempts
      /\ dispatches' = {} /\ op'.pc = "idle" /\ workers'[0].live
  BY LoadedRecords
<1>2. \A b \in BatchId : Members(b)' = Held(f, b) /\ (Active(b)' <=> FileActive(f, b))
  BY <1>1 DEF Members, Held, Active, FileActive
<1>3. \A r \in RequestId : /\ requests'[r].state = f.requests[r].state
                           /\ requests'[r].attempt = f.requests[r].attempt
                           /\ requests'[r].batch = f.requests[r].batch
  BY LoadedRequests
<1>4. \A r \in RequestId : requests'[r].batch \in BatchId \cup {NoBatch}
  BY LoadedRequests DEF RequestRec
<1>5. Disjoint' /\ NoRepeats'
  BY <1>1, <1>2 DEF FilePlaced, Disjoint, NoRepeats
<1>6. FieldAgrees'
  <2> SUFFICES ASSUME NEW r \in RequestId, NEW c \in BatchId, Active(c)', r \in Members(c)',
                      requests'[r].batch # NoBatch, batches'[requests'[r].batch].state \in ActiveBatch
               PROVE  requests'[r].batch = c
    BY DEF FieldAgrees, Active
  <2>1. FileActive(f, c) /\ r \in Held(f, c)
    BY <1>2
  <2>2. f.requests[r].batch # NoBatch /\ FileActive(f, f.requests[r].batch)
    BY <1>1, <1>3 DEF FileActive
  <2> QED
    BY <1>3, <2>1, <2>2 DEF FilePlaced
<1>7. StatesImplied'
  <2> SUFFICES ASSUME NEW b \in BatchId, Active(b)', NEW r \in Members(b)'
               PROVE  requests'[r].state \in Implied(batches'[b].state)
    BY DEF StatesImplied, Implied
  <2>1. r \in Held(f, b) /\ FileActive(f, b) /\ r \in RequestId
    BY <1>2, FileRecords DEF Held, Loads
  <2> QED
    BY <1>1, <1>3, <2>1 DEF FilePlaced
<1>8. IndexCoherent'
  <2> SUFFICES ASSUME NEW r \in RequestId
               PROVE  /\ waiting'[r] = IF requests'[r].queued THEN 1 ELSE 0
                      /\ requests'[r].queued <=> requests'[r].state = "eligible"
    BY DEF IndexCoherent
  <2>1. Requeued(f, r) <=> f.requests[r].state = "eligible"
    BY DEF Requeued, WaitingState, FilePlaced
  <2> QED
    BY <1>3, <2>1, LoadedRequests
<1>9. EndRecorded' /\ NoneDeferred'
  BY <1>1, <1>3 DEF FilePlaced, EndRecorded, Recorded, NoneDeferred
<1>10. Todo' /\ Exec' /\ ExecutedOnce' /\ ReportInv' /\ NotFailing'
  BY <1>1 DEF Todo, Exec, ExecutedOnce, ReportInv, Executions, Authority, NotFailing
<1> QED
  BY <1>5, <1>6, <1>7, <1>8, <1>9, <1>10 DEF Placement, Layout

LEMMA BlankPlaced == FilePlaced(Blank)
<1>1. \A b \in BatchId : ~FileActive(Blank, b)
  BY BlankRecords DEF FileActive, ActiveBatch
<1>2. \A r \in RequestId : Blank.requests[r].state \notin Terminal \cup {"waiting"}
  BY BlankRecords DEF Terminal
<1> QED
  BY <1>1, <1>2 DEF FilePlaced

PlacedInv ==
  /\ Placement /\ NoneDeferred /\ ReportInv /\ NotFailing
  /\ \A f \in disk : FilePlaced(f)

LEMMA PlacedInvStep ==
  ASSUME Careful, Undeferred, RecoveryInv, RecoveryInv', PlacedInv, [RecoveryNext]_allVars
  PROVE  PlacedInv'
<1>types. TypeOK /\ TypeOK' /\ BatchInv /\ AttemptInv /\ \A f \in disk : Fits(f)
  BY DEF RecoveryInv, Kernel
<1>files. /\ Placement /\ NoneDeferred /\ ReportInv /\ NotFailing
          /\ \A f \in disk : FilePlaced(f)
  BY DEF PlacedInv
<1>call. ASSUME [Next]_vars PROVE Placement' /\ NoneDeferred' /\ ReportInv' /\ NotFailing'
  <2>1. NotFailing'
    BY <1>call, <1>types, <1>files, FailEntry DEF Careful, RunFailed
  <2>2. ReportInv'
    BY <1>call, <1>types, <1>files, ReportStep
  <2>3. Placement'
    BY <1>call, <1>types, <1>files, PlacementStep, CarefulSteps
  <2>4. NoneDeferred'
    BY <1>call, <1>types, <1>files, NoneDeferredStep DEF Placement
  <2> QED
    BY <2>1, <2>2, <2>3, <2>4
<1>1. CASE [Next]_vars /\ UNCHANGED recoveryVars
  BY <1>1, <1>call, <1>files DEF recoveryVars, PlacedInv
<1>2. CASE PersistTo
  <2>1. Placement' /\ NoneDeferred' /\ ReportInv' /\ NotFailing'
    BY <1>2, <1>call DEF PersistTo
  <2>2. disk' = {Image} /\ FilePlaced(Image)
    BY <1>2, <1>types, <1>files, ImagePlaced DEF PersistTo
  <2> QED
    BY <2>1, <2>2 DEF PlacedInv
<1>3. CASE Restart \/ RestartEmpty
  <2>1. PICK f : (f \in disk \/ f = Blank) /\ Loads(f)
    BY <1>3, <1>types, RestartLoads
  <2>2. FilePlaced(f)
    BY <1>files, <2>1, BlankPlaced
  <2>3. disk' = disk
    BY <1>3 DEF Restart, RestartEmpty, NewProcess
  <2> QED
    BY <1>files, <2>1, <2>2, <2>3, LoadPlaced DEF PlacedInv
<1> QED
  BY <1>1, <1>2, <1>3 DEF RecoveryNext, allVars

LEMMA PlacedInvStart == RecoveryInit => PlacedInv
<1> SUFFICES ASSUME RecoveryInit PROVE PlacedInv
  OBVIOUS
<1>1. Init /\ disk = {}
  BY DEF RecoveryInit
<1>2. NoneDeferred /\ NotFailing
  BY <1>1 DEF Init, NoneDeferred, NotFailing, Idle
<1> QED
  BY <1>1, <1>2, PlacementInit, ReportStart DEF PlacedInv

(* No double membership and an index in step, across crashes: a live        *)
(* request is in at most one batch that can still deliver an outcome for    *)
(* it, and the waiting index holds exactly the eligible requests, each      *)
(* once, also after load_persisted() rebuilt it from the file.              *)
THEOREM PlacementSurvives ==
  ASSUME Careful, Undeferred
  PROVE  RecoverySpec => [](OneActiveBatch /\ IndexCoherent)
<1>1. RecoveryInv /\ RecoveryInv' /\ PlacedInv /\ [RecoveryNext]_allVars => PlacedInv'
  BY PlacedInvStep
<1>2. RecoveryInv /\ PlacedInv => OneActiveBatch /\ IndexCoherent
  <2> SUFFICES ASSUME TypeOK, Placement PROVE OneActiveBatch /\ IndexCoherent
    BY DEF RecoveryInv, Kernel, PlacedInv
  <2> QED
    BY MemberTypes DEF Placement, Layout, Disjoint, Active, OneActiveBatch
<1> QED
  BY <1>1, <1>2, PlacedInvStart, RecoveryConsistent, PTL DEF RecoverySpec

-----------------------------------------------------------------------------
(* The members of a completed batch, across crashes.                        *)

FileEnded(f) ==
  \A b \in BatchId : f.batches[b].state = "completed" =>
    \A r \in Held(f, b) : f.requests[r].state \in Terminal

EndedInv == CompletedEnded /\ \A f \in disk : FileEnded(f)

LEMMA EndedInvStep ==
  ASSUME Careful, RetryFrom = {}, RecoveryInv, PlacedInv, EndedInv, [RecoveryNext]_allVars
  PROVE  EndedInv'
<1>types. TypeOK /\ BatchInv /\ AttemptInv /\ \A f \in disk : Fits(f)
  BY DEF RecoveryInv, Kernel
<1>files. CompletedEnded /\ \A f \in disk : FileEnded(f)
  BY DEF EndedInv
<1>call. ASSUME [Next]_vars PROVE CompletedEnded'
  BY <1>call, <1>types, <1>files, EndedStep, UnretriedSteps DEF PlacedInv
<1>1. CASE [Next]_vars /\ UNCHANGED recoveryVars
  BY <1>1, <1>call, <1>files DEF recoveryVars, EndedInv
<1>2. CASE PersistTo
  <2>1. CompletedEnded' /\ disk' = {Image}
    BY <1>2, <1>call DEF PersistTo
  <2>2. FileEnded(Image)
    <3> SUFFICES ASSUME NEW b \in BatchId, Image.batches[b].state = "completed",
                        NEW r \in Held(Image, b)
                 PROVE  Image.requests[r].state \in Terminal
      BY DEF FileEnded
    <3>1. batches[b].state = "completed" /\ r \in Members(b) /\ r \in RequestId
      BY <1>types, ImageRecords, MemberTypes DEF Held, Members
    <3> QED
      BY <1>types, <1>files, <3>1, ImageRecords DEF CompletedEnded
  <2> QED
    BY <2>1, <2>2 DEF EndedInv
<1>3. CASE Restart \/ RestartEmpty
  <2>1. PICK f : (f \in disk \/ f = Blank) /\ Loads(f)
    BY <1>3, <1>types, RestartLoads
  <2>2. FileEnded(f)
    BY <1>files, <2>1, BlankRecords DEF FileEnded
  <2>3. CompletedEnded'
    <3> SUFFICES ASSUME NEW b \in BatchId, f.batches[b].state = "completed",
                        NEW r \in Held(f, b)
                 PROVE  requests'[r].state \in Terminal
      BY <2>1, LoadedRecords DEF CompletedEnded, Held, Members
    <3>1. r \in RequestId
      BY <2>1, FileRecords DEF Held, Loads
    <3> QED
      BY <2>1, <2>2, <3>1, LoadedRequests DEF FileEnded
  <2>4. disk' = disk
    BY <1>3 DEF Restart, RestartEmpty, NewProcess
  <2> QED
    BY <1>files, <2>3, <2>4 DEF EndedInv
<1> QED
  BY <1>1, <1>2, <1>3 DEF RecoveryNext, allVars

(* After a recovery too, the state of every member is the one its batch     *)
(* implies, and a completed batch has no open member, as long as no client  *)
(* retries explicitly a request that has ended: a save takes place between  *)
(* two methods and writes the requests and the batches of one moment.       *)
THEOREM MembersSurvive ==
  ASSUME Careful, Undeferred, RetryFrom = {}
  PROVE  RecoverySpec => []MemberStates
<1>1. RecoveryInit => EndedInv
  BY DEF RecoveryInit, EndedInv, Init, NoBatchRec, CompletedEnded
<1>2. RecoveryInv /\ RecoveryInv' /\ PlacedInv /\ [RecoveryNext]_allVars => PlacedInv'
  BY PlacedInvStep
<1>3. RecoveryInv /\ PlacedInv /\ EndedInv /\ [RecoveryNext]_allVars => EndedInv'
  BY EndedInvStep
<1>4. PlacedInv /\ EndedInv => MemberStates
  BY StatesFollow DEF PlacedInv, EndedInv
<1> QED
  BY <1>1, <1>2, <1>3, <1>4, PlacedInvStart, RecoveryConsistent, PTL DEF RecoverySpec
=============================================================================
