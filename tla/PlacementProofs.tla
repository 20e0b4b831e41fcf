-------------------------- MODULE PlacementProofs --------------------------
(***************************************************************************)
(* Where a request is: in which batches it is listed, in which state it is *)
(* there, whether the waiting index holds it, and in which executions its  *)
(* attempts went out.  Merges and splits are included; what is left out is *)
(* what Careful names, and each part of it is needed.  The last parts are  *)
(* about what a split breaks: the ways to a batch, the deadlines of ticks. *)
(***************************************************************************)
EXTENDS BatchProofs

(* Clients call retry() for requests that have ended, and not by a          *)
(* cancellation; no in-process execution fails as a whole.  retry() checks  *)
(* neither the state nor the batch of a request: a cancelled member is      *)
(* still listed in its batch, and a queued one is queued a second time.     *)
Careful ==
  /\ RetryFrom \subseteq Terminal \ {"cancelled"}
  /\ "failed" \notin LocalResults

(* What that says of one step. *)
CarefulStep == \A r \in RequestId : Retry(r) => requests[r].state \in Terminal \ {"cancelled"}

LEMMA CarefulSteps ==
  ASSUME Careful
  PROVE  CarefulStep
BY DEF Careful, CarefulStep, Retry

(* No step is a call of retry(). *)
Unretried == \A r \in RequestId : ~Retry(r)

LEMMA UnretriedSteps ==
  ASSUME RetryFrom = {}
  PROVE  Unretried
BY DEF Unretried, Retry

Active(b) == batches[b].state \in ActiveBatch

(* No request is listed in two active batches. *)
Disjoint ==
  \A a, b \in BatchId : Active(a) /\ Active(b) /\ a # b => Members(a) \cap Members(b) = {}

(* No request is listed twice in an active batch. *)
NoRepeats == \A b \in BatchId : Active(b) => Distinct(batches[b].members)

(* A request whose batch field names an active batch is listed in no other. *)
FieldAgrees ==
  \A r \in RequestId, c \in BatchId :
    (/\ Active(c) /\ r \in Members(c)
     /\ requests[r].batch # NoBatch /\ Active(requests[r].batch)) => requests[r].batch = c

Layout == Disjoint /\ NoRepeats /\ FieldAgrees

(* The batch a report is being applied to. *)
Reported(b) == op.pc = "complete" /\ op.cur = b

(* The states its batch implies for a member. *)
Implied(state) ==
  IF state = "forming" THEN {"reserved"}
  ELSE IF state = "sealed" THEN {"batched", "cancelled"}
  ELSE {state, "cancelled"}

StatesImplied ==
  \A b \in BatchId : Active(b) /\ ~Reported(b) =>
    \A r \in Members(b) : requests[r].state \in Implied(batches[b].state)

(* A request that is in none of these states is in no active batch. *)
LEMMA Loose ==
  ASSUME StatesImplied, op.pc # "complete", NEW r,
         requests[r].state \notin {"reserved", "batched", "dispatched", "running", "cancelled"}
  PROVE  \A b \in BatchId : Active(b) => r \notin Members(b)
BY DEF StatesImplied, Reported, Implied, Active, ActiveBatch

(* Only the end of a report takes it off the mutex. *)
LEMMA ReportExit ==
  ASSUME TypeOK, [Next]_vars, op.pc = "complete"
  PROVE  \/ UNCHANGED vars \/ CompleteDone
         \/ \E r \in RequestId : CompleteMember(r)
<1>1. ~Submit
  BY DEF Submit, SubmitExpired, SubmitOversized, SubmitDeferred, SubmitAdmitted, NewRequest, Unlocked
<1>2. ~(Tick \/ Expire \/ RollEpoch \/ AdvanceClock \/ EnterLate)
  BY DEF Tick, Expire, RollEpoch, AdvanceClock, EnterLate, Unlocked
<1>3. ~(ExpireWaiting \/ EvictDone \/ FillNewDone \/ MakeDone \/ FillDone \/ FormDone)
  BY DEF ExpireWaiting, EvictDone, FillNewDone, MakeDone, FillDone, FormDone
<1>4. ~(MergeDone \/ SplitStep \/ TickDone \/ FailDone)
  BY DEF MergeDone, SplitStep, TickDone, FailDone
<1>5. ~ \E r \in RequestId : EvictMember(r) \/ Place(r) \/ FailMember(r) \/ Cancel(r) \/ Retry(r)
  BY DEF EvictMember, Place, FailMember, Cancel, Retry, Unlocked
<1>6. ~((\E k \in Key : MakeForming(k)) \/ \E b \in BatchId : FormNext(b))
  BY DEF MakeForming, FormNext
<1>7. ~ \E a, b \in BatchId : MergePair(a, b) \/ Merge(a, b)
  BY DEF MergePair, Merge, Unlocked
<1>8. ~ \E b \in BatchId : Seal(b) \/ Split(b) \/ RunOk(b) \/ RunFailed(b) \/ \E w \in Worker : PrepareDispatch(b, w)
  BY DEF Seal, Split, RunOk, RunFailed, StartRun, PrepareDispatch, Unlocked
<1>9. ~ \E w \in Worker, boot \in BootId, size \in WorkerSizes : RegisterWorker(w, boot, size)
  BY DEF RegisterWorker, Unlocked
<1>10. ~ \E x \in dispatches : Complete(x)
  BY DEF Complete, Unlocked
<1> QED
  BY <1>1, <1>2, <1>3, <1>4, <1>5, <1>6, <1>7, <1>8, <1>9, <1>10 DEF Next, OpStep

-----------------------------------------------------------------------------
(* The layout of the batches. *)

(* A step that makes no batch active, lists nobody anew and gives no        *)
(* request another batch.                                                   *)
LEMMA LayoutKept ==
  ASSUME TypeOK, Layout,
         \A c \in BatchId : batches'[c].state \in ActiveBatch => Active(c) /\ SameMembers(c),
         \A q \in RequestId : requests'[q].batch \in {requests[q].batch, NoBatch}
  PROVE  Layout'
<1>1. \A q \in RequestId : requests[q].batch \in BatchId \cup {NoBatch}
  BY DEF TypeOK, RequestRec
<1>2. Disjoint' /\ NoRepeats'
  BY DEF Layout, Disjoint, NoRepeats, Active, Members, SameMembers
<1>3. FieldAgrees'
  BY <1>1 DEF Layout, FieldAgrees, Active, Members, SameMembers
<1> QED
  BY <1>2, <1>3 DEF Layout

(* cancel() takes a request off the list of its forming batch. *)
LEMMA CancelLayout ==
  ASSUME TypeOK, Layout, NEW r \in RequestId, DoCancel(r)
  PROVE  Layout'
<1>1. \A c \in BatchId : batches'[c].state = batches[c].state
  BY CancelFields DEF SameState
<1>2. \A c \in BatchId : /\ Range(batches'[c].members) \subseteq Members(c)
                         /\ Distinct(batches[c].members) => Distinct(batches'[c].members)
  <2> SUFFICES ASSUME NEW c \in BatchId
               PROVE  /\ Range(batches'[c].members) \subseteq Members(c)
                      /\ Distinct(batches[c].members) => Distinct(batches'[c].members)
    OBVIOUS
  <2>1. batches'[c].members \in {batches[c].members, Without(batches[c].members, r)}
    BY CancelFields DEF SameMembers
  <2>2. /\ Range(Without(batches[c].members, r)) \subseteq Members(c)
        /\ Distinct(batches[c].members) => Distinct(Without(batches[c].members, r))
    BY MemberTypes, WithoutRange, WithoutKeeps DEF Members
  <2> QED
    BY <2>1, <2>2 DEF Members
<1>3. \A q \in RequestId : /\ requests[q].batch \in BatchId \cup {NoBatch}
                           /\ requests'[q].batch \in {requests[q].batch, NoBatch}
  <2>1. \A q \in RequestId : requests[q].batch \in BatchId \cup {NoBatch}
    BY DEF TypeOK, RequestRec
  <2> QED
    BY <2>1, CancelRequests
<1>4. Disjoint' /\ NoRepeats'
  BY <1>1, <1>2 DEF Layout, Disjoint, NoRepeats, Active, Members
<1>5. FieldAgrees'
  BY <1>1, <1>2, <1>3 DEF Layout, FieldAgrees, Active, Members
<1> QED
  BY <1>4, <1>5 DEF Layout

LEMMA MakeLayout ==
  ASSUME TypeOK, BatchInv, Layout, NEW k \in Key, MakeForming(k)
  PROVE  Layout'
<1>1. /\ nextBatch \in BatchId /\ batches'[nextBatch].members = <<>>
      /\ \A c \in BatchId : c # nextBatch => batches'[c] = batches[c]
  BY MakeFields
<1>2. Range(batches'[nextBatch].members) = {} /\ Distinct(batches'[nextBatch].members)
  BY <1>1 DEF Range, Distinct
<1>3. \A q \in RequestId : /\ requests[q].batch \in BatchId \cup {NoBatch}
                           /\ requests'[q].batch = requests[q].batch
                           /\ requests[q].batch # nextBatch
  <2>1. requests' = requests
    BY DEF MakeForming, requestVars
  <2>2. batches[nextBatch].state = "none" /\ nextBatch # NoBatch
    BY <1>1, IdsNatural DEF BatchInv, Books, FreshBatches
  <2> QED
    BY <2>1, <2>2 DEF TypeOK, RequestRec, BatchInv, Books, KnownBatches
<1>4. Disjoint' /\ NoRepeats'
  BY <1>1, <1>2 DEF Layout, Disjoint, NoRepeats, Active, Members
<1>5. FieldAgrees'
  BY <1>1, <1>2, <1>3 DEF Layout, FieldAgrees, Active, Members
<1> QED
  BY <1>4, <1>5 DEF Layout

LEMMA AppendDistinct ==
  ASSUME NEW S, NEW s \in Seq(S), NEW x \in S, Distinct(s), x \notin Range(s)
  PROVE  Distinct(Append(s, x))
<1>1. /\ Len(s) \in Nat /\ DOMAIN s = 1 .. Len(s) /\ DOMAIN Append(s, x) = 1 .. Len(s) + 1
      /\ \A i \in 1 .. Len(s) : Append(s, x)[i] = s[i]
      /\ Append(s, x)[Len(s) + 1] = x
  OBVIOUS
<1>2. \A i \in 1 .. Len(s) : s[i] # x
  BY <1>1 DEF Range
<1> QED
  BY <1>1, <1>2 DEF Distinct

LEMMA ConcatDistinct ==
  ASSUME NEW S, NEW s \in Seq(S), NEW t \in Seq(S), Distinct(s), Distinct(t),
         Range(s) \cap Range(t) = {}
  PROVE  Distinct(s \o t)
<1>1. /\ Len(s) \in Nat /\ Len(t) \in Nat /\ DOMAIN s = 1 .. Len(s) /\ DOMAIN t = 1 .. Len(t)
      /\ DOMAIN (s \o t) = 1 .. Len(s) + Len(t)
      /\ \A i \in 1 .. Len(s) + Len(t) : (s \o t)[i] = IF i <= Len(s) THEN s[i] ELSE t[i - Len(s)]
  BY ConcatProperties
<1>2. \A i \in 1 .. Len(s), j \in 1 .. Len(t) : s[i] # t[j]
  BY <1>1 DEF Range
<1>3. \A i, j \in 1 .. Len(s) : s[i] = s[j] => i = j
  BY <1>1 DEF Distinct
<1>4. \A i, j \in 1 .. Len(t) : t[i] = t[j] => i = j
  BY <1>1 DEF Distinct
<1> SUFFICES ASSUME NEW i \in 1 .. Len(s) + Len(t), NEW j \in 1 .. Len(s) + Len(t),
                    (s \o t)[i] = (s \o t)[j]
             PROVE  i = j
  BY <1>1 DEF Distinct
<1>5. /\ i <= Len(s) => i \in 1 .. Len(s) /\ (s \o t)[i] = s[i]
      /\ ~(i <= Len(s)) => i - Len(s) \in 1 .. Len(t) /\ (s \o t)[i] = t[i - Len(s)]
  BY <1>1
<1>6. /\ j <= Len(s) => j \in 1 .. Len(s) /\ (s \o t)[j] = s[j]
      /\ ~(j <= Len(s)) => j - Len(s) \in 1 .. Len(t) /\ (s \o t)[j] = t[j - Len(s)]
  BY <1>1
<1>7. CASE i <= Len(s) /\ j <= Len(s)
  BY <1>3, <1>5, <1>6, <1>7
<1>8. CASE ~(i <= Len(s)) /\ ~(j <= Len(s))
  <2>1. i - Len(s) = j - Len(s)
    BY <1>4, <1>5, <1>6, <1>8
  <2> QED
    BY <1>1, <2>1
<1>9. CASE (i <= Len(s) /\ ~(j <= Len(s))) \/ (~(i <= Len(s)) /\ j <= Len(s))
  BY <1>2, <1>5, <1>6, <1>9
<1> QED
  BY <1>7, <1>8, <1>9

(* A waiting request is in no active batch before it is placed. *)
LEMMA PlaceLayout ==
  ASSUME TypeOK, BatchInv, Layout, StatesImplied, NEW r \in RequestId, Place(r)
  PROVE  Layout'
<1>1. /\ op.cur \in BatchId
      /\ \A c \in BatchId : batches'[c].state = batches[c].state
      /\ \A c \in BatchId : c # op.cur => batches'[c].members = batches[c].members
      /\ batches'[op.cur].members = Append(batches[op.cur].members, r)
  BY PlaceFields DEF SameState, SameMembers
<1>2. \A c \in BatchId : Active(c) => r \notin Members(c)
  BY Loose, PlaceRequests DEF WaitingState
<1>3. Range(batches'[op.cur].members) = Members(op.cur) \cup {r}
  <2>1. Range(Append(batches[op.cur].members, r)) = Range(batches[op.cur].members) \cup {r}
    BY <1>1, AppendRange, MemberTypes
  <2> QED
    BY <1>1, <2>1 DEF Members
<1>4. Active(op.cur) => Distinct(batches'[op.cur].members)
  <2> SUFFICES ASSUME Active(op.cur) PROVE Distinct(batches'[op.cur].members)
    OBVIOUS
  <2>1. /\ batches[op.cur].members \in Seq(RequestId) /\ Distinct(batches[op.cur].members)
        /\ r \notin Range(batches[op.cur].members)
    BY <1>1, <1>2, MemberTypes DEF Layout, NoRepeats, Members
  <2>2. Distinct(Append(batches[op.cur].members, r))
    BY <2>1, AppendDistinct
  <2> QED
    BY <1>1, <2>2
<1>5. /\ \A q \in RequestId : requests[q].batch \in BatchId \cup {NoBatch}
      /\ \A q \in RequestId : q # r => requests'[q].batch = requests[q].batch
      /\ requests'[r].batch = op.cur
  <2>1. \A q \in RequestId : requests[q].batch \in BatchId \cup {NoBatch}
    BY DEF TypeOK, RequestRec
  <2>2. \A q \in RequestId \ {r} : requests'[q] = requests[q]
    BY PlaceRequests
  <2> QED
    BY <2>1, <2>2, PlaceRequests
<1>6. Disjoint'
  <2> SUFFICES ASSUME NEW a \in BatchId, NEW b \in BatchId, Active(a), Active(b), a # b
               PROVE  Range(batches'[a].members) \cap Range(batches'[b].members) = {}
    BY <1>1 DEF Disjoint, Active, Members
  <2>1. Members(a) \cap Members(b) = {} /\ r \notin Members(a) /\ r \notin Members(b)
    BY <1>2 DEF Layout, Disjoint
  <2> QED
    BY <1>1, <1>3, <2>1 DEF Members
<1>7. NoRepeats'
  BY <1>1, <1>4 DEF Layout, NoRepeats, Active
<1>8. FieldAgrees'
  <2> SUFFICES ASSUME NEW q \in RequestId, NEW c \in BatchId, Active(c),
                      q \in Range(batches'[c].members), requests'[q].batch # NoBatch,
                      batches'[requests'[q].batch].state \in ActiveBatch
               PROVE  requests'[q].batch = c
    BY <1>1 DEF FieldAgrees, Active, Members
  <2>1. CASE q = r
    <3>1. c = op.cur
      BY <1>1, <1>2, <2>1 DEF Members
    <3> QED
      BY <1>5, <2>1, <3>1
  <2>2. CASE q # r
    <3>1. q \in Members(c)
      BY <1>1, <1>3, <2>2 DEF Members
    <3>2. requests[q].batch \in BatchId /\ Active(requests[q].batch)
      BY <1>1, <1>5, <2>2 DEF Active
    <3> QED
      BY <1>5, <2>2, <3>1, <3>2, IdsNatural DEF Layout, FieldAgrees
  <2> QED
    BY <2>1, <2>2
<1> QED
  BY <1>6, <1>7, <1>8 DEF Layout

(* do_merge puts two disjoint lists together, and tells the members. *)
LEMMA MergeLayout ==
  ASSUME TypeOK, Layout, NEW a \in BatchId, NEW b \in BatchId, a # b, DoMerge(a, b)
  PROVE  Layout'
<1>1. /\ \A c \in BatchId : c # a => batches'[c].members = batches[c].members
      /\ \A c \in BatchId : c # b => batches'[c].state = batches[c].state
      /\ batches'[a].members = batches[a].members \o batches[b].members
      /\ batches'[b].state = "superseded"
      /\ batches[a].state \in {"sealed", "forming"} /\ batches[b].state = batches[a].state
  <2>1. /\ \A c \in BatchId : c # a => SameMembers(c)
        /\ \A c \in BatchId : c # b => SameState(c)
    BY MergeFields
  <2> QED
    BY <2>1, MergeFields, ZenonT(30) DEF SameMembers, SameState
<1>2. Active(a) /\ Active(b)
  BY <1>1 DEF Active, ActiveBatch
<1>3. \A c \in BatchId : batches'[c].state \in ActiveBatch => c # b /\ Active(c)
  BY <1>1 DEF Active, ActiveBatch
<1>4. Range(batches'[a].members) = Members(a) \cup Members(b)
  <2>1. Range(batches[a].members \o batches[b].members) = Members(a) \cup Members(b)
    BY RangeConcatenation, MemberTypes DEF Members
  <2> QED
    BY <1>1, <2>1
<1>5. Members(a) \cap Members(b) = {}
  BY <1>2 DEF Layout, Disjoint
<1>6. Distinct(batches'[a].members)
  <2>1. /\ batches[a].members \in Seq(RequestId) /\ batches[b].members \in Seq(RequestId)
        /\ Distinct(batches[a].members) /\ Distinct(batches[b].members)
        /\ Range(batches[a].members) \cap Range(batches[b].members) = {}
    BY <1>2, <1>5, MemberTypes DEF Layout, NoRepeats, Members
  <2>2. Distinct(batches[a].members \o batches[b].members)
    BY <2>1, ConcatDistinct
  <2> QED
    BY <1>1, <2>2
<1>7. \A q \in RequestId : /\ requests[q].batch \in BatchId \cup {NoBatch}
                           /\ requests'[q].batch = IF q \in Members(b) THEN a ELSE requests[q].batch
  <2>1. \A q \in RequestId : requests[q].batch \in BatchId \cup {NoBatch}
    BY DEF TypeOK, RequestRec
  <2> QED
    BY <2>1, MergeRequests
<1>8. Disjoint'
  <2> SUFFICES ASSUME NEW c \in BatchId, NEW d \in BatchId, c # d, c # b, d # b, Active(c), Active(d)
               PROVE  Range(batches'[c].members) \cap Range(batches'[d].members) = {}
    BY <1>3 DEF Disjoint, Active, Members
  <2>1. /\ Members(c) \cap Members(d) = {} /\ Members(c) \cap Members(b) = {}
        /\ Members(d) \cap Members(b) = {}
    BY <1>2 DEF Layout, Disjoint
  <2> QED
    BY <1>1, <1>4, <2>1 DEF Members
<1>9. NoRepeats'
  BY <1>1, <1>3, <1>6 DEF Layout, NoRepeats, Active
<1>10. FieldAgrees'
  <2> SUFFICES ASSUME NEW q \in RequestId, NEW c \in BatchId, c # b, Active(c),
                      q \in Range(batches'[c].members), requests'[q].batch # NoBatch,
                      batches'[requests'[q].batch].state \in ActiveBatch
               PROVE  requests'[q].batch = c
    BY <1>3 DEF FieldAgrees, Active, Members
  <2>1. CASE q \in Members(b)
    <3>1. c = a
      <4>1. Members(c) \cap Members(b) = {}
        BY <1>2 DEF Layout, Disjoint
      <4> QED
        BY <1>1, <2>1, <4>1 DEF Members
    <3> QED
      BY <1>7, <2>1, <3>1
  <2>2. CASE q \notin Members(b)
    <3>1. q \in Members(c)
      BY <1>1, <1>4, <2>2 DEF Members
    <3>2. requests'[q].batch = requests[q].batch /\ requests[q].batch \in BatchId
      BY <1>7, <2>2
    <3>3. Active(requests[q].batch)
      BY <1>3, <3>2
    <3> QED
      BY <3>1, <3>2, <3>3 DEF Layout, FieldAgrees
  <2> QED
    BY <2>1, <2>2
<1> QED
  BY <1>8, <1>9, <1>10 DEF Layout

(* do_split deals the members of a batch out to two. *)
LEMMA SplitLayout ==
  ASSUME TypeOK, BatchInv, Layout, NEW b \in BatchId, DoSplit(b)
  PROVE  Layout'
<1>fresh. FreshBatches /\ nextBatch \in Nat
  BY DEF BatchInv, Books, TypeOK
<1>1. \A m : Child(b, m).members = m /\ Child(b, m).state = batches[b].state
  BY ChildFields
<1>2. Range(FirstHalf(b)) \cup Range(SecondHalf(b)) = Members(b)
  BY HalvesSplit
<1>3. ASSUME Active(b)
      PROVE  /\ Distinct(FirstHalf(b)) /\ Distinct(SecondHalf(b))
             /\ Range(FirstHalf(b)) \cap Range(SecondHalf(b)) = {}
  BY <1>3, HalvesSplit DEF Layout, NoRepeats
<1>4. \A q \in RequestId :
        /\ requests[q].batch \in BatchId \cup {NoBatch}
        /\ requests[q].batch \in BatchId => requests[q].batch < nextBatch /\ requests[q].batch \in Nat
        /\ requests'[q].batch = IF q \in Range(FirstHalf(b)) THEN b
                                ELSE IF q \in Range(SecondHalf(b)) THEN nextBatch
                                ELSE requests[q].batch
  <2> SUFFICES ASSUME NEW q \in RequestId
               PROVE  /\ requests[q].batch \in BatchId \cup {NoBatch}
                      /\ requests[q].batch \in BatchId =>
                           requests[q].batch < nextBatch /\ requests[q].batch \in Nat
                      /\ requests'[q].batch = IF q \in Range(FirstHalf(b)) THEN b
                                              ELSE IF q \in Range(SecondHalf(b)) THEN nextBatch
                                              ELSE requests[q].batch
    OBVIOUS
  <2>1. requests[q].batch \in BatchId \cup {NoBatch}
    BY DEF TypeOK, RequestRec
  <2>2. requests[q].batch \in BatchId => requests[q].batch \in Nat /\ requests[q].batch # NoBatch
    BY IdsNatural
  <2>3. requests[q].batch \in BatchId => requests[q].batch < nextBatch
    BY <1>fresh, <2>2 DEF FreshBatches, BatchInv, Books, KnownBatches
  <2> QED
    BY <2>1, <2>2, <2>3, RehomeRequests
(* Where the halves of b are after the split: x holds the first half. *)
<1>5. PICK x \in BatchId :
        /\ nextBatch \in BatchId /\ x # nextBatch /\ (x = b \/ x = nextBatch + 1)
        /\ batches'[x].members = FirstHalf(b) /\ batches'[x].state = batches[b].state
        /\ batches'[nextBatch].members = SecondHalf(b)
        /\ batches'[nextBatch].state = batches[b].state
        /\ x # b => batches'[b].state \notin ActiveBatch
        /\ \A c \in BatchId : c \notin {b, x, nextBatch} => batches'[c] = batches[c]
        /\ b # nextBatch
  <2>1. CASE SplitSealed(b)
    <3>1. /\ nextBatch \in BatchId /\ nextBatch + 1 \in BatchId /\ b < nextBatch
          /\ nextBatch \in Nat /\ b \in Nat /\ batches'[b].state = "superseded"
          /\ batches'[nextBatch] = Child(b, SecondHalf(b))
          /\ batches'[nextBatch + 1] = Child(b, FirstHalf(b))
          /\ \A c \in BatchId \ {b, nextBatch, nextBatch + 1} : batches'[c] = batches[c]
      BY <1>fresh, <2>1, SplitSealedFields
    <3>2. "superseded" \notin ActiveBatch /\ b # nextBatch /\ nextBatch + 1 # nextBatch
      BY <3>1 DEF ActiveBatch
    <3> QED
      BY <1>1, <3>1, <3>2
  <2>2. CASE SplitOpen(b)
    <3>1. /\ nextBatch \in BatchId /\ b < nextBatch /\ nextBatch \in Nat /\ b \in Nat
          /\ batches'[b].state = batches[b].state /\ batches'[b].members = FirstHalf(b)
          /\ batches'[nextBatch] = Child(b, SecondHalf(b))
          /\ \A c \in BatchId \ {b, nextBatch} : batches'[c] = batches[c]
      BY <1>fresh, <2>2, SplitOpenFields DEF SameState
    <3>2. b # nextBatch
      BY <3>1
    <3> QED
      BY <1>1, <3>1, <3>2
  <2> QED
    BY <2>1, <2>2 DEF DoSplit
<1>6. ASSUME NEW c \in BatchId, batches'[c].state \in ActiveBatch
      PROVE  \/ c \in {x, nextBatch} /\ Active(b)
             \/ c \notin {b, x, nextBatch} /\ Active(c) /\ batches'[c] = batches[c]
  BY <1>5, <1>6 DEF Active
<1>7. ASSUME NEW c \in BatchId, Active(c), c # b, Active(b)
      PROVE  /\ Members(c) \cap Range(FirstHalf(b)) = {}
             /\ Members(c) \cap Range(SecondHalf(b)) = {}
  BY <1>2, <1>7 DEF Layout, Disjoint
<1>8. Disjoint'
  <2> SUFFICES ASSUME NEW c \in BatchId, NEW d \in BatchId, c # d, batches'[c].state \in ActiveBatch,
                      batches'[d].state \in ActiveBatch
               PROVE  Range(batches'[c].members) \cap Range(batches'[d].members) = {}
    BY DEF Disjoint, Active, Members
  <2>1. CASE {c, d} = {x, nextBatch}
    <3>1. Active(b)
      BY <1>5, <1>6, <2>1
    <3> QED
      BY <1>3, <1>5, <2>1, <3>1
  <2>2. CASE c \notin {x, nextBatch} /\ d \notin {x, nextBatch}
    <3>1. /\ Active(c) /\ Active(d)
          /\ batches'[c] = batches[c] /\ batches'[d] = batches[d]
      BY <1>6, <2>2
    <3> QED
      BY <3>1 DEF Layout, Disjoint, Members
  <2>3. CASE c \in {x, nextBatch} /\ d \notin {x, nextBatch}
    <3>1. Active(d) /\ d # b /\ batches'[d] = batches[d] /\ Active(b)
      BY <1>6, <2>3
    <3> QED
      BY <1>5, <1>7, <2>3, <3>1 DEF Members
  <2>4. CASE d \in {x, nextBatch} /\ c \notin {x, nextBatch}
    <3>1. Active(c) /\ c # b /\ batches'[c] = batches[c] /\ Active(b)
      BY <1>6, <2>4
    <3> QED
      BY <1>5, <1>7, <2>4, <3>1 DEF Members
  <2> QED
    BY <2>1, <2>2, <2>3, <2>4
<1>9. NoRepeats'
  <2> SUFFICES ASSUME NEW c \in BatchId, batches'[c].state \in ActiveBatch
               PROVE  Distinct(batches'[c].members)
    BY DEF NoRepeats, Active
  <2>1. CASE c \notin {b, x, nextBatch} /\ Active(c) /\ batches'[c] = batches[c]
    BY <2>1 DEF Layout, NoRepeats
  <2>2. CASE (c = x \/ c = nextBatch) /\ Active(b)
    BY <1>3, <1>5, <2>2
  <2> QED
    BY <1>6, <2>1, <2>2
<1>10. FieldAgrees'
  <2> SUFFICES ASSUME NEW q \in RequestId, NEW c \in BatchId, batches'[c].state \in ActiveBatch,
                      q \in Range(batches'[c].members), requests'[q].batch # NoBatch,
                      batches'[requests'[q].batch].state \in ActiveBatch
               PROVE  requests'[q].batch = c
    BY DEF FieldAgrees, Active, Members
  <2>1. CASE c = x
    <3>1. Active(b) /\ q \in Range(FirstHalf(b))
      BY <1>5, <1>6, <2>1
    <3>2. requests'[q].batch = b
      BY <1>4, <3>1
    <3> QED
      BY <1>5, <2>1, <3>2
  <2>2. CASE c = nextBatch
    <3>1. Active(b) /\ q \in Range(SecondHalf(b))
      BY <1>5, <1>6, <2>2
    <3>2. q \notin Range(FirstHalf(b))
      BY <1>3, <3>1
    <3> QED
      BY <1>4, <2>2, <3>1, <3>2
  <2>3. CASE c \notin {b, x, nextBatch} /\ Active(c) /\ batches'[c] = batches[c]
    <3>1. q \in Members(c)
      BY <2>3 DEF Members
    <3>2. CASE q \in Members(b)
      <4>1. ~Active(b)
        BY <2>3, <3>1, <3>2 DEF Layout, Disjoint
      <4>2. requests'[q].batch \in {b, nextBatch}
        BY <1>2, <1>4, <3>2
      <4> QED
        BY <1>5, <1>6, <4>1, <4>2
    <3>3. CASE q \notin Members(b)
      <4>1. requests'[q].batch = requests[q].batch /\ requests[q].batch \in BatchId
        BY <1>2, <1>4, <3>3
      <4>2. requests[q].batch # nextBatch /\ requests[q].batch # nextBatch + 1
        BY <1>4, <1>fresh, <4>1
      <4>3. Active(requests[q].batch)
        BY <1>5, <1>6, <4>1, <4>2
      <4> QED
        BY <2>3, <3>1, <4>1, <4>3 DEF Layout, FieldAgrees
    <3> QED
      BY <3>2, <3>3
  <2> QED
    BY <1>6, <2>1, <2>2, <2>3
<1> QED
  BY <1>8, <1>9, <1>10 DEF Layout

LEMMA LayoutStep ==
  ASSUME TypeOK, BatchInv, Layout, StatesImplied, [Next]_vars
  PROVE  Layout'
<1>kept. ASSUME BatchesKept
         PROVE  \A c \in BatchId : batches'[c].state \in ActiveBatch => Active(c) /\ SameMembers(c)
  BY <1>kept DEF BatchesKept, SameState, Active
<1>1. CASE Submit
  <2>1. BatchesKept
    BY <1>1, KeptFields, SubmitRequests DEF batchVars
  <2>2. \A q \in RequestId : requests'[q].batch \in {requests[q].batch, NoBatch}
    BY <1>1, SubmitRequests
  <2> QED
    BY <1>kept, <2>1, <2>2, LayoutKept
<1>2. CASE Still
  <2>1. BatchesKept /\ requests' = requests
    BY <1>2, KeptFields DEF Still, batchVars, requestVars
  <2> QED
    BY <1>kept, <2>1, LayoutKept
<1>3. CASE ExpireWaiting
  <2>1. BatchesKept
    BY <1>3, KeptFields DEF ExpireWaiting, batchVars
  <2>2. \A q \in RequestId : requests'[q].batch \in {requests[q].batch, NoBatch}
    BY <1>3, ExpireRequests
  <2> QED
    BY <1>kept, <2>1, <2>2, LayoutKept
<1>4. CASE FillNewDone
  <2>1. BatchesKept /\ requests' = requests
    BY <1>4, FillNewFields DEF FillNewDone, requestVars
  <2> QED
    BY <1>kept, <2>1, LayoutKept
<1>5. ASSUME NEW r \in RequestId, Retry(r) PROVE Layout'
  <2>1. BatchesKept
    BY <1>5, KeptFields DEF Retry, batchVars
  <2>2. \A q \in RequestId : requests'[q].batch \in {requests[q].batch, NoBatch}
    BY <1>5, RetryRequests DEF Retry
  <2> QED
    BY <1>kept, <2>1, <2>2, LayoutKept
<1>6. ASSUME NEW r \in RequestId, CompleteMember(r) \/ FailMember(r) PROVE Layout'
  <2>1. PICK status : ApplyOutcome(r, status)
    BY <1>6 DEF CompleteMember, FailMember
  <2>2. BatchesKept
    BY <2>1, OutcomeFields
  <2>3. requests'[r].batch \in {requests[r].batch, NoBatch}
    BY <2>1, OutcomeRequests, RetryRequests
  <2>4. \A q \in RequestId : requests'[q].batch \in {requests[q].batch, NoBatch}
    BY <2>1, <2>3, OutcomeRequests
  <2> QED
    BY <1>kept, <2>2, <2>4, LayoutKept
<1>7. ASSUME NEW b \in BatchId, DoSeal(b) PROVE Layout'
  <2>1. \A c \in BatchId : batches'[c].state \in ActiveBatch => Active(c) /\ SameMembers(c)
    BY <1>7, SealFields DEF SameState, Active, ActiveBatch
  <2>2. \A q \in RequestId : requests'[q].batch \in {requests[q].batch, NoBatch}
    <3>1. \A q \in RequestId : requests[q] \in RequestRec
      BY DEF TypeOK
    <3>2. \A q \in RequestId : requests'[q] \in {requests[q], [requests[q] EXCEPT !.state = "batched"]}
      BY <1>7, SealRequests
    <3> QED
      BY <3>1, <3>2 DEF RequestRec
  <2> QED
    BY <2>1, <2>2, LayoutKept
<1>8. ASSUME NEW b \in BatchId, NEW state, NEW w, Handed(b, state, w), Advance(b, state)
      PROVE  Layout'
  <2>1. \A c \in BatchId : batches'[c].state \in ActiveBatch => Active(c) /\ SameMembers(c)
    BY <1>8 DEF Handed, SameState, Active, ActiveBatch
  <2>2. \A q \in RequestId : requests'[q].batch \in {requests[q].batch, NoBatch}
    BY <1>8, AdvanceRequests
  <2> QED
    BY <2>1, <2>2, LayoutKept
<1>9. ASSUME NEW b \in BatchId, StartRun(b) \/ \E w \in Worker : PrepareDispatch(b, w) PROVE Layout'
  BY <1>8, <1>9, RunFields, DispatchFields DEF StartRun, PrepareDispatch
<1>10. CASE CompleteDone
  <2>1. \A c \in BatchId : batches'[c].state \in ActiveBatch => Active(c) /\ SameMembers(c)
    BY <1>10, DoneFields DEF SameState, Active, ActiveBatch
  <2>2. requests' = requests
    BY <1>10 DEF CompleteDone, requestVars
  <2> QED
    BY <2>1, <2>2, LayoutKept
<1> QED
  BY <1>1, <1>2, <1>3, <1>4, <1>5, <1>6, <1>7, <1>9, <1>10, StepKinds,
     CancelLayout, MakeLayout, PlaceLayout, MergeLayout, SplitLayout

-----------------------------------------------------------------------------
(* The states of the members. *)

(* A step that adds no member to an active batch, makes none active, and    *)
(* leaves the members that stay in the states the batch implies.            *)
LEMMA StatesKept ==
  ASSUME TypeOK, StatesImplied, op.pc # "complete",
         \A c \in BatchId : batches'[c].state \in ActiveBatch =>
           /\ batches'[c].state = batches[c].state
           /\ \A q \in Range(batches'[c].members) :
                /\ q \in Members(c)
                /\ requests'[q].state \in {requests[q].state} \cup Implied(batches[c].state)
  PROVE  StatesImplied'
BY DEF StatesImplied, Reported, Active, Members

(* cancel() leaves a forming batch, or leaves a cancelled member behind. *)
LEMMA CancelStates ==
  ASSUME TypeOK, Layout, StatesImplied, op.pc # "complete", NEW r \in RequestId, DoCancel(r)
  PROVE  StatesImplied'
<1>1. \A c \in BatchId : batches'[c].state = batches[c].state
  BY CancelFields DEF SameState
<1>2. \A c \in BatchId : Range(batches'[c].members) \subseteq Members(c)
  <2> SUFFICES ASSUME NEW c \in BatchId PROVE Range(batches'[c].members) \subseteq Members(c)
    OBVIOUS
  <2>1. batches'[c].members \in {batches[c].members, Without(batches[c].members, r)}
    BY CancelFields DEF SameMembers
  <2>2. Range(Without(batches[c].members, r)) \subseteq Members(c)
    BY MemberTypes, WithoutRange DEF Members
  <2> QED
    BY <2>1, <2>2 DEF Members
<1>3. \A q \in RequestId : q # r => requests'[q] = requests[q]
  BY CancelRequests
<1>4. ASSUME NEW c \in BatchId, Active(c), r \in Range(batches'[c].members)
      PROVE  requests'[r].state \in Implied(batches[c].state)
  <2>1. r \in Members(c) /\ requests'[r].state = "cancelled" /\ Live(r)
    BY <1>2, <1>4, CancelRequests DEF DoCancel
  <2>2. CASE CancelQueued(r)
    <3>1. requests[r].state \notin {"reserved", "batched", "dispatched", "running", "cancelled"}
      BY <2>1, <2>2 DEF CancelQueued, InBatchState, Live, Terminal
    <3> QED
      BY <1>4, <2>1, <3>1, Loose
  <2>3. CASE CancelForming(r)
    <3>1. /\ requests[r].batch \in BatchId /\ requests[r].batch # NoBatch
          /\ batches[requests[r].batch].state = "forming"
          /\ batches' = [batches EXCEPT ![requests[r].batch].members = Without(@, r)]
      BY <2>3, IdsNatural DEF CancelForming, StateOfBatch, TypeOK, RequestRec
    <3>2. requests[r].batch = c
      BY <1>4, <2>1, <3>1 DEF Layout, FieldAgrees, Active, ActiveBatch
    <3>3. batches'[c].members = Without(batches[c].members, r)
      BY <3>1, <3>2 DEF TypeOK, BatchRec
    <3>4. r \notin Range(Without(batches[c].members, r))
      BY <1>4, WithoutKeeps, MemberTypes DEF Layout, NoRepeats
    <3> QED
      BY <1>4, <3>3, <3>4
  <2>4. CASE CancelSealed(r)
    <3>1. /\ requests[r].batch \in BatchId /\ requests[r].batch # NoBatch
          /\ batches[requests[r].batch].state \in {"sealed", "dispatched", "running"}
      BY <2>4, IdsNatural DEF CancelSealed, StateOfBatch, TypeOK, RequestRec
    <3>2. requests[r].batch = c
      BY <1>4, <2>1, <3>1 DEF Layout, FieldAgrees, Active, ActiveBatch
    <3> QED
      BY <2>1, <3>1, <3>2 DEF Implied
  <2> QED
    BY <2>2, <2>3, <2>4 DEF DoCancel
<1>5. ASSUME NEW c \in BatchId, batches'[c].state \in ActiveBatch, NEW q \in Range(batches'[c].members)
      PROVE  /\ q \in Members(c)
             /\ requests'[q].state \in {requests[q].state} \cup Implied(batches[c].state)
  <2>1. q \in Members(c) /\ q \in RequestId /\ Active(c)
    BY <1>1, <1>2, <1>5, MemberTypes DEF Active
  <2> QED
    BY <1>3, <1>4, <1>5, <2>1
<1> QED
  BY <1>1, <1>5, StatesKept

(* A request joins a forming batch as a reserved one. *)
LEMMA PlaceStates ==
  ASSUME TypeOK, BatchInv, StatesImplied, NEW r \in RequestId, Place(r)
  PROVE  StatesImplied'
<1>1. /\ op.cur \in BatchId
      /\ \A c \in BatchId : batches'[c].state = batches[c].state
      /\ \A c \in BatchId : c # op.cur => batches'[c].members = batches[c].members
      /\ batches'[op.cur].members = Append(batches[op.cur].members, r)
  BY PlaceFields DEF SameState, SameMembers
<1>2. batches[op.cur].state \in Fillable /\ op.pc # "complete"
  BY FilledBatch DEF Place
<1>3. \A c \in BatchId : Active(c) => r \notin Members(c)
  BY <1>2, Loose, PlaceRequests DEF WaitingState
<1>4. Range(batches'[op.cur].members) = Members(op.cur) \cup {r}
  <2>1. Range(Append(batches[op.cur].members, r)) = Range(batches[op.cur].members) \cup {r}
    BY <1>1, AppendRange, MemberTypes
  <2> QED
    BY <1>1, <2>1 DEF Members
<1> SUFFICES ASSUME NEW c \in BatchId, Active(c), NEW q \in Range(batches'[c].members)
             PROVE  requests'[q].state \in Implied(batches[c].state)
  BY <1>1 DEF StatesImplied, Active, Members
<1>5. CASE q = r
  <2>1. c = op.cur
    BY <1>1, <1>3, <1>5 DEF Members
  <2>2. batches[c].state = "forming"
    BY <1>2, <2>1 DEF Fillable, Active, ActiveBatch
  <2> QED
    BY <1>5, <2>2, PlaceRequests DEF Implied
<1>6. CASE q # r
  <2>1. q \in Members(c)
    BY <1>1, <1>4, <1>6 DEF Members
  <2>2. q \in RequestId
    BY <2>1, MemberTypes
  <2>3. requests'[q] = requests[q]
    BY <1>6, <2>2, PlaceRequests
  <2> QED
    BY <1>2, <2>1, <2>3 DEF StatesImplied, Reported
<1> QED
  BY <1>5, <1>6

LEMMA MergeStates ==
  ASSUME TypeOK, StatesImplied, op.pc # "complete",
         NEW a \in BatchId, NEW b \in BatchId, a # b, DoMerge(a, b)
  PROVE  StatesImplied'
<1>1. /\ \A c \in BatchId : c # a => SameMembers(c)
      /\ \A c \in BatchId : c # b => SameState(c)
      /\ batches'[a].members = batches[a].members \o batches[b].members
      /\ batches'[b].state = "superseded"
      /\ batches[a].state \in {"sealed", "forming"} /\ batches[b].state = batches[a].state
  BY MergeFields
<1>2. Range(batches'[a].members) = Members(a) \cup Members(b)
  <2>1. Range(batches[a].members \o batches[b].members) = Members(a) \cup Members(b)
    BY RangeConcatenation, MemberTypes DEF Members
  <2> QED
    BY <1>1, <2>1
<1> SUFFICES ASSUME NEW c \in BatchId, batches'[c].state \in ActiveBatch,
                    NEW q \in Range(batches'[c].members)
             PROVE  requests'[q].state \in Implied(batches'[c].state)
  BY DEF StatesImplied, Active, Members
<1>3. PICK d \in BatchId : Active(d) /\ batches[d].state = batches'[c].state /\ q \in Members(d)
  <2>1. c # b /\ batches'[c].state = batches[c].state
    BY <1>1 DEF ActiveBatch, SameState
  <2>2. CASE c = a
    BY <1>1, <1>2, <2>1, <2>2 DEF Active
  <2>3. CASE c # a
    BY <1>1, <2>1, <2>3 DEF Active, Members, SameMembers
  <2> QED
    BY <2>2, <2>3
<1>4. q \in RequestId
  BY <1>3, MemberTypes
<1>5. requests'[q].state = requests[q].state
  BY <1>4, MergeRequests
<1> QED
  BY <1>3, <1>5 DEF StatesImplied, Reported

LEMMA SplitStates ==
  ASSUME TypeOK, BatchInv, StatesImplied, op.pc # "complete", NEW b \in BatchId, DoSplit(b)
  PROVE  StatesImplied'
<1>fresh. FreshBatches /\ nextBatch \in Nat
  BY DEF BatchInv, Books, TypeOK
<1>1. \A m : Child(b, m).members = m /\ Child(b, m).state = batches[b].state
  BY ChildFields
<1>2. Range(FirstHalf(b)) \cup Range(SecondHalf(b)) = Members(b)
  BY HalvesSplit
<1> SUFFICES ASSUME NEW c \in BatchId, batches'[c].state \in ActiveBatch,
                    NEW q \in Range(batches'[c].members)
             PROVE  requests'[q].state \in Implied(batches'[c].state)
  BY DEF StatesImplied, Active, Members
<1>3. PICK d \in BatchId : batches[d].state = batches'[c].state /\ q \in Members(d)
  <2>1. CASE SplitSealed(b)
    <3>1. /\ batches'[b].state = "superseded"
          /\ batches'[nextBatch] = Child(b, SecondHalf(b))
          /\ batches'[nextBatch + 1] = Child(b, FirstHalf(b))
          /\ \A e \in BatchId \ {b, nextBatch, nextBatch + 1} : batches'[e] = batches[e]
      BY <1>fresh, <2>1, SplitSealedFields
    <3>2. c # b
      BY <3>1 DEF ActiveBatch
    <3> QED
      BY <1>1, <1>2, <3>1, <3>2 DEF Members
  <2>2. CASE SplitOpen(b)
    <3>1. /\ batches'[b].state = batches[b].state /\ batches'[b].members = FirstHalf(b)
          /\ batches'[nextBatch] = Child(b, SecondHalf(b))
          /\ \A e \in BatchId \ {b, nextBatch} : batches'[e] = batches[e]
      BY <1>fresh, <2>2, SplitOpenFields DEF SameState
    <3> QED
      BY <1>1, <1>2, <3>1 DEF Members
  <2> QED
    BY <2>1, <2>2 DEF DoSplit
<1>4. q \in RequestId
  BY <1>3, MemberTypes
<1>5. requests'[q].state = requests[q].state
  BY <1>4, RehomeRequests
<1> QED
  BY <1>3, <1>5 DEF StatesImplied, Reported, Active

(* A seal or a hand-out moves the members of its batch on, and those alone. *)
LEMMA MoveStates ==
  ASSUME TypeOK, Layout, StatesImplied, op.pc # "complete", NEW b \in BatchId, NEW from, NEW to,
         Active(b), \A c \in BatchId : SameMembers(c),
         \A c \in BatchId : c # b => SameState(c),
         Implied(batches[b].state) \subseteq {from, "cancelled"},
         Implied(batches[b].state) \ {from} \subseteq Implied(batches'[b].state),
         to \in Implied(batches'[b].state),
         \A q \in RequestId : requests'[q].state =
           IF q \in Members(b) /\ requests[q].state = from THEN to ELSE requests[q].state
  PROVE  StatesImplied'
<1> SUFFICES ASSUME NEW c \in BatchId, batches'[c].state \in ActiveBatch, NEW q \in Members(c)
             PROVE  requests'[q].state \in Implied(batches'[c].state)
  BY DEF StatesImplied, Active, Members, SameMembers
<1>1. q \in RequestId
  BY MemberTypes
<1>2. CASE c = b
  <2>1. requests[q].state \in Implied(batches[b].state)
    BY <1>2 DEF StatesImplied, Reported
  <2> QED
    BY <1>1, <1>2, <2>1
<1>3. CASE c # b
  <2>1. batches'[c].state = batches[c].state /\ Active(c)
    BY <1>3 DEF SameState, Active
  <2>2. q \notin Members(b)
    BY <1>3, <2>1 DEF Layout, Disjoint
  <2>3. requests[q].state \in Implied(batches[c].state)
    BY <2>1 DEF StatesImplied, Reported
  <2> QED
    BY <1>1, <2>1, <2>2, <2>3
<1> QED
  BY <1>2, <1>3

(* What is left of the report under way are members that are executing. *)
Todo ==
  op.pc = "complete" =>
    \A r \in op.todo : r \in Members(op.cur) /\ requests[r].state \in HandedOut

(* Every step keeps the states of the members as their batches imply them.  *)
(* In the middle of a report the members of the reported batch end one by   *)
(* one; its last step ends the batch itself.                                *)
LEMMA StatesStep ==
  ASSUME CarefulStep, TypeOK, BatchInv, AttemptInv, Layout, StatesImplied, IndexCoherent, Todo,
         NotFailing, [Next]_vars
  PROVE  StatesImplied'
<1>1. CASE op.pc = "complete"
  <2>1. CASE UNCHANGED vars
    <3>1. UNCHANGED <<batches, requests, op>>
      BY <2>1 DEF vars, batchVars, requestVars
    <3> QED
      BY <3>1 DEF StatesImplied, Reported, Active, Members
  <2>2. CASE CompleteDone
    <3>1. /\ \A c \in BatchId : SameMembers(c)
          /\ \A c \in BatchId : c # op.cur => SameState(c)
          /\ batches'[op.cur].state \notin ActiveBatch /\ requests' = requests
      BY <2>2, DoneFields DEF CompleteDone, requestVars, ActiveBatch
    <3> QED
      BY <3>1 DEF StatesImplied, Reported, Active, Members, SameMembers, SameState
  <2>3. ASSUME NEW r \in RequestId, CompleteMember(r) PROVE StatesImplied'
    <3>1. /\ op.cur \in BatchId /\ op'.cur = op.cur /\ op'.pc = "complete"
          /\ r \in op.todo /\ ApplyOutcome(r, op.report[r])
      BY <2>3 DEF CompleteMember, TypeOK, OpOK, OpRec
    <3>2. r \in Members(op.cur) /\ Active(op.cur)
      BY <1>1, <3>1 DEF Todo, BatchInv, OpBatches, HandedOut, Active, ActiveBatch
    <3>3. \A c \in BatchId : SameState(c) /\ SameMembers(c)
      BY <3>1, OutcomeFields DEF BatchesKept
    <3>4. \A q \in RequestId : q # r => requests'[q] = requests[q]
      BY <3>1, OutcomeRequests
    <3> SUFFICES ASSUME NEW c \in BatchId, Active(c), c # op.cur, NEW q \in Members(c)
                 PROVE  requests'[q].state \in Implied(batches[c].state)
      BY <3>1, <3>3 DEF StatesImplied, Reported, Active, Members, SameState, SameMembers
    <3>5. q # r /\ q \in RequestId
      BY <3>1, <3>2, MemberTypes DEF Layout, Disjoint
    <3> QED
      BY <3>4, <3>5 DEF StatesImplied, Reported
  <2> QED
    BY <1>1, <2>1, <2>2, <2>3, ReportExit
<1>2. CASE op.pc # "complete"
  <2>kept. ASSUME BatchesKept,
                  \A q \in RequestId : \/ requests'[q].state = requests[q].state
                                       \/ \A c \in BatchId : Active(c) => q \notin Members(c)
           PROVE  StatesImplied'
    <3>1. \A c \in BatchId : SameState(c) /\ SameMembers(c)
      BY <2>kept DEF BatchesKept
    <3>2. \A c \in BatchId : batches'[c].state \in ActiveBatch =>
            /\ batches'[c].state = batches[c].state
            /\ \A q \in Range(batches'[c].members) :
                 /\ q \in Members(c)
                 /\ requests'[q].state \in {requests[q].state} \cup Implied(batches[c].state)
      BY <2>kept, <3>1, MemberTypes DEF SameState, SameMembers, Members, Active
    <3> QED
      BY <1>2, <3>2, StatesKept
  <2>1. CASE Submit
    <3>1. BatchesKept
      BY <2>1, KeptFields, SubmitRequests DEF batchVars
    <3>2. nextRequest \in RequestId /\ requests[nextRequest].state = "created"
      BY <2>1, SubmitRequests DEF TypeOK, AttemptInv, AttemptNumbers
    <3>3. \A c \in BatchId : Active(c) => nextRequest \notin Members(c)
      BY <1>2, <3>2, Loose
    <3> QED
      BY <2>1, <2>kept, <3>1, <3>3, SubmitRequests
  <2>2. CASE Still
    <3>1. BatchesKept /\ requests' = requests
      BY <2>2, KeptFields DEF Still, batchVars, requestVars
    <3> QED
      BY <2>kept, <3>1
  <2>3. CASE ExpireWaiting
    <3>1. BatchesKept
      BY <2>3, KeptFields DEF ExpireWaiting, batchVars
    <3>2. ASSUME NEW q \in RequestId, requests'[q].state # requests[q].state
          PROVE  \A c \in BatchId : Active(c) => q \notin Members(c)
      <4>1. waiting[q] > 0
        BY <2>3, <3>2, ExpireRequests
      <4>2. requests[q].state = "eligible"
        BY <4>1 DEF IndexCoherent
      <4> QED
        BY <1>2, <4>2, Loose
    <3> QED
      BY <2>kept, <3>1, <3>2
  <2>4. CASE FillNewDone
    <3>1. BatchesKept /\ requests' = requests
      BY <2>4, FillNewFields DEF FillNewDone, requestVars
    <3> QED
      BY <2>kept, <3>1
  <2>5. ASSUME NEW r \in RequestId, Retry(r) PROVE StatesImplied'
    <3>1. BatchesKept
      BY <2>5, KeptFields DEF Retry, batchVars
    <3>2. requests[r].state \in Terminal \ {"cancelled"}
      BY <2>5 DEF CarefulStep
    <3>3. \A c \in BatchId : Active(c) => r \notin Members(c)
      BY <1>2, <3>2, Loose DEF Terminal
    <3>4. \A q \in RequestId : q # r => requests'[q] = requests[q]
      BY <2>5, RetryRequests DEF Retry
    <3> QED
      BY <2>kept, <3>1, <3>3, <3>4
  <2>6. ASSUME NEW k \in Key, MakeForming(k) PROVE StatesImplied'
    <3>1. /\ nextBatch \in BatchId /\ batches'[nextBatch].members = <<>>
          /\ \A c \in BatchId : c # nextBatch => batches'[c] = batches[c]
      BY <2>6, MakeFields
    <3>2. Range(batches'[nextBatch].members) = {} /\ requests' = requests
      BY <2>6, <3>1 DEF Range, MakeForming, requestVars
    <3> QED
      BY <1>2, <3>1, <3>2 DEF StatesImplied, Reported, Active, Members
  <2>7. ASSUME NEW b \in BatchId, DoSeal(b) PROVE StatesImplied'
    <3>1. /\ \A c \in BatchId : SameMembers(c)
          /\ \A c \in BatchId : c # b => SameState(c)
          /\ batches[b].state = "forming" /\ batches'[b].state = "sealed"
      BY <2>7, SealFields
    <3>2. /\ Active(b) /\ Implied(batches[b].state) = {"reserved"}
          /\ Implied(batches'[b].state) = {"batched", "cancelled"}
      BY <3>1 DEF Active, ActiveBatch, Implied
    <3>3. \A q \in RequestId : requests'[q].state =
            IF q \in Members(b) /\ requests[q].state = "reserved" THEN "batched" ELSE requests[q].state
      BY <2>7 DEF DoSeal, TypeOK, RequestRec
    <3> QED
      BY <1>2, <3>1, <3>2, <3>3, MoveStates
  <2>8. ASSUME NEW b \in BatchId, NEW state \in HandedOut, NEW w, Handed(b, state, w), Advance(b, state)
        PROVE  StatesImplied'
    <3>1. /\ \A c \in BatchId : SameMembers(c)
          /\ \A c \in BatchId : c # b => SameState(c)
          /\ batches[b].state = "sealed" /\ batches'[b].state = state
      BY <2>8 DEF Handed
    <3>2. /\ Active(b) /\ Implied(batches[b].state) = {"batched", "cancelled"}
          /\ Implied(batches'[b].state) = {state, "cancelled"}
      BY <3>1 DEF Active, ActiveBatch, Implied, HandedOut
    <3>3. \A q \in RequestId : requests'[q].state =
            IF q \in Members(b) /\ requests[q].state = "batched" THEN state ELSE requests[q].state
      BY <2>8 DEF Advance, TypeOK, RequestRec
    <3> QED
      BY <1>2, <3>1, <3>2, <3>3, MoveStates
  <2>9. ASSUME NEW b \in BatchId, StartRun(b) \/ \E w \in Worker : PrepareDispatch(b, w)
        PROVE  StatesImplied'
    BY <2>8, <2>9, RunFields, DispatchFields DEF StartRun, PrepareDispatch, HandedOut
  <2>10. ~CompleteDone /\ ~ \E r \in RequestId : CompleteMember(r) \/ FailMember(r)
    BY <1>2 DEF CompleteDone, CompleteMember, FailMember, NotFailing
  <2> QED
    BY <1>2, <2>1, <2>2, <2>3, <2>4, <2>5, <2>6, <2>7, <2>9, <2>10, StepKinds,
       CancelStates, PlaceStates, MergeStates, SplitStates
<1> QED
  BY <1>1, <1>2

-----------------------------------------------------------------------------
(* The waiting index. *)

Indexed(r) ==
  /\ waiting[r] = IF requests[r].queued THEN 1 ELSE 0
  /\ requests[r].queued <=> requests[r].state = "eligible"

(* A request that is not in the index, before and after a step that leaves  *)
(* its flag and its place in the index alone.                               *)
LEMMA Unindexed ==
  ASSUME NEW r \in RequestId, Indexed(r),
         waiting'[r] = waiting[r], requests'[r].queued = requests[r].queued,
         requests'[r].state = "eligible" <=> requests[r].state = "eligible"
  PROVE  Indexed(r)'
BY DEF Indexed

(* Every step keeps the index and the requests in step: what enters it has  *)
(* a flag that says so, and what leaves it loses the flag.                  *)
LEMMA IndexStep ==
  ASSUME CarefulStep, TypeOK, BatchInv, AttemptInv, StatesImplied, IndexCoherent, Todo,
         NotFailing, [Next]_vars
  PROVE  IndexCoherent'
<1>types. /\ requests \in [RequestId -> RequestRec] /\ waiting \in [RequestId -> Nat]
          /\ \A q \in RequestId : Indexed(q)
  BY DEF TypeOK, IndexCoherent, Indexed
<1> SUFFICES ASSUME NEW q \in RequestId PROVE Indexed(q)'
  BY DEF IndexCoherent, Indexed
<1>kept. ASSUME waiting' = waiting, requests' = requests
         PROVE  Indexed(q)'
  BY <1>kept, <1>types DEF Indexed
<1>1. CASE Submit
  <2>1. PICK m \in Offered : SubmitExpired(m) \/ SubmitOversized(m) \/ SubmitDeferred(m) \/ SubmitAdmitted(m)
    BY <1>1 DEF Submit
  <2>2. nextRequest \in RequestId /\ requests[nextRequest].state = "created"
    BY <1>1, SubmitRequests DEF TypeOK, AttemptInv, AttemptNumbers
  <2>3. waiting[nextRequest] = 0
    BY <1>types, <2>2 DEF Indexed
  <2>4. CASE SubmitAdmitted(m)
    <3>1. /\ waiting' = [waiting EXCEPT ![nextRequest] = @ + 1]
          /\ requests' = [requests EXCEPT ![nextRequest] =
               [state |-> "eligible", attempt |-> 1, batch |-> NoBatch,
                queued |-> TRUE, submitted |-> clock]]
      BY <2>4 DEF SubmitAdmitted, NewRequest
    <3> QED
      BY <1>types, <2>2, <2>3, <3>1 DEF Indexed
  <2>5. ASSUME NEW state \in {"expired", "rejected", "waiting"}, NEW outcome,
               NewRequest(m, state, outcome), waiting' = waiting
        PROVE  Indexed(q)'
    <3>1. requests' = [requests EXCEPT ![nextRequest] =
            [state |-> state, attempt |-> 1, batch |-> NoBatch,
             queued |-> FALSE, submitted |-> clock]]
      BY <2>5 DEF NewRequest
    <3> QED
      BY <1>types, <2>2, <2>3, <2>5, <3>1 DEF Indexed
  <2> QED
    BY <2>1, <2>4, <2>5 DEF SubmitExpired, SubmitOversized, SubmitDeferred
<1>2. CASE Still \/ FillNewDone \/ CompleteDone \/ \E k \in Key : MakeForming(k)
  BY <1>2, <1>kept DEF Still, FillNewDone, CompleteDone, MakeForming, requestVars
<1>3. CASE ExpireWaiting
  <2>1. CASE waiting[q] > 0
    <3>1. requests[q].queued /\ requests[q].state = "eligible"
      BY <1>types, <2>1 DEF Indexed
    <3> QED
      BY <1>3, <1>types, <2>1, <3>1 DEF ExpireWaiting, Indexed, RequestRec, Terminal
  <2>2. CASE waiting[q] = 0
    <3>1. requests'[q] = requests[q]
      <4>1. ~(waiting[q] > 0)
        BY <2>2
      <4> QED
        BY <1>3, <4>1, ExpireRequests
    <3>2. waiting'[q] = waiting[q]
      BY <1>3, <2>2 DEF ExpireWaiting
    <3> QED
      BY <1>types, <3>1, <3>2 DEF Indexed
  <2> QED
    BY <1>types, <2>1, <2>2
<1>4. ASSUME NEW r \in RequestId, DoCancel(r) PROVE Indexed(q)'
  <2>1. CASE q # r
    <3>1. requests'[q] = requests[q] /\ waiting'[q] = waiting[q]
      BY <1>4, <2>1, CancelRequests
    <3> QED
      BY <1>types, <3>1 DEF Indexed
  <2>2. CASE q = r /\ CancelQueued(r)
    <3>1. /\ requests' = [requests EXCEPT ![r].state = "cancelled", ![r].queued = FALSE]
          /\ waiting' = IF requests[r].queued /\ waiting[r] > 0
                          THEN [waiting EXCEPT ![r] = @ - 1] ELSE waiting
      BY <2>2 DEF CancelQueued
    <3>2. waiting[r] = (IF requests[r].queued THEN 1 ELSE 0)
      BY <1>types DEF Indexed
    <3>3. waiting'[r] = 0
      BY <1>types, <3>1, <3>2
    <3> QED
      BY <1>types, <2>2, <3>1, <3>3 DEF Indexed, RequestRec
  <2>3. CASE q = r /\ (CancelForming(r) \/ CancelSealed(r))
    <3>1. /\ requests[r].state \in InBatchState /\ waiting' = waiting
          /\ requests'[r].state = "cancelled" /\ requests'[r].queued = requests[r].queued
      BY <1>types, <2>3 DEF CancelForming, CancelSealed, RequestRec
    <3>2. requests[r].state # "eligible"
      BY <3>1 DEF InBatchState
    <3> QED
      BY <1>types, <2>3, <3>1, <3>2, Unindexed
  <2> QED
    BY <1>4, <2>1, <2>2, <2>3 DEF DoCancel
<1>5. ASSUME NEW r \in RequestId, Place(r) PROVE Indexed(q)'
  <2>1. CASE q # r
    <3>1. requests'[q] = requests[q] /\ waiting'[q] = waiting[q]
      BY <1>5, <2>1, PlaceRequests
    <3> QED
      BY <1>types, <3>1 DEF Indexed
  <2>2. CASE q = r
    <3>1. /\ waiting[r] > 0 /\ waiting'[r] = waiting[r] - 1
          /\ requests'[r].queued = FALSE /\ requests'[r].state = "reserved"
      BY <1>5, PlaceRequests
    <3>2. waiting[r] = 1
      BY <1>types, <3>1 DEF Indexed
    <3> QED
      BY <2>2, <3>1, <3>2 DEF Indexed
  <2> QED
    BY <2>1, <2>2
<1>6. ASSUME NEW b \in BatchId, DoSeal(b), waiting' = waiting PROVE Indexed(q)'
  <2>1. /\ requests'[q].queued = requests[q].queued
        /\ requests'[q].state = "eligible" <=> requests[q].state = "eligible"
    BY <1>6, <1>types DEF DoSeal, RequestRec
  <2> QED
    BY <1>6, <1>types, <2>1, Unindexed
<1>7. ASSUME NEW b \in BatchId, NEW state \in HandedOut, Advance(b, state), waiting' = waiting
      PROVE  Indexed(q)'
  <2>1. /\ requests'[q].queued = requests[q].queued
        /\ requests'[q].state = "eligible" <=> requests[q].state = "eligible"
    BY <1>7, AdvanceRequests DEF HandedOut
  <2> QED
    BY <1>7, <1>types, <2>1, Unindexed
<1>8. ASSUME NEW b \in BatchId, StartRun(b) \/ \E w \in Worker : PrepareDispatch(b, w)
      PROVE  Indexed(q)'
  BY <1>7, <1>8 DEF StartRun, PrepareDispatch, HandedOut
<1>9. ASSUME NEW a \in BatchId, NEW b \in BatchId, DoMerge(a, b) \/ DoSplit(b) PROVE Indexed(q)'
  <2>1. waiting' = waiting
    BY <1>9 DEF DoMerge, DoSplit
  <2>2. requests'[q].queued = requests[q].queued /\ requests'[q].state = requests[q].state
    BY <1>9, MergeRequests, RehomeRequests
  <2> QED
    BY <1>types, <2>1, <2>2, Unindexed
<1>10. ASSUME NEW r \in RequestId, Requeue(r), requests[r].state # "eligible"
       PROVE  Indexed(q)'
  <2>1. CASE q # r
    BY <1>10, <1>types, <2>1, RetryRequests, ZenonT(30) DEF Indexed
  <2>2. CASE q = r
    <3>1. /\ waiting[r] = 0 /\ waiting'[r] = waiting[r] + 1
          /\ requests'[r].queued = TRUE /\ requests'[r].state = "eligible"
      BY <1>10, <1>types, RetryRequests DEF Indexed
    <3> QED
      BY <2>2, <3>1 DEF Indexed
  <2> QED
    BY <2>1, <2>2
<1>11. ASSUME NEW r \in RequestId, Retry(r) PROVE Indexed(q)'
  <2>1. Requeue(r) /\ requests[r].state \in Terminal \ {"cancelled"}
    BY <1>11 DEF CarefulStep, Retry
  <2> QED
    BY <1>10, <2>1 DEF Terminal
<1>12. ASSUME NEW r \in RequestId, CompleteMember(r) PROVE Indexed(q)'
  <2>1. ApplyOutcome(r, op.report[r]) /\ requests[r].state \in HandedOut
    BY <1>12 DEF CompleteMember, Todo
  <2>2. CASE q # r
    BY <1>types, <2>1, <2>2, OutcomeRequests DEF Indexed
  <2>3. CASE q = r
    <3>1. requests[r].state # "eligible"
      BY <2>1 DEF HandedOut
    <3>2. CASE Requeue(r)
      BY <1>10, <3>1, <3>2
    <3>3. CASE ~Requeue(r)
      <4>1. /\ waiting'[r] = waiting[r] /\ requests'[r].queued = requests[r].queued
            /\ requests'[r].state # "eligible"
        BY <2>1, <3>1, <3>3, OutcomeRequests
      <4> QED
        BY <1>types, <2>3, <3>1, <4>1, Unindexed
    <3> QED
      BY <3>2, <3>3
  <2> QED
    BY <2>2, <2>3
<1>13. ~ \E r \in RequestId : FailMember(r)
  BY DEF FailMember, NotFailing
<1> QED
  BY <1>1, <1>2, <1>3, <1>4, <1>5, <1>6, <1>8, <1>9, <1>11, <1>12, <1>13, StepKinds

-----------------------------------------------------------------------------
(* The outcome of a request that has ended is in its attempts. *)

Recorded(r) ==
  requests[r].state \in Terminal => attempts[r][requests[r].attempt].state = requests[r].state

EndRecorded == \A r \in RequestId : Recorded(r)

LEMMA EndRequestRecords ==
  ASSUME TypeOK, AttemptInv, NEW r \in RequestId, requests[r].state # "created",
         NEW state, NEW outcome, EndRequest(r, state, outcome)
  PROVE  /\ attempts'[r][requests[r].attempt].state = state
         /\ \A q \in RequestId : q # r => attempts'[q] = attempts[q]
<1>1. /\ attempts \in [RequestId -> Seq(AttemptRec)]
      /\ requests[r].attempt = Len(attempts[r]) /\ requests[r].attempt # 0
  BY DEF TypeOK, AttemptInv, AttemptNumbers
<1>2. requests[r].attempt \in DOMAIN attempts[r]
  BY <1>1
<1> QED
  BY <1>1, <1>2 DEF EndRequest

LEMMA RecordKept ==
  ASSUME EndRecorded, NEW q \in RequestId, attempts'[q] = attempts[q],
         requests'[q].attempt = requests[q].attempt,
         requests'[q].state \in Terminal => requests'[q].state = requests[q].state
  PROVE  Recorded(q)'
BY DEF EndRecorded, Recorded

(* Whoever ends a request records its end in the current attempt. *)
LEMMA EndStep ==
  ASSUME TypeOK, BatchInv, AttemptInv, EndRecorded, [Next]_vars
  PROVE  EndRecorded'
<1>types. /\ requests \in [RequestId -> RequestRec]
          /\ attempts \in [RequestId -> Seq(AttemptRec)]
  BY DEF TypeOK
<1> SUFFICES ASSUME NEW q \in RequestId PROVE Recorded(q)'
  BY DEF EndRecorded
<1>kept. ASSUME requests'[q] = requests[q], attempts'[q] = attempts[q] PROVE Recorded(q)'
  BY <1>kept, RecordKept
<1>1. CASE Submit
  <2>1. CASE q # nextRequest
    BY <1>1, <1>kept, <2>1, SubmitRequests
  <2>2. CASE q = nextRequest
    <3>1. PICK m \in Offered, state \in RequestState, outcome \in Status :
          NewRequest(m, state, outcome)
      BY <1>1 DEF Submit, SubmitExpired, SubmitOversized, SubmitDeferred, SubmitAdmitted,
                  RequestState, Terminal, WaitingState, Status
    <3>2. /\ requests'[q] = [state |-> state, attempt |-> 1, batch |-> NoBatch,
                             queued |-> state = "eligible", submitted |-> clock]
          /\ attempts'[q] = <<[state |-> state, outcome |-> outcome]>>
      BY <1>types, <2>2, <3>1 DEF NewRequest
    <3> QED
      BY <3>2 DEF Recorded
  <2> QED
    BY <2>1, <2>2
<1>2. CASE Still \/ FillNewDone \/ CompleteDone \/ \E k \in Key : MakeForming(k)
  BY <1>2, <1>kept DEF Still, FillNewDone, CompleteDone, MakeForming, requestVars
<1>3. CASE ExpireWaiting
  <2>1. CASE requests'[q] = requests[q] /\ attempts'[q] = attempts[q]
    BY <1>kept, <2>1
  <2>2. CASE ~(requests'[q] = requests[q] /\ attempts'[q] = attempts[q])
    <3>1. waiting[q] > 0 /\ requests'[q].state = "expired" /\ requests'[q].attempt = requests[q].attempt
      BY <1>3, <2>2, ExpireRequests
    <3>2. attempts'[q] = [attempts[q] EXCEPT ![requests[q].attempt] =
                            [state |-> "expired", outcome |-> "expired"]]
      BY <1>3, <2>2 DEF ExpireWaiting
    <3>3. requests[q].attempt = Len(attempts[q]) /\ requests[q].attempt # 0
      BY <3>1 DEF AttemptInv, AttemptNumbers, SubmittedOnly
    <3>4. requests[q].attempt \in DOMAIN attempts[q]
      BY <1>types, <3>3
    <3> QED
      BY <1>types, <3>1, <3>2, <3>4 DEF Recorded
  <2> QED
    BY <2>1, <2>2
<1>4. ASSUME NEW r \in RequestId, DoCancel(r) PROVE Recorded(q)'
  <2>1. CASE q # r
    BY <1>4, <1>kept, <2>1, CancelRequests
  <2>2. CASE q = r
    <3>1. EndRequest(r, "cancelled", "cancelled") /\ requests[r].state # "created"
      BY <1>4 DEF DoCancel, CancelQueued, CancelForming, CancelSealed, Live
    <3>2. requests'[r].state = "cancelled" /\ requests'[r].attempt = requests[r].attempt
      BY <1>4, CancelRequests
    <3> QED
      BY <2>2, <3>1, <3>2, EndRequestRecords DEF Recorded
  <2> QED
    BY <2>1, <2>2
<1>5. ASSUME NEW r \in RequestId, Place(r) PROVE Recorded(q)'
  <2>1. CASE q # r
    BY <1>5, <1>kept, <2>1, PlaceRequests
  <2>2. CASE q = r
    BY <1>5, <2>2, PlaceRequests DEF Recorded, Terminal
  <2> QED
    BY <2>1, <2>2
<1>6. ASSUME NEW b \in BatchId, DoSeal(b), attempts' = attempts PROVE Recorded(q)'
  <2>1. /\ requests'[q].attempt = requests[q].attempt
        /\ requests'[q].state \in Terminal => requests'[q].state = requests[q].state
    BY <1>6, <1>types DEF DoSeal, RequestRec, Terminal
  <2> QED
    BY <1>6, <2>1, RecordKept
<1>7. ASSUME NEW b \in BatchId, NEW state \in HandedOut, Advance(b, state), attempts' = attempts
      PROVE  Recorded(q)'
  <2>1. /\ requests'[q].attempt = requests[q].attempt
        /\ requests'[q].state \in Terminal => requests'[q].state = requests[q].state
    BY <1>7, AdvanceRequests DEF Terminal, HandedOut
  <2> QED
    BY <1>7, <2>1, RecordKept
<1>8. ASSUME NEW b \in BatchId, StartRun(b) \/ \E w \in Worker : PrepareDispatch(b, w)
      PROVE  Recorded(q)'
  BY <1>7, <1>8 DEF StartRun, PrepareDispatch, HandedOut
<1>9. ASSUME NEW a \in BatchId, NEW b \in BatchId, DoMerge(a, b) \/ DoSplit(b) PROVE Recorded(q)'
  <2>1. attempts' = attempts
    BY <1>9 DEF DoMerge, DoSplit
  <2>2. requests'[q].attempt = requests[q].attempt /\ requests'[q].state = requests[q].state
    BY <1>9, MergeRequests, RehomeRequests
  <2> QED
    BY <2>1, <2>2, RecordKept
<1>10. ASSUME NEW r \in RequestId, Retry(r) PROVE Recorded(q)'
  <2>1. CASE q # r
    <3>1. requests'[q] = requests[q] /\ attempts'[q] = attempts[q]
      BY <1>10, <1>types, <2>1, RetryRequests DEF Retry
    <3> QED
      BY <1>kept, <3>1
  <2>2. CASE q = r
    BY <1>10, <2>2, RetryRequests DEF Retry, Recorded, Terminal
  <2> QED
    BY <2>1, <2>2
<1>11. ASSUME NEW r \in RequestId, CompleteMember(r) \/ FailMember(r) PROVE Recorded(q)'
  <2>1. PICK status : ApplyOutcome(r, status)
    BY <1>11 DEF CompleteMember, FailMember
  <2>2. requests[r].state # "created"
    BY <1>11 DEF CompleteMember, FailMember, AttemptInv, SubmittedOnly
  <2>3. CASE ApplyIgnored(status)
    BY <1>kept, <2>3 DEF ApplyIgnored, requestVars
  <2>4. CASE ApplyFinal(r, status)
    <3>1. /\ EndRequest(r, FinalState[status], status)
          /\ requests' = [requests EXCEPT ![r].state = FinalState[status]]
      BY <2>4 DEF ApplyFinal
    <3>2. CASE q # r
      BY <1>kept, <1>types, <2>2, <3>1, <3>2, EndRequestRecords
    <3>3. CASE q = r
      <4>1. requests'[q].state = FinalState[status] /\ requests'[q].attempt = requests[q].attempt
        BY <1>types, <3>1, <3>3 DEF RequestRec
      <4> QED
        BY <2>2, <3>1, <3>3, <4>1, EndRequestRecords DEF Recorded
    <3> QED
      BY <3>2, <3>3
  <2>5. CASE ApplyRetry(r, status)
    <3>1. Requeue(r)
      BY <2>5 DEF ApplyRetry
    <3>2. CASE q # r
      <4>1. requests'[q] = requests[q] /\ attempts'[q] = attempts[q]
        BY <1>types, <2>5, <3>1, <3>2, RetryRequests DEF ApplyRetry
      <4> QED
        BY <1>kept, <4>1
    <3>3. CASE q = r
      BY <3>1, <3>3, RetryRequests DEF Recorded, Terminal
    <3> QED
      BY <3>2, <3>3
  <2> QED
    BY <2>1, <2>3, <2>4, <2>5 DEF ApplyOutcome
<1> QED
  BY <1>1, <1>2, <1>3, <1>4, <1>5, <1>6, <1>8, <1>9, <1>10, <1>11, StepKinds

-----------------------------------------------------------------------------
(* The executions. *)

Closed == HandedOut \cup {"completed"}

(* The members of a batch that was handed out are settled. *)
LEMMA ClosedMembers ==
  ASSUME TypeOK, BatchInv, [Next]_vars, NEW b \in BatchId, batches[b].state \in Closed
  PROVE  SameMembers(b)
<1>fresh. FreshBatches /\ nextBatch \in Nat /\ b \in Nat
  BY IdsNatural DEF BatchInv, Books, TypeOK
<1>old. b # nextBatch /\ b # nextBatch + 1
  BY <1>fresh DEF FreshBatches, Closed, HandedOut
<1>state. batches[b].state \notin {"forming", "sealed", "partially_completed"}
  BY DEF Closed, HandedOut
<1>1. CASE Submit \/ Still \/ ExpireWaiting \/ \E r \in RequestId : Retry(r)
  BY <1>1, SubmitRequests DEF Still, Retry, ExpireWaiting, batchVars, SameMembers
<1>2. CASE FillNewDone \/ \E r \in RequestId : CompleteMember(r) \/ FailMember(r)
  BY <1>2, FillNewFields, OutcomeFields DEF CompleteMember, FailMember, BatchesKept
<1>3. CASE CompleteDone
  BY <1>3, DoneFields
<1>4. ASSUME NEW r \in RequestId, DoCancel(r) PROVE SameMembers(b)
  BY <1>4, <1>state, CancelFields
<1>5. ASSUME NEW r \in RequestId, Place(r) PROVE SameMembers(b)
  <2>1. b # op.cur
    BY <1>5, <1>state, FilledBatch DEF Place, Fillable
  <2> QED
    BY <1>5, <2>1, PlaceFields
<1>6. CASE \E k \in Key : MakeForming(k)
  BY <1>6, <1>old, MakeFields DEF SameMembers
<1>7. ASSUME NEW c \in BatchId, DoSeal(c) PROVE SameMembers(b)
  BY <1>7, SealFields
<1>8. ASSUME NEW a \in BatchId, NEW c \in BatchId, a # c, DoMerge(a, c) PROVE SameMembers(b)
  <2>1. b # a
    BY <1>8, <1>state, MergeFields
  <2> QED
    BY <1>8, <2>1, MergeFields
<1>9. ASSUME NEW c \in BatchId, DoSplit(c) PROVE SameMembers(b)
  <2>1. CASE SplitSealed(c)
    BY <1>fresh, <1>old, <1>state, <2>1, SplitSealedFields DEF SameMembers
  <2>2. CASE SplitOpen(c)
    BY <1>fresh, <1>old, <1>state, <2>2, SplitOpenFields DEF SameMembers
  <2> QED
    BY <1>9, <2>1, <2>2 DEF DoSplit
<1>10. ASSUME NEW c \in BatchId, StartRun(c) \/ \E w \in Worker : PrepareDispatch(c, w)
       PROVE  SameMembers(b)
  BY <1>10, RunFields, DispatchFields DEF Handed
<1> QED
  BY <1>1, <1>2, <1>3, <1>4, <1>5, <1>6, <1>7, <1>8, <1>9, <1>10, StepKinds

(* The current attempt of r may still be handed out: r waits, or is listed  *)
(* in a batch that has not been handed out.                                 *)
Unissued(b) == batches[b].state \in {"forming", "sealed"}

Listed(r) == \E b \in BatchId : Unissued(b) /\ r \in Members(b)

Pending(r) == requests[r].state \in WaitingState \/ Listed(r)

(* Nobody gets into such a batch but from the queue or from another one. *)
LEMMA ListedOrigin ==
  ASSUME TypeOK, BatchInv, [Next]_vars, NEW q \in RequestId, Listed(q)'
  PROVE  Pending(q)
<1> USE DEF Pending, Listed, Unissued, Members
<1> PICK c \in BatchId : batches'[c].state \in {"forming", "sealed"} /\ q \in Range(batches'[c].members)
  OBVIOUS
<1>kept. ASSUME SameState(c), SameMembers(c) PROVE Listed(q)
  BY <1>kept DEF SameState, SameMembers
<1>fresh. FreshBatches
  BY DEF BatchInv, Books
<1>1. CASE Submit \/ Still \/ ExpireWaiting \/ \E r \in RequestId : Retry(r)
  <2>1. batches' = batches
    BY <1>1, SubmitRequests DEF Still, batchVars, Retry, ExpireWaiting
  <2> QED
    BY <2>1
<1>2. CASE FillNewDone \/ \E r \in RequestId : CompleteMember(r) \/ FailMember(r)
  BY <1>2, <1>kept, FillNewFields, OutcomeFields DEF CompleteMember, FailMember, BatchesKept
<1>3. CASE CompleteDone
  <2>1. c # op.cur
    BY <1>3, DoneFields
  <2> QED
    BY <1>3, <1>kept, <2>1, DoneFields
<1>4. ASSUME NEW r \in RequestId, DoCancel(r) PROVE Listed(q)
  <2>1. Range(Without(batches[c].members, r)) \subseteq Range(batches[c].members)
    BY WithoutRange, MemberTypes
  <2>2. SameState(c) /\ batches'[c].members \in {batches[c].members, Without(batches[c].members, r)}
    BY <1>4, CancelFields DEF SameMembers
  <2> QED
    BY <2>1, <2>2 DEF SameState
<1>5. ASSUME NEW k \in Key, MakeForming(k) PROVE Listed(q)
  <2>1. c # nextBatch
    BY <1>5, MakeFields DEF Range
  <2> QED
    BY <1>5, <2>1, MakeFields
<1>6. ASSUME NEW r \in RequestId, Place(r) PROVE Pending(q)
  <2>1. CASE c # op.cur
    BY <1>6, <1>kept, <2>1, PlaceFields
  <2>2. CASE c = op.cur
    <3>1. Range(Append(batches[c].members, r)) = Range(batches[c].members) \cup {r}
      BY AppendRange, MemberTypes
    <3>2. q \in Range(batches[c].members) \cup {r} /\ SameState(c)
      BY <1>6, <2>2, <3>1, PlaceFields
    <3>3. requests[r].state \in WaitingState
      BY <1>6, PlaceRequests
    <3> QED
      BY <3>2, <3>3 DEF SameState
  <2> QED
    BY <2>1, <2>2
<1>7. ASSUME NEW b \in BatchId, DoSeal(b) PROVE Listed(q)
  <2>1. SameMembers(c) /\ batches[c].state \in {"forming", "sealed"}
    BY <1>7, SealFields DEF SameState
  <2> QED
    BY <2>1 DEF SameMembers
<1>8. ASSUME NEW a \in BatchId, NEW b \in BatchId, a # b, DoMerge(a, b) PROVE Listed(q)
  <2>1. Range(batches[a].members \o batches[b].members) =
          Range(batches[a].members) \cup Range(batches[b].members)
    BY RangeConcatenation, MemberTypes
  <2>2. CASE c \notin {a, b}
    BY <1>8, <1>kept, <2>2, MergeFields
  <2>3. CASE c \in {a, b}
    <3>1. /\ batches'[a].members = batches[a].members \o batches[b].members
          /\ batches[a].state \in {"sealed", "forming"} /\ batches[b].state = batches[a].state
          /\ batches'[b].state = "superseded"
      BY <1>8, MergeFields
    <3> QED
      BY <2>1, <2>3, <3>1
  <2> QED
    BY <2>2, <2>3
<1>9. ASSUME NEW b \in BatchId, DoSplit(b) PROVE Listed(q)
  <2>1. \A m : Child(b, m).members = m /\ Child(b, m).state = batches[b].state
    BY ChildFields
  <2>2. Range(FirstHalf(b)) \subseteq Members(b) /\ Range(SecondHalf(b)) \subseteq Members(b)
    BY HalvesRange
  <2>3. CASE SplitSealed(b)
    <3>1. /\ batches'[b].state = "superseded"
          /\ batches'[nextBatch] = Child(b, SecondHalf(b))
          /\ batches'[nextBatch + 1] = Child(b, FirstHalf(b))
          /\ \A e \in BatchId \ {b, nextBatch, nextBatch + 1} : batches'[e] = batches[e]
      BY <1>fresh, <2>3, SplitSealedFields
    <3> QED
      BY <2>1, <2>2, <3>1
  <2>4. CASE SplitOpen(b)
    <3>1. /\ batches'[b].state = batches[b].state /\ batches'[b].members = FirstHalf(b)
          /\ batches'[nextBatch] = Child(b, SecondHalf(b))
          /\ \A e \in BatchId \ {b, nextBatch} : batches'[e] = batches[e]
      BY <1>fresh, <2>4, SplitOpenFields DEF SameState
    <3> QED
      BY <2>1, <2>2, <3>1
  <2> QED
    BY <1>9, <2>3, <2>4 DEF DoSplit
<1>10. ASSUME NEW b \in BatchId, NEW state \in HandedOut, NEW w, Handed(b, state, w) PROVE Listed(q)
  <2>1. c # b
    BY <1>10 DEF Handed, HandedOut
  <2> QED
    BY <1>10, <1>kept, <2>1 DEF Handed
<1>11. ASSUME NEW b \in BatchId, StartRun(b) \/ \E w \in Worker : PrepareDispatch(b, w)
       PROVE  Listed(q)
  BY <1>10, <1>11, RunFields, DispatchFields DEF HandedOut
<1> QED
  BY <1>1, <1>2, <1>3, <1>4, <1>5, <1>6, <1>7, <1>8, <1>9, <1>11, StepKinds

(* The number of the current attempt never falls, and a request comes back  *)
(* to the queue with a higher one only.                                     *)
LEMMA AttemptMoves ==
  ASSUME TypeOK, BatchInv, AttemptInv, [Next]_vars, NEW q \in RequestId
  PROVE  \/ requests'[q].attempt = requests[q].attempt + 1
         \/ /\ requests'[q].attempt = requests[q].attempt
            /\ requests'[q].state \in WaitingState => requests[q].state \in WaitingState
<1>types. requests \in [RequestId -> RequestRec] /\ requests[q].attempt \in Nat
  BY DEF TypeOK, RequestRec
<1>1. CASE Submit
  <2>1. CASE q # nextRequest
    BY <1>1, <2>1, SubmitRequests
  <2>2. CASE q = nextRequest
    <3>1. requests[q].attempt = 0
      BY <1>types, <2>2 DEF TypeOK, AttemptInv, AttemptNumbers
    <3>2. requests'[q].attempt = 1
      BY <1>1, <1>types, <2>2 DEF Submit, SubmitExpired, SubmitOversized, SubmitDeferred,
                                  SubmitAdmitted, NewRequest
    <3> QED
      BY <3>1, <3>2
  <2> QED
    BY <2>1, <2>2
<1>2. CASE Still \/ FillNewDone \/ CompleteDone \/ \E k \in Key : MakeForming(k)
  BY <1>2 DEF Still, FillNewDone, CompleteDone, MakeForming, requestVars
<1>3. CASE ExpireWaiting
  BY <1>3, ExpireRequests DEF WaitingState
<1>4. ASSUME NEW r \in RequestId, DoCancel(r) \/ Place(r)
      PROVE  /\ requests'[q].attempt = requests[q].attempt
             /\ requests'[q].state \in WaitingState => requests[q].state \in WaitingState
  <2>1. CASE q = r
    BY <1>4, <2>1, CancelRequests, PlaceRequests DEF WaitingState
  <2>2. CASE q # r
    BY <1>4, <2>2, CancelRequests, PlaceRequests
  <2> QED
    BY <2>1, <2>2
<1>5. ASSUME NEW b \in BatchId, DoSeal(b)
      PROVE  /\ requests'[q].attempt = requests[q].attempt
             /\ requests'[q].state \in WaitingState => requests[q].state \in WaitingState
  <2>1. requests'[q] \in {requests[q], [requests[q] EXCEPT !.state = "batched"]}
    BY <1>5, SealRequests
  <2> QED
    BY <1>types, <2>1 DEF RequestRec, WaitingState
<1>6. ASSUME NEW b \in BatchId, StartRun(b) \/ \E w \in Worker : PrepareDispatch(b, w)
      PROVE  /\ requests'[q].attempt = requests[q].attempt
             /\ requests'[q].state \in WaitingState => requests[q].state \in WaitingState
  <2>1. PICK state \in HandedOut : Advance(b, state)
    BY <1>6 DEF StartRun, PrepareDispatch, HandedOut
  <2>2. state \notin WaitingState
    BY DEF HandedOut, WaitingState
  <2> QED
    BY <2>1, <2>2, AdvanceRequests
<1>7. ASSUME NEW a \in BatchId, NEW b \in BatchId, DoMerge(a, b) \/ DoSplit(b)
      PROVE  requests'[q].attempt = requests[q].attempt /\ requests'[q].state = requests[q].state
  BY <1>7, MergeRequests, RehomeRequests
<1>8. ASSUME NEW r \in RequestId, Requeue(r)
      PROVE  requests'[q].attempt = requests[q].attempt + 1 \/ requests'[q] = requests[q]
  <2>1. CASE q = r
    BY <1>8, <2>1, RetryRequests
  <2>2. CASE q # r
    BY <1>8, <2>2, RetryRequests
  <2> QED
    BY <2>1, <2>2
<1>9. ASSUME NEW r \in RequestId, CompleteMember(r) \/ FailMember(r), ~Requeue(r)
      PROVE  /\ requests'[q].attempt = requests[q].attempt
             /\ requests'[q].state \in WaitingState => requests[q].state \in WaitingState
  <2>1. PICK status : ApplyOutcome(r, status)
    BY <1>9 DEF CompleteMember, FailMember
  <2>2. CASE q = r
    BY <1>9, <2>1, <2>2, OutcomeRequests DEF WaitingState
  <2>3. CASE q # r
    BY <2>1, <2>3, OutcomeRequests
  <2> QED
    BY <2>2, <2>3
<1>10. ASSUME NEW r \in RequestId, Retry(r) PROVE Requeue(r)
  BY <1>10 DEF Retry
<1> QED
  BY <1>1, <1>2, <1>3, <1>4, <1>5, <1>6, <1>7, <1>8, <1>9, <1>10, StepKinds

(* What an execution that was handed out knows of a member: its attempt is  *)
(* no later than the current one, earlier if the request can be handed out  *)
(* again, and the member is still listed while the batch is out.            *)
Issued(x, r) ==
  /\ x.attempt[r] <= requests[r].attempt
  /\ Pending(r) => x.attempt[r] < requests[r].attempt
  /\ batches[x.batch].state \in HandedOut => r \in Members(x.batch)

Exec == \A x \in dispatches : \A r \in RequestId : x.attempt[r] # 0 => Issued(x, r)

(* What prepare_dispatch hands out. *)
LEMMA NewExecution ==
  ASSUME TypeOK, BatchInv, Layout, StatesImplied, NEW b \in BatchId, NEW w \in Worker,
         PrepareDispatch(b, w), NEW x \in dispatches' \ dispatches, NEW r \in RequestId,
         x.attempt[r] # 0
  PROVE  /\ x.batch = b /\ x.attempt[r] = requests[r].attempt /\ Pending(r) /\ Issued(x, r)'
<1>1. x = [batch |-> b, generation |-> batches[b].generation, epoch |-> batches[b].epoch,
           worker |-> w, boot |-> workers[w].boot, attempt |-> CurrentAttempts(b)]
  BY DEF PrepareDispatch
<1>2. x.batch = b /\ r \in Members(b) /\ x.attempt[r] = requests[r].attempt
  BY <1>1 DEF CurrentAttempts
<1>3. /\ \A c \in BatchId : SameMembers(c)
      /\ \A c \in BatchId : c # b => SameState(c)
      /\ batches[b].state = "sealed" /\ batches'[b].state = "dispatched"
  BY DispatchFields DEF Handed
<1>4. requests[r].state \in {"batched", "cancelled"}
  <2>1. op.pc # "complete" /\ Active(b)
    BY <1>3 DEF PrepareDispatch, Unlocked, Active, ActiveBatch
  <2> QED
    BY <1>2, <1>3, <2>1 DEF StatesImplied, Reported, Implied
<1>5. requests'[r].attempt = requests[r].attempt /\ requests'[r].state \notin WaitingState
  BY <1>4, AdvanceRequests DEF PrepareDispatch, WaitingState
<1>6. ~Listed(r)'
  <2> SUFFICES ASSUME NEW c \in BatchId, batches'[c].state \in {"forming", "sealed"},
                      r \in Range(batches'[c].members)
               PROVE  FALSE
    BY DEF Listed, Unissued, Members
  <2>1. c # b
    BY <1>3
  <2>2. Active(c) /\ Active(b) /\ r \in Members(c)
    BY <1>3, <2>1 DEF Active, ActiveBatch, SameState, SameMembers, Members
  <2> QED
    BY <1>2, <2>1, <2>2 DEF Layout, Disjoint
<1>7. Pending(r)
  BY <1>2, <1>3 DEF Pending, Listed, Unissued
<1>8. requests[r].attempt <= requests[r].attempt
  BY DEF TypeOK, RequestRec
<1> QED
  <2>1. r \in Range(batches'[x.batch].members)
    BY <1>2, <1>3 DEF Members, SameMembers
  <2> QED
    BY <1>2, <1>5, <1>6, <1>7, <1>8, <2>1 DEF Issued, Pending, Members

LEMMA ExecStep ==
  ASSUME TypeOK, BatchInv, AttemptInv, ReportInv, Layout, StatesImplied, Exec, [Next]_vars
  PROVE  Exec'
<1> SUFFICES ASSUME NEW x \in dispatches', NEW r \in RequestId, x.attempt[r] # 0
             PROVE  Issued(x, r)'
  BY DEF Exec
<1>1. CASE x \notin dispatches
  <2>1. PICK b \in BatchId, w \in Worker : PrepareDispatch(b, w)
    BY <1>1, DispatchesGrow
  <2> QED
    BY <1>1, <2>1, NewExecution
<1>2. CASE x \in dispatches
  <2>1. x.batch \in BatchId /\ x.attempt[r] \in Nat /\ Issued(x, r)
    BY <1>2 DEF TypeOK, Execution, Exec
  <2>2. requests[r].attempt \in Nat
    BY DEF TypeOK, RequestRec
  <2>3. \/ requests'[r].attempt = requests[r].attempt + 1
        \/ requests'[r].attempt = requests[r].attempt /\ (Pending(r)' => Pending(r))
    <3>1. Listed(r)' => Pending(r)
      BY ListedOrigin
    <3> QED
      BY <3>1, AttemptMoves DEF Pending
  <2>4. batches'[x.batch].state \in HandedOut => r \in Range(batches'[x.batch].members)
    <3> SUFFICES ASSUME batches'[x.batch].state \in HandedOut
                 PROVE  r \in Range(batches'[x.batch].members)
      OBVIOUS
    <3>1. batches[x.batch].state \notin {"none", "forming", "sealed"}
      BY <1>2 DEF ReportInv, Executions
    <3>2. batches[x.batch].state \in HandedOut
      BY <2>1, <3>1, HandedStep
    <3> QED
      BY <2>1, <3>2, ClosedMembers DEF Issued, Members, SameMembers, Closed
  <2>5. x.attempt[r] <= requests'[r].attempt /\ (Pending(r)' => x.attempt[r] < requests'[r].attempt)
    <3>1. CASE requests'[r].attempt = requests[r].attempt + 1
      <4>1. x.attempt[r] <= requests[r].attempt
        BY <2>1 DEF Issued
      <4> QED
        BY <2>1, <2>2, <3>1, <4>1
    <3>2. CASE requests'[r].attempt = requests[r].attempt /\ (Pending(r)' => Pending(r))
      BY <2>1, <3>2 DEF Issued
    <3> QED
      BY <2>3, <3>1, <3>2
  <2> QED
    BY <2>4, <2>5 DEF Issued, Members
<1> QED
  BY <1>1, <1>2

(* Two executions never share an attempt: a batch is handed out only with   *)
(* attempts that no earlier execution has.                                  *)
LEMMA OnceStep ==
  ASSUME TypeOK, BatchInv, Layout, StatesImplied, Exec, ExecutedOnce, [Next]_vars
  PROVE  ExecutedOnce'
<1>1. ASSUME NEW x \in dispatches', x \notin dispatches, NEW y \in dispatches, NEW r \in RequestId,
             x.attempt[r] # 0, x.attempt[r] = y.attempt[r]
      PROVE  FALSE
  <2>1. PICK b \in BatchId, w \in Worker : PrepareDispatch(b, w)
    BY <1>1, DispatchesGrow
  <2>2. x.attempt[r] = requests[r].attempt /\ Pending(r)
    BY <1>1, <2>1, NewExecution
  <2>3. y.attempt[r] < requests[r].attempt /\ requests[r].attempt \in Nat
    BY <1>1, <2>2 DEF Exec, Issued, TypeOK, RequestRec
  <2> QED
    BY <1>1, <2>2, <2>3
<1>2. ASSUME NEW x \in dispatches', x \notin dispatches, NEW y \in dispatches', y \notin dispatches
      PROVE  x = y
  <2>1. PICK b \in BatchId, w \in Worker : PrepareDispatch(b, w)
    BY <1>2, DispatchesGrow
  <2> QED
    BY <1>2, <2>1 DEF PrepareDispatch
<1> QED
  <2> SUFFICES ASSUME NEW x \in dispatches', NEW y \in dispatches', NEW r \in RequestId,
                      x.attempt[r] # 0, x.attempt[r] = y.attempt[r]
               PROVE  x = y
    BY DEF ExecutedOnce
  <2>1. CASE x \in dispatches /\ y \in dispatches
    BY <2>1 DEF ExecutedOnce
  <2>2. CASE x \notin dispatches /\ y \in dispatches
    BY <1>1, <2>2
  <2>3. CASE x \in dispatches /\ y \notin dispatches
    BY <1>1, <2>3
  <2>4. CASE x \notin dispatches /\ y \notin dispatches
    BY <1>2, <2>4
  <2> QED
    BY <2>1, <2>2, <2>3, <2>4

-----------------------------------------------------------------------------
(* What a report has still to apply. *)

LEMMA TodoStep ==
  ASSUME TypeOK, BatchInv, AttemptInv, Layout, StatesImplied, EndRecorded, Todo, Exec, [Next]_vars
  PROVE  Todo'
<1>1. CASE op'.pc # "complete"
  BY <1>1 DEF Todo
<1>2. CASE UNCHANGED vars
  <2>1. UNCHANGED <<op, requests, batches>>
    BY <1>2 DEF vars, requestVars, batchVars
  <2> QED
    BY <2>1 DEF Todo, Members
(* A member of a batch that was handed out, or is being, whose attempt has no outcome. *)
<1>open. ASSUME NEW r \in RequestId, Open(r) PROVE requests[r].state # "cancelled"
  BY <1>open DEF EndRecorded, Recorded, Open, Finished, Terminal
<1>3. ASSUME NEW x \in dispatches, Complete(x) PROVE Todo'
  <2>1. /\ UNCHANGED <<batches, requests>> /\ Unlocked /\ batches[x.batch].state \in HandedOut
        /\ x.batch \in BatchId
    BY <1>3 DEF Complete, Authorised, HandedOut, batchVars, requestVars, TypeOK, Execution
  <2>2. PICK told \in SUBSET {r \in RequestId : x.attempt[r] # 0} :
          \E report \in [told -> ReportStatus] : BeginReport(x.batch, x.attempt, report)
    BY <1>3 DEF Complete
  <2>3. /\ op'.cur = x.batch
        /\ \A r \in op'.todo : r \in RequestId /\ x.attempt[r] # 0 /\ Open(r)
    BY <2>2, ReportBatch
  <2> SUFFICES ASSUME NEW r \in op'.todo
               PROVE  r \in Members(x.batch) /\ requests[r].state \in HandedOut
    BY <2>1, <2>3 DEF Todo, Members
  <2>4. r \in Members(x.batch)
    BY <2>1, <2>3 DEF Exec, Issued
  <2>5. requests[r].state \in {batches[x.batch].state, "cancelled"}
    BY <2>1, <2>4 DEF StatesImplied, Reported, Unlocked, Active, ActiveBatch, HandedOut, Implied
  <2> QED
    BY <1>open, <2>1, <2>3, <2>4, <2>5
<1>4. ASSUME NEW b \in BatchId, RunOk(b), op'.pc = "complete" PROVE Todo'
  <2>1. /\ StartRun(b) /\ Unlocked
        /\ BeginReport(b, CurrentAttempts(b), [r \in Members(b) |-> "success"])
    BY <1>4 DEF RunOk, StartRun, Unlocked
  <2>2. op'.cur = b /\ \A r \in op'.todo : r \in Members(b) /\ Open(r)
    BY <2>1, ReportBatch
  <2>3. batches[b].state = "sealed" /\ SameMembers(b)
    BY <2>1, RunFields DEF Handed
  <2> SUFFICES ASSUME NEW r \in op'.todo
               PROVE  requests'[r].state \in HandedOut
    BY <2>2, <2>3 DEF Todo, Members, SameMembers
  <2>4. requests[r].state \in {"batched", "cancelled"}
    BY <2>1, <2>2, <2>3 DEF StatesImplied, Reported, Unlocked, Active, ActiveBatch, Implied
  <2>5. r \in RequestId /\ r \in Members(b) /\ requests[r].state = "batched"
    BY <1>open, <2>2, <2>4, MemberTypes
  <2>6. requests'[r].state = "running"
    BY <2>1, <2>5 DEF StartRun, Advance, TypeOK, RequestRec
  <2> QED
    BY <2>6 DEF HandedOut
<1>5. ASSUME NEW r \in RequestId, CompleteMember(r) PROVE Todo'
  <2>1. /\ op.pc = "complete" /\ op'.cur = op.cur /\ op'.todo = op.todo \ {r}
        /\ op.cur \in BatchId /\ ApplyOutcome(r, op.report[r]) /\ op.todo \subseteq RequestId
    BY <1>5 DEF CompleteMember, TypeOK, OpOK, OpRec
  <2>2. SameMembers(op.cur)
    BY <2>1, OutcomeFields DEF BatchesKept
  <2>3. \A q \in RequestId : q # r => requests'[q] = requests[q]
    BY <2>1, OutcomeRequests
  <2> QED
    BY <2>1, <2>2, <2>3 DEF Todo, Members, SameMembers
<1> QED
  BY <1>1, <1>2, <1>3, <1>4, <1>5, ReportEntry

-----------------------------------------------------------------------------
(* The theorems. *)

Placement ==
  Layout /\ StatesImplied /\ IndexCoherent /\ EndRecorded /\ Todo /\ Exec /\ ExecutedOnce

LEMMA PlacementStep ==
  ASSUME CarefulStep, TypeOK, BatchInv, AttemptInv, ReportInv, NotFailing, Placement, [Next]_vars
  PROVE  Placement'
BY LayoutStep, StatesStep, IndexStep, EndStep, TodoStep, ExecStep, OnceStep DEF Placement

LEMMA PlacementInit == Init => Placement
<1> SUFFICES ASSUME Init PROVE Placement
  OBVIOUS
<1>1. /\ \A b \in BatchId : batches[b].state = "none"
      /\ \A r \in RequestId : /\ waiting[r] = 0 /\ requests[r].queued = FALSE
                              /\ requests[r].state = "created"
      /\ dispatches = {} /\ op.pc = "idle"
  BY DEF Init, NoBatchRec, Idle
<1>2. Layout /\ StatesImplied
  BY <1>1 DEF Layout, Disjoint, NoRepeats, FieldAgrees, StatesImplied, Active, ActiveBatch
<1>3. IndexCoherent /\ EndRecorded
  BY <1>1 DEF IndexCoherent, EndRecorded, Recorded, Terminal
<1>4. Todo /\ Exec /\ ExecutedOnce
  BY <1>1 DEF Todo, Exec, ExecutedOnce
<1> QED
  BY <1>2, <1>3, <1>4 DEF Placement

LEMMA RequestsPlaced ==
  ASSUME Careful
  PROVE  Spec => []Placement
<1>1. "failed" \notin LocalResults
  BY DEF Careful
<1>2. Spec => []NotFailing
  BY <1>1, NoFailPath
<1>3. TypeOK /\ BatchInv /\ AttemptInv /\ ReportInv /\ NotFailing /\ Placement /\ [Next]_vars => Placement'
  BY PlacementStep, CarefulSteps
<1> QED
  BY <1>2, <1>3, PlacementInit, TypeCorrect, BatchesBooked, AttemptsConsistent, ReportsSound, PTL
     DEF Spec

(* No double membership: a live request is in at most one batch that can    *)
(* still deliver an outcome for it, through fills, cancellations, merges,   *)
(* splits, reports and retries (batches_[b].members).                       *)
THEOREM OneBatchEach ==
  ASSUME Careful
  PROVE  Spec => []OneActiveBatch
<1>1. Placement => OneActiveBatch
  BY MemberTypes DEF Placement, Layout, Disjoint, Active, OneActiveBatch
<1> QED
  BY <1>1, RequestsPlaced, PTL

(* The waiting index holds exactly the eligible requests, each once: submit,*)
(* placement, cancel, expire and every retry keep waiting_index_ and the    *)
(* flag in_waiting in step.                                                 *)
THEOREM IndexInStep ==
  ASSUME Careful
  PROVE  Spec => []IndexCoherent
<1>1. Placement => IndexCoherent
  BY DEF Placement
<1> QED
  BY <1>1, RequestsPlaced, PTL

(* No attempt of a request is handed to workers twice, for any number of    *)
(* workers, boots, merges, splits, cancellations and retries in between     *)
(* (prepare_dispatch).                                                      *)
THEOREM AttemptsExecutedOnce ==
  ASSUME Careful
  PROVE  Spec => []ExecutedOnce
<1>1. Placement => ExecutedOnce
  BY DEF Placement
<1> QED
  BY <1>1, RequestsPlaced, PTL

-----------------------------------------------------------------------------
(* The members of a completed batch. *)

CompletedEnded ==
  \A b \in BatchId : batches[b].state = "completed" =>
    \A r \in Members(b) : requests[r].state \in Terminal

(* A batch is completed by the end of a report only. *)
LEMMA CompletedOrigin ==
  ASSUME TypeOK, BatchInv, [Next]_vars, NEW c \in BatchId, batches'[c].state = "completed"
  PROVE  batches[c].state = "completed" \/ (CompleteDone /\ op.cur = c)
<1>fresh. FreshBatches
  BY DEF BatchInv, Books
<1>1. CASE Submit \/ Still \/ ExpireWaiting \/ \E r \in RequestId : Retry(r)
  BY <1>1, SubmitRequests DEF Still, Retry, ExpireWaiting, batchVars
<1>2. CASE FillNewDone \/ \E r \in RequestId : CompleteMember(r) \/ FailMember(r)
  BY <1>2, FillNewFields, OutcomeFields DEF CompleteMember, FailMember, BatchesKept, SameState
<1>3. CASE CompleteDone
  BY <1>3, DoneFields DEF SameState
<1>4. CASE \E r \in RequestId : DoCancel(r) \/ Place(r)
  BY <1>4, CancelFields, PlaceFields DEF SameState
<1>5. CASE \E k \in Key : MakeForming(k)
  BY <1>5, MakeFields
<1>6. CASE \E b \in BatchId : DoSeal(b)
  BY <1>6, SealFields DEF SameState
<1>7. ASSUME NEW a \in BatchId, NEW b \in BatchId, a # b, DoMerge(a, b)
      PROVE  batches[c].state = "completed"
  BY <1>7, MergeFields DEF SameState
<1>8. ASSUME NEW b \in BatchId, DoSplit(b) PROVE batches[c].state = "completed"
  <2>1. \A m : Child(b, m).state = batches[b].state
    BY ChildFields
  <2>2. CASE SplitSealed(b)
    BY <1>8, <1>fresh, <2>1, <2>2, SplitSealedFields
  <2>3. CASE SplitOpen(b)
    BY <1>8, <1>fresh, <2>1, <2>3, SplitOpenFields DEF SameState
  <2> QED
    BY <1>8, <2>2, <2>3 DEF DoSplit
<1>9. ASSUME NEW b \in BatchId, NEW state \in HandedOut, NEW w, Handed(b, state, w)
      PROVE  batches[c].state = "completed"
  BY <1>9 DEF Handed, SameState, HandedOut
<1>10. CASE \E b \in BatchId : StartRun(b) \/ \E w \in Worker : PrepareDispatch(b, w)
  BY <1>9, <1>10, RunFields, DispatchFields DEF HandedOut
<1> QED
  BY <1>1, <1>2, <1>3, <1>4, <1>5, <1>6, <1>7, <1>8, <1>10, StepKinds

(* Only retry() takes a request out of its end. *)
LEMMA EndsStay ==
  ASSUME Unretried, TypeOK, BatchInv, AttemptInv, Todo, NotFailing, [Next]_vars,
         NEW q \in RequestId, requests[q].state \in Terminal
  PROVE  requests'[q].state \in Terminal
<1>1. CASE Submit
  <2>1. nextRequest \in RequestId /\ requests[nextRequest].state = "created"
    BY <1>1, SubmitRequests, SMTT(30) DEF TypeOK, AttemptInv, AttemptNumbers
  <2>2. q # nextRequest
    BY <2>1 DEF Terminal
  <2> QED
    BY <1>1, <2>2, SubmitRequests
<1>2. CASE Still \/ FillNewDone \/ CompleteDone \/ \E k \in Key : MakeForming(k)
  BY <1>2 DEF Still, FillNewDone, CompleteDone, MakeForming, requestVars
<1>3. CASE ExpireWaiting
  BY <1>3, ExpireRequests
<1>4. ASSUME NEW r \in RequestId, DoCancel(r) PROVE requests'[q].state \in Terminal
  <2>1. q # r
    BY <1>4 DEF DoCancel, Live
  <2> QED
    BY <1>4, <2>1, CancelRequests
<1>5. ASSUME NEW r \in RequestId, Place(r) PROVE requests'[q].state \in Terminal
  <2>1. q # r
    BY <1>5, PlaceRequests DEF WaitingState, Terminal
  <2> QED
    BY <1>5, <2>1, PlaceRequests
<1>6. ASSUME NEW b \in BatchId, DoSeal(b) PROVE requests'[q].state \in Terminal
  BY <1>6, SealRequests DEF Terminal
<1>7. ASSUME NEW b \in BatchId, StartRun(b) \/ \E w \in Worker : PrepareDispatch(b, w)
      PROVE  requests'[q].state \in Terminal
  <2>1. PICK state : Advance(b, state)
    BY <1>7 DEF StartRun, PrepareDispatch
  <2> QED
    BY <2>1, AdvanceRequests DEF Terminal
<1>8. ASSUME NEW a \in BatchId, NEW b \in BatchId, DoMerge(a, b) \/ DoSplit(b)
      PROVE  requests'[q].state \in Terminal
  BY <1>8, MergeRequests, RehomeRequests
<1>9. ASSUME NEW r \in RequestId, CompleteMember(r) PROVE requests'[q].state \in Terminal
  <2>1. ApplyOutcome(r, op.report[r]) /\ requests[r].state \in HandedOut
    BY <1>9 DEF CompleteMember, Todo
  <2>2. q # r
    BY <2>1 DEF HandedOut, Terminal
  <2> QED
    BY <2>1, <2>2, OutcomeRequests
<1>10. ~ \E r \in RequestId : FailMember(r) \/ Retry(r)
  BY DEF FailMember, NotFailing, Unretried
<1> QED
  BY <1>1, <1>2, <1>3, <1>4, <1>5, <1>6, <1>7, <1>8, <1>9, <1>10, StepKinds

(* The members of a completed batch stay ended. *)
LEMMA EndedStep ==
  ASSUME Unretried, TypeOK, BatchInv, AttemptInv, NotFailing, Placement, CompletedEnded, [Next]_vars
  PROVE  CompletedEnded'
<1> SUFFICES ASSUME NEW c \in BatchId, batches'[c].state = "completed",
                    NEW q \in Range(batches'[c].members)
             PROVE  requests'[q].state \in Terminal
  BY DEF CompletedEnded, Members
<1>1. CASE batches[c].state = "completed"
  <2>1. q \in Members(c)
    BY <1>1, ClosedMembers DEF Closed, SameMembers, Members
  <2>2. q \in RequestId
    BY <2>1, MemberTypes
  <2> QED
    BY <1>1, <2>1, <2>2, EndsStay DEF CompletedEnded, Placement
<1>2. CASE CompleteDone /\ op.cur = c
  <2>1. /\ SameMembers(c) /\ requests' = requests
        /\ \A r \in Members(c) : requests[r].state \in Terminal
    BY <1>2, DoneFields DEF CompleteDone, requestVars
  <2> QED
    BY <2>1 DEF Members, SameMembers
<1> QED
  BY <1>1, <1>2, CompletedOrigin

LEMMA StatesFollow == Placement /\ CompletedEnded => MemberStates
<1> SUFFICES ASSUME Placement, CompletedEnded, Unlocked, NEW b \in BatchId, NEW r \in Members(b)
             PROVE  /\ batches[b].state \in ActiveBatch =>
                         requests[r].state \in Implied(batches[b].state)
                    /\ batches[b].state = "completed" => requests[r].state \in Terminal
  BY DEF MemberStates, ActiveBatch, Implied
<1> QED
  BY DEF Placement, StatesImplied, Reported, Active, Unlocked, CompletedEnded

(* Between two methods the state of every member is the one its batch       *)
(* implies, and a completed batch has no open member, as long as no client  *)
(* retries explicitly a request that has ended: retry() leaves the request  *)
(* listed in its completed batch (do_seal, prepare_dispatch, complete,      *)
(* cancel).                                                                 *)
THEOREM MembersInStep ==
  ASSUME Careful, RetryFrom = {}
  PROVE  Spec => []MemberStates
<1>1. Init => CompletedEnded
  BY DEF Init, NoBatchRec, CompletedEnded
<1>2. TypeOK /\ BatchInv /\ AttemptInv /\ NotFailing /\ Placement /\ CompletedEnded /\ [Next]_vars
        => CompletedEnded'
  BY EndedStep, UnretriedSteps
<1>3. "failed" \notin LocalResults
  BY DEF Careful
<1>4. Spec => []NotFailing
  BY <1>3, NoFailPath
<1> QED
  BY <1>1, <1>2, <1>4, StatesFollow, RequestsPlaced, TypeCorrect, BatchesBooked, AttemptsConsistent, PTL
     DEF Spec

-----------------------------------------------------------------------------
(* The scheduler implements RequestLife: what happens to one request under  *)
(* every step of the scheduler is a step of its specified life.             *)

(* What a list of attempts tells. *)
Book(s) == [n \in DOMAIN s |-> Told(s[n])]

(* The phase and the ledger of one request under the refinement mapping. *)
PhaseAt(r)  == PhaseOf(requests[r].state)
LedgerAt(r) == Book(attempts[r])

(* The steps of RequestLife in terms of them. *)
Entered(r) ==
  /\ PhaseAt(r) = "absent"
  /\ \/ PhaseAt(r)' = "queued" /\ LedgerAt(r)' = <<"open">>
     \/ PhaseAt(r)' = "ended" /\ \E o \in Status : LedgerAt(r)' = <<o>>

Moved(r) ==
  /\ \/ PhaseAt(r) = "queued" /\ PhaseAt(r)' = "placed"
     \/ PhaseAt(r) = "placed" /\ PhaseAt(r)' = "committed"
     \/ PhaseAt(r) = "committed" /\ PhaseAt(r)' = "issued"
  /\ LedgerAt(r)' = LedgerAt(r)

Closes(r) ==
  /\ PhaseAt(r) \notin {"absent", "ended"} /\ PhaseAt(r)' = "ended"
  /\ \E o \in Status : LedgerAt(r)' = [LedgerAt(r) EXCEPT ![Len(LedgerAt(r))] = o]

Returned(r) ==
  /\ PhaseAt(r) = "issued" /\ PhaseAt(r)' = "queued"
  /\ Len(LedgerAt(r)) < MaxAttempts
  /\ LedgerAt(r)' = Append([LedgerAt(r) EXCEPT ![Len(LedgerAt(r))] = "retryable_failure"], "open")

Stayed(r) == PhaseAt(r)' = PhaseAt(r) /\ LedgerAt(r)' = LedgerAt(r)

LifeStep(r) == Entered(r) \/ Moved(r) \/ Closes(r) \/ Returned(r) \/ Stayed(r)

LEMMA Phases ==
  /\ PhaseOf("created") = "absent" /\ PhaseOf("reserved") = "placed"
  /\ \A s \in WaitingState : PhaseOf(s) = "queued"
  /\ PhaseOf("batched") = "committed" /\ PhaseOf("sealed") = "committed"
  /\ \A s \in HandedOut : PhaseOf(s) = "issued"
  /\ \A s \in Terminal : PhaseOf(s) = "ended"
BY DEF PhaseOf, WaitingState, HandedOut, Terminal

LEMMA LifeSteps ==
  ASSUME \A r \in RequestId : LifeStep(r)
  PROVE  Life!LifeNext
<1> SUFFICES ASSUME NEW r \in RequestId
             PROVE  Life!Enter(r) \/ Life!Move(r) \/ Life!End(r) \/ Life!Again(r) \/ Life!Same(r)
  BY DEF Life!LifeNext
<1> USE DEF PhaseAt, LedgerAt, Book
<1>1. CASE Entered(r)
  BY <1>1 DEF Entered, Life!Enter
<1>2. CASE Moved(r)
  BY <1>2 DEF Moved, Life!Move, Life!Follows
<1>3. CASE Closes(r)
  BY <1>3 DEF Closes, Life!End, Life!Closed
<1>4. CASE Returned(r)
  BY <1>4 DEF Returned, Life!Again, Life!Closed
<1>5. CASE Stayed(r)
  BY <1>5 DEF Stayed, Life!Same
<1> QED
  BY <1>1, <1>2, <1>3, <1>4, <1>5 DEF LifeStep

LEMMA LifeStart == Init => Life!LifeInit
<1> SUFFICES ASSUME Init PROVE Life!LifeInit
  OBVIOUS
<1>1. \A r \in RequestId : requests[r].state = "created" /\ attempts[r] = <<>>
  BY DEF Init
<1>2. \A r \in RequestId : [n \in DOMAIN attempts[r] |-> Told(attempts[r][n])] = <<>>
  BY <1>1
<1>3. \A r \in RequestId : PhaseOf(requests[r].state) = "absent"
  BY <1>1, Phases
<1> QED
  BY <1>2, <1>3 DEF Life!LifeInit

-----------------------------------------------------------------------------
(* The ledger. *)

LEMMA BookType ==
  ASSUME NEW s \in Seq(AttemptRec)
  PROVE  /\ Book(s) \in Seq(Status \cup {"open"}) /\ Len(Book(s)) = Len(s)
         /\ \A n \in 1 .. Len(s) : Book(s)[n] = Told(s[n])
<1>1. Len(s) \in Nat /\ DOMAIN s = 1 .. Len(s)
  OBVIOUS
<1>2. \A n \in 1 .. Len(s) : Told(s[n]) \in Status \cup {"open"}
  <2>1. \A n \in 1 .. Len(s) : s[n] \in AttemptRec
    OBVIOUS
  <2>2. \A a \in AttemptRec : Told(a) \in Status \cup {"open"}
    BY DEF Told, AttemptRec
  <2> QED
    BY <2>1, <2>2
<1>3. /\ Book(s) \in [1 .. Len(s) -> Status \cup {"open"}]
      /\ \A n \in 1 .. Len(s) : Book(s)[n] = Told(s[n])
  BY <1>1, <1>2 DEF Book
<1>4. Book(s) \in Seq(Status \cup {"open"})
  BY <1>1, <1>3, SeqDef
<1>5. Len(Book(s)) \in Nat /\ 1 .. Len(Book(s)) = 1 .. Len(s)
  BY <1>3, <1>4, LenProperties
<1>6. Len(Book(s)) = Len(s)
  BY <1>1, <1>5
<1> QED
  BY <1>3, <1>4, <1>6

(* The current attempt gets its outcome. *)
LEMMA BookEnd ==
  ASSUME NEW s \in Seq(AttemptRec), Len(s) # 0, NEW a \in AttemptRec
  PROVE  Book([s EXCEPT ![Len(s)] = a]) = [Book(s) EXCEPT ![Len(Book(s))] = Told(a)]
<1>1. Len(s) \in Nat /\ DOMAIN s = 1 .. Len(s) /\ Len(Book(s)) = Len(s)
  BY BookType
<1> QED
  BY <1>1 DEF Book

(* A further attempt is recorded. *)
LEMMA BookAppend ==
  ASSUME NEW s \in Seq(AttemptRec), NEW a \in AttemptRec
  PROVE  Book(Append(s, a)) = Append(Book(s), Told(a))
<1> DEFINE S == Status \cup {"open"}
<1>1. /\ Book(s) \in Seq(S) /\ Len(Book(s)) = Len(s) /\ Len(s) \in Nat
      /\ \A n \in 1 .. Len(s) : Book(s)[n] = Told(s[n])
  BY BookType
<1>2. /\ Append(s, a) \in Seq(AttemptRec) /\ Len(Append(s, a)) = Len(s) + 1
      /\ \A n \in 1 .. Len(s) : Append(s, a)[n] = s[n]
      /\ Append(s, a)[Len(s) + 1] = a
  BY AppendProperties
<1>3. /\ Book(Append(s, a)) \in Seq(S) /\ Len(Book(Append(s, a))) = Len(s) + 1
      /\ \A n \in 1 .. Len(s) + 1 : Book(Append(s, a))[n] = Told(Append(s, a)[n])
  BY <1>2, BookType
<1>4. Told(a) \in S
  BY DEF Told, AttemptRec
<1> HIDE DEF S
<1>5. /\ Append(Book(s), Told(a)) \in Seq(S) /\ Len(Append(Book(s), Told(a))) = Len(s) + 1
      /\ \A n \in 1 .. Len(s) : Append(Book(s), Told(a))[n] = Book(s)[n]
      /\ Append(Book(s), Told(a))[Len(s) + 1] = Told(a)
  BY <1>1, <1>4, AppendProperties
<1>6. \A n \in 1 .. Len(s) + 1 : Book(Append(s, a))[n] = Append(Book(s), Told(a))[n]
  BY <1>1, <1>2, <1>3, <1>5
<1> QED
  BY <1>3, <1>5, <1>6, SeqEqual

(* Ending a live request, with its outcome in the current attempt. *)
LEMMA Closing ==
  ASSUME TypeOK, AttemptInv, NEW r \in RequestId, Live(r),
         NEW state \in Terminal, NEW outcome \in Status,
         attempts'[r] = [attempts[r] EXCEPT ![requests[r].attempt] =
                           [state |-> state, outcome |-> outcome]],
         requests'[r].state = state
  PROVE  Closes(r)
<1>1. /\ attempts[r] \in Seq(AttemptRec) /\ requests[r].state \in RequestState
      /\ requests[r].attempt = Len(attempts[r]) /\ Len(attempts[r]) # 0
  BY DEF TypeOK, RequestRec, AttemptInv, AttemptNumbers, Live
<1> DEFINE a == [state |-> state, outcome |-> outcome]
<1>2. a \in AttemptRec /\ Told(a) = outcome
  BY DEF AttemptRec, Told, RequestState
<1> HIDE DEF a
<1>3. LedgerAt(r)' = [LedgerAt(r) EXCEPT ![Len(LedgerAt(r))] = outcome]
  BY <1>1, <1>2, BookEnd DEF LedgerAt, a
<1>4. PhaseAt(r)' = "ended"
  BY Phases DEF PhaseAt
<1>5. PhaseAt(r) \notin {"absent", "ended"}
  BY <1>1, Phases DEF PhaseAt, Live, RequestState, InBatchState, HandedOut
<1> QED
  BY <1>3, <1>4, <1>5 DEF Closes

LEMMA Staying ==
  ASSUME NEW r, requests'[r].state = requests[r].state, attempts'[r] = attempts[r]
  PROVE  LifeStep(r)
BY DEF LifeStep, Stayed, PhaseAt, LedgerAt

LEMMA LedgerKept ==
  ASSUME NEW r, attempts'[r] = attempts[r]
  PROVE  LedgerAt(r)' = LedgerAt(r)
BY DEF LedgerAt

-----------------------------------------------------------------------------
(* The steps of the scheduler, as steps of one request. *)

LEMMA SubmitLife ==
  ASSUME TypeOK, AttemptInv, Submit, NEW q \in RequestId
  PROVE  LifeStep(q)
<1>1. CASE q # nextRequest
  BY <1>1, SubmitRequests, Staying
<1>2. CASE q = nextRequest
  <2>1. PICK m \in Offered, state \in {"expired", "rejected", "waiting", "eligible"},
               outcome \in Status :
          NewRequest(m, state, outcome)
    BY DEF Submit, SubmitExpired, SubmitOversized, SubmitDeferred, SubmitAdmitted, Status
  <2>2. requests[q].state = "created"
    BY <1>2 DEF TypeOK, AttemptInv, AttemptNumbers
  <2> DEFINE a == [state |-> state, outcome |-> outcome]
  <2>3. requests'[q].state = state /\ attempts'[q] = <<a>>
    BY <1>2, <2>1 DEF NewRequest, TypeOK
  <2>4. LedgerAt(q)' = <<Told(a)>>
    BY <2>3 DEF LedgerAt, Book
  <2>5. PhaseAt(q) = "absent"
    BY <2>2, Phases DEF PhaseAt
  <2>6. CASE state \in {"expired", "rejected"}
    <3>1. PhaseAt(q)' = "ended"
      BY <2>3, <2>6, Phases DEF PhaseAt, Terminal
    <3>2. Told(a) = outcome
      BY <2>6 DEF Told, Terminal
    <3> QED
      BY <2>4, <2>5, <3>1, <3>2 DEF LifeStep, Entered
  <2>7. CASE state \in {"waiting", "eligible"}
    <3>1. PhaseAt(q)' = "queued"
      BY <2>3, <2>7, Phases DEF PhaseAt, WaitingState
    <3>2. Told(a) = "open"
      BY <2>7 DEF Told, Terminal
    <3> QED
      BY <2>4, <2>5, <3>1, <3>2 DEF LifeStep, Entered
  <2> QED
    BY <2>6, <2>7
<1> QED
  BY <1>1, <1>2

LEMMA CancelLife ==
  ASSUME TypeOK, AttemptInv, NEW r \in RequestId, DoCancel(r), NEW q \in RequestId
  PROVE  LifeStep(q)
<1>1. CASE q # r
  BY <1>1, CancelRequests, Staying
<1>2. CASE q = r
  <2>1. Live(r) /\ EndRequest(r, "cancelled", "cancelled")
    BY DEF DoCancel, CancelQueued, CancelForming, CancelSealed
  <2>2. attempts'[r] = [attempts[r] EXCEPT ![requests[r].attempt] =
                          [state |-> "cancelled", outcome |-> "cancelled"]]
    BY <2>1 DEF EndRequest, TypeOK
  <2>3. requests'[r].state = "cancelled"
    BY CancelRequests
  <2>4. "cancelled" \in Terminal /\ "cancelled" \in Status
    BY DEF Terminal, Status
  <2> QED
    BY <1>2, <2>1, <2>2, <2>3, <2>4, Closing DEF LifeStep
<1> QED
  BY <1>1, <1>2

LEMMA ExpireLife ==
  ASSUME TypeOK, AttemptInv, ExpireWaiting, NEW q \in RequestId
  PROVE  LifeStep(q)
<1> DEFINE late == {r \in RequestId : waiting[r] > 0 /\ Overdue(r)}
           ends == {r \in late : requests[r].state \notin Terminal}
<1>1. requests \in [RequestId -> RequestRec] /\ attempts \in [RequestId -> Seq(AttemptRec)]
  BY DEF TypeOK
<1>2. CASE q \notin ends
  <2>1. requests'[q] = requests[q] /\ attempts'[q] = attempts[q]
    BY <1>1, <1>2 DEF ExpireWaiting
  <2> QED
    BY <2>1, Staying
<1>3. CASE q \in ends
  <2>1. attempts'[q] = [attempts[q] EXCEPT ![requests[q].attempt] =
                          [state |-> "expired", outcome |-> "expired"]]
    BY <1>3 DEF ExpireWaiting
  <2>2. requests'[q].state = "expired"
    BY <1>1, <1>3 DEF ExpireWaiting, RequestRec
  <2>3. Live(q)
    BY <1>3 DEF Live, AttemptInv, SubmittedOnly
  <2>4. "expired" \in Terminal /\ "expired" \in Status
    BY DEF Terminal, Status
  <2> QED
    BY <2>1, <2>2, <2>3, <2>4, Closing DEF LifeStep
<1> QED
  BY <1>2, <1>3

LEMMA PlaceLife ==
  ASSUME TypeOK, NEW r \in RequestId, Place(r), NEW q \in RequestId
  PROVE  LifeStep(q)
<1>1. attempts' = attempts
  BY PlaceRequests
<1>2. CASE q # r
  BY <1>1, <1>2, PlaceRequests, Staying
<1>3. CASE q = r
  <2>1. PhaseAt(r) = "queued" /\ PhaseAt(r)' = "placed"
    BY PlaceRequests, Phases DEF PhaseAt
  <2> QED
    BY <1>1, <1>3, <2>1, LedgerKept DEF LifeStep, Moved
<1> QED
  BY <1>2, <1>3

LEMMA SealLife ==
  ASSUME TypeOK, NEW b \in BatchId, DoSeal(b), attempts' = attempts, NEW q \in RequestId
  PROVE  LifeStep(q)
<1>1. CASE requests'[q] = requests[q]
  BY <1>1, Staying
<1>2. CASE requests[q].state = "reserved" /\ requests'[q] = [requests[q] EXCEPT !.state = "batched"]
  <2>1. requests'[q].state = "batched"
    BY <1>2 DEF TypeOK, RequestRec
  <2>2. PhaseAt(q) = "placed" /\ PhaseAt(q)' = "committed"
    BY <1>2, <2>1, Phases DEF PhaseAt
  <2> QED
    BY <2>2, LedgerKept DEF LifeStep, Moved
<1> QED
  BY <1>1, <1>2, SealRequests

LEMMA HandLife ==
  ASSUME TypeOK, NEW b \in BatchId, NEW state \in HandedOut, Advance(b, state),
         attempts' = attempts, NEW q \in RequestId
  PROVE  LifeStep(q)
<1>1. CASE requests'[q] = requests[q]
  BY <1>1, Staying
<1>2. CASE requests[q].state = "batched" /\ requests'[q].state = state
  <2>1. PhaseAt(q) = "committed" /\ PhaseAt(q)' = "issued"
    BY <1>2, Phases DEF PhaseAt
  <2> QED
    BY <2>1, LedgerKept DEF LifeStep, Moved
<1> QED
  BY <1>1, <1>2, AdvanceRequests

(* An outcome is applied to a member that was handed out: its attempt ends, *)
(* or it goes back to the queue with a fresh one.                           *)
LEMMA OutcomeLife ==
  ASSUME TypeOK, AttemptInv, NEW r \in RequestId, NEW status \in Status, ApplyOutcome(r, status),
         requests[r].state \in HandedOut, NEW q \in RequestId
  PROVE  LifeStep(q)
<1>types. /\ requests \in [RequestId -> RequestRec] /\ attempts \in [RequestId -> Seq(AttemptRec)]
          /\ requests[r].attempt = Len(attempts[r]) /\ Len(attempts[r]) # 0
  BY DEF TypeOK, AttemptInv, AttemptNumbers, HandedOut
<1>live. Live(r)
  BY DEF Live, HandedOut, Terminal
<1>1. CASE ApplyIgnored(status)
  BY <1>1, Staying DEF ApplyIgnored, requestVars
<1>2. CASE ApplyFinal(r, status)
  <2>1. /\ FinalState[status] \in Terminal
        /\ requests' = [requests EXCEPT ![r].state = FinalState[status]]
        /\ attempts' = [attempts EXCEPT ![r][requests[r].attempt] =
                          [state |-> FinalState[status], outcome |-> status]]
    BY <1>2 DEF ApplyFinal, FinalState, EndRequest, Terminal
  <2>2. CASE q # r
    <3>1. requests'[q] = requests[q] /\ attempts'[q] = attempts[q]
      BY <1>types, <2>1, <2>2
    <3> QED
      BY <3>1, Staying
  <2>3. CASE q = r
    <3>1. /\ requests'[r].state = FinalState[status]
          /\ attempts'[r] = [attempts[r] EXCEPT ![requests[r].attempt] =
                               [state |-> FinalState[status], outcome |-> status]]
      BY <1>types, <2>1 DEF RequestRec
    <3> QED
      BY <1>live, <2>1, <2>3, <3>1, Closing DEF LifeStep
  <2> QED
    BY <2>2, <2>3
<1>3. CASE ApplyRetry(r, status)
  <2> DEFINE a == [state |-> "failed", outcome |-> status]
             s == [attempts[r] EXCEPT ![requests[r].attempt] = a]
  <2>1. /\ Requeue(r) /\ status = "retryable_failure" /\ requests[r].attempt < MaxAttempts
        /\ attempts' = [attempts EXCEPT ![r] = Append(s, Eligible)]
    BY <1>3, <1>types DEF ApplyRetry, Retried
  <2>2. CASE q # r
    BY <1>types, <2>1, <2>2, RetryRequests, Staying
  <2>3. CASE q = r
    <3>1. a \in AttemptRec /\ Eligible \in AttemptRec
      BY DEF AttemptRec, Eligible, RequestState, Terminal, WaitingState, Status
    <3>2. Told(a) = "retryable_failure" /\ Told(Eligible) = "open"
      BY <2>1 DEF Told, Eligible, Terminal
    <3>3. attempts[r] \in Seq(AttemptRec) /\ requests[r].attempt \in 1 .. Len(attempts[r])
      BY <1>types
    <3>4. s \in Seq(AttemptRec)
      BY <3>1, <3>3, ExceptSeq
    <3>5. Book(s) = [LedgerAt(r) EXCEPT ![Len(LedgerAt(r))] = "retryable_failure"]
      BY <1>types, <3>1, <3>2, <3>3, BookEnd DEF LedgerAt
    <3>6. Len(LedgerAt(r)) < MaxAttempts
      BY <1>types, <2>1, <3>3, BookType DEF LedgerAt
    <3>7. LedgerAt(r)' = Book(Append(s, Eligible))
      BY <1>types, <2>1 DEF LedgerAt
    <3> HIDE DEF s, a
    <3>8. LedgerAt(r)' = Append([LedgerAt(r) EXCEPT ![Len(LedgerAt(r))] = "retryable_failure"], "open")
      BY <3>1, <3>2, <3>4, <3>5, <3>7, BookAppend
    <3>9. PhaseAt(r) = "issued" /\ PhaseAt(r)' = "queued"
      BY <2>1, RetryRequests, Phases DEF PhaseAt, WaitingState
    <3> QED
      BY <2>3, <3>6, <3>8, <3>9 DEF LifeStep, Returned
  <2> QED
    BY <2>2, <2>3
<1> QED
  BY <1>1, <1>2, <1>3 DEF ApplyOutcome

(* Every step of the scheduler is a step in the life of every request. *)
LEMMA EveryLife ==
  ASSUME Unretried, TypeOK, BatchInv, AttemptInv, NotFailing, Todo, [Next]_vars,
         NEW q \in RequestId
  PROVE  LifeStep(q)
<1> USE DEF requestVars
<1>1. CASE Submit
  BY <1>1, SubmitLife
<1>2. CASE Still \/ FillNewDone \/ CompleteDone \/ \E k \in Key : MakeForming(k)
  <2>1. requests' = requests /\ attempts' = attempts
    BY <1>2 DEF Still, FillNewDone, CompleteDone, MakeForming
  <2> QED
    BY <2>1, Staying
<1>3. CASE ExpireWaiting
  BY <1>3, ExpireLife
<1>4. CASE \E r \in RequestId : DoCancel(r)
  BY <1>4, CancelLife
<1>5. CASE \E r \in RequestId : Place(r)
  BY <1>5, PlaceLife
<1>6. CASE \E b \in BatchId :
             DoSeal(b) /\ UNCHANGED <<attempts, waiting, idVars, merged, lineage, dispatches>>
  BY <1>6, SealLife
<1>7. ASSUME NEW b \in BatchId, StartRun(b) \/ \E w \in Worker : PrepareDispatch(b, w)
      PROVE  LifeStep(q)
  BY <1>7, HandLife DEF StartRun, PrepareDispatch, HandedOut
<1>8. ASSUME NEW a \in BatchId, NEW b \in BatchId, DoMerge(a, b) PROVE LifeStep(q)
  BY <1>8, MergeRequests, Staying DEF DoMerge
<1>9. ASSUME NEW b \in BatchId, DoSplit(b) PROVE LifeStep(q)
  BY <1>9, RehomeRequests, Staying DEF DoSplit
<1>10. ASSUME NEW r \in RequestId, CompleteMember(r) PROVE LifeStep(q)
  <2>1. ApplyOutcome(r, op.report[r]) /\ requests[r].state \in HandedOut /\ op.report[r] \in Status
    BY <1>10 DEF CompleteMember, Todo, TypeOK, OpOK
  <2> QED
    BY <2>1, OutcomeLife
<1>11. ~ \E r \in RequestId : FailMember(r) \/ Retry(r)
  BY DEF FailMember, NotFailing, Unretried
<1> QED
  BY <1>1, <1>2, <1>3, <1>4, <1>5, <1>6, <1>7, <1>8, <1>9, <1>10, <1>11, StepKinds

(* The scheduler implements the specified life of its requests: as long as  *)
(* no client retries explicitly and no in-process execution fails as a      *)
(* whole, every step of submit, tick, expire, cancel, prepare_dispatch,     *)
(* dispatch_and_run, complete, merge and split is, for every request, a     *)
(* step RequestLife allows.                                                 *)
THEOREM LivesImplemented ==
  ASSUME RetryFrom = {}, "failed" \notin LocalResults
  PROVE  Spec => LivesAsSpecified
<1>1. Careful
  BY DEF Careful
<1>2. Spec => []Placement
  BY <1>1, RequestsPlaced
<1>3. Spec => []NotFailing
  BY NoFailPath
<1>4. TypeOK /\ BatchInv /\ AttemptInv /\ NotFailing /\ Placement /\ [Next]_vars => Life!LifeNext
  BY EveryLife, LifeSteps, UnretriedSteps DEF Placement
<1> QED
  BY <1>2, <1>3, <1>4, LifeStart, TypeCorrect, BatchesBooked, AttemptsConsistent, PTL
     DEF Spec, LivesAsSpecified, Life!LifeSpec

-----------------------------------------------------------------------------
(* The batches that a split breaks: a request's batch field, the entry of a *)
(* key, the seal order and the generations lead to the right batch as long  *)
(* as nothing is split, whatever is merged, sealed, cancelled, retried,     *)
(* executed and reported.                                                   *)

(* No client calls split(), and no worker states a limit that would make    *)
(* tick() split: do_split gives both halves the generation of the batch,    *)
(* overwrites the entry of the key and sends the first half of a sealed     *)
(* batch back to the superseded one.                                        *)
NoSplits == "split" \notin Calls /\ WorkerSizes \subseteq {0}

Unlimited == \A w \in WorkerId : workers[w].size = 0

(* The batch field of a request that has left the queue names its batch. *)
FieldNames ==
  \A r \in RequestId : requests[r].state \in InBatchState =>
    requests[r].batch # NoBatch /\ HomeOf(requests[r].batch, r)

(* A forming batch is its key's entry, a sealed one is in the seal order. *)
BatchesListed ==
  \A b \in BatchId : /\ batches[b].state = "forming" => EntryOf(b) = b
                     /\ batches[b].state = "sealed" => b \in Range(sealedOrder)

(* The keys a tick has still to make a batch for have none. *)
NewKeys == op.pc \in {"make", "fillnew"} => \A k \in op.keys : formingByKey[k] = NoBatch

(* Every batch has a generation of its own, below the counter. *)
Generations ==
  /\ \A b \in BatchId : batches[b].state # "none" => batches[b].generation < nextGeneration
  /\ \A a, b \in BatchId :
       (/\ batches[a].state # "none" /\ batches[b].state # "none"
        /\ batches[a].generation = batches[b].generation) => a = b

Unsplit == Unlimited /\ FieldNames /\ BatchesListed /\ NewKeys /\ Generations

(* With no limit on record no batch is too large. *)
LEMMA NoneTooLarge ==
  ASSUME Unlimited
  PROVE  \A b \in BatchId : ~TooLarge(b)
<1>1. {workers[w].size : w \in {v \in WorkerId : workers[v].live}} \ {0} = {}
  BY DEF Unlimited
<1>2. MaxWorkerBatchSize = 0
  BY <1>1 DEF MaxWorkerBatchSize
<1> QED
  BY <1>2 DEF TooLarge

LEMMA NeverSplit ==
  ASSUME NoSplits, Unlimited
  PROVE  ~ \E b \in BatchId : DoSplit(b) /\ (Split(b) \/ TooLarge(b))
BY NoneTooLarge DEF NoSplits, Split

(* Workers register without a limit. *)
LEMMA UnlimitedStep ==
  ASSUME NoSplits, TypeOK, Unlimited, [Next]_vars
  PROVE  Unlimited'
<1>1. CASE workers' = workers
  BY <1>1 DEF Unlimited
<1>2. ASSUME NEW w \in Worker, NEW boot \in BootId, NEW size \in WorkerSizes,
             RegisterWorker(w, boot, size)
      PROVE  Unlimited'
  <2>1. workers' = [workers EXCEPT ![w] = [live |-> TRUE, boot |-> boot, size |-> size]]
    BY <1>2 DEF RegisterWorker
  <2>2. workers \in [WorkerId -> [live: BOOLEAN, boot: BootId, size: Nat]] /\ size = 0
    BY DEF TypeOK, NoSplits
  <2> QED
    BY <2>1, <2>2 DEF Unlimited
<1> QED
  BY <1>1, <1>2, WorkersKept

-----------------------------------------------------------------------------
(* The batch field. *)

(* A step that keeps members and ends no batch, and moves no request that   *)
(* stays in one.                                                            *)
LEMMA QuietFields ==
  ASSUME FieldNames, TypeOK,
         \A c \in BatchId : SameMembers(c) /\ (batches[c].state \in Homes => batches'[c].state \in Homes),
         \A q \in RequestId : requests'[q].state \in InBatchState =>
           requests[q].state \in InBatchState /\ requests'[q].batch = requests[q].batch
  PROVE  FieldNames'
<1>1. \A q \in RequestId : requests[q].batch \in BatchId \cup {NoBatch}
  BY DEF TypeOK, RequestRec
<1> QED
  BY <1>1 DEF FieldNames, HomeOf, Members, SameMembers

LEMMA FieldStep ==
  ASSUME NoSplits, TypeOK, BatchInv, Unlimited, FieldNames, [Next]_vars
  PROVE  FieldNames'
<1>types. \A q \in RequestId : requests[q].batch \in BatchId \cup {NoBatch}
  BY DEF TypeOK, RequestRec
<1>kept. ASSUME BatchesKept
         PROVE  \A c \in BatchId : /\ SameMembers(c)
                                   /\ batches[c].state \in Homes => batches'[c].state \in Homes
  BY <1>kept DEF BatchesKept, SameState
<1>1. CASE Submit
  <2>1. BatchesKept
    BY <1>1, KeptFields, SubmitRequests DEF batchVars
  <2>2. \A q \in RequestId : requests'[q].state \in InBatchState => requests'[q] = requests[q]
    BY <1>1, SubmitRequests DEF InBatchState
  <2> QED
    BY <1>kept, <2>1, <2>2, QuietFields
<1>2. CASE Still
  <2>1. BatchesKept /\ requests' = requests
    BY <1>2, KeptFields DEF Still, batchVars, requestVars
  <2> QED
    BY <1>kept, <2>1, QuietFields
<1>3. CASE ExpireWaiting
  <2>1. BatchesKept
    BY <1>3, KeptFields DEF ExpireWaiting, batchVars
  <2>2. \A q \in RequestId : requests'[q].state \in InBatchState => requests'[q] = requests[q]
    BY <1>3, ExpireRequests DEF InBatchState
  <2> QED
    BY <1>kept, <2>1, <2>2, QuietFields
<1>4. CASE FillNewDone
  <2>1. BatchesKept /\ requests' = requests
    BY <1>4, FillNewFields DEF FillNewDone, requestVars
  <2> QED
    BY <1>kept, <2>1, QuietFields
<1>5. ASSUME NEW r \in RequestId, Retry(r) PROVE FieldNames'
  <2>1. BatchesKept
    BY <1>5, KeptFields DEF Retry, batchVars
  <2>2. \A q \in RequestId : requests'[q].state \in InBatchState => requests'[q] = requests[q]
    BY <1>5, RetryRequests DEF InBatchState, Retry
  <2> QED
    BY <1>kept, <2>1, <2>2, QuietFields
<1>6. ASSUME NEW r \in RequestId, CompleteMember(r) \/ FailMember(r) PROVE FieldNames'
  <2>1. PICK status : ApplyOutcome(r, status)
    BY <1>6 DEF CompleteMember, FailMember
  <2>2. BatchesKept
    BY <2>1, OutcomeFields
  <2>3. requests'[r].state \in InBatchState => requests'[r] = requests[r]
    BY <2>1, OutcomeRequests, RetryRequests DEF InBatchState
  <2>4. \A q \in RequestId : requests'[q].state \in InBatchState => requests'[q] = requests[q]
    BY <2>1, <2>3, OutcomeRequests
  <2> QED
    BY <1>kept, <2>2, <2>4, QuietFields
<1>7. ASSUME NEW b \in BatchId, DoSeal(b) PROVE FieldNames'
  <2>1. \A c \in BatchId : SameMembers(c) /\ (batches[c].state \in Homes => batches'[c].state \in Homes)
    BY <1>7, SealFields DEF SameState, Homes, ActiveBatch
  <2>2. \A q \in RequestId : requests'[q].state \in InBatchState =>
          requests[q].state \in InBatchState /\ requests'[q].batch = requests[q].batch
    <3> TAKE q \in RequestId
    <3>1. requests[q] \in RequestRec
      BY DEF TypeOK
    <3> QED
      BY <1>7, <3>1, SealRequests DEF InBatchState, RequestRec
  <2> QED
    BY <2>1, <2>2, QuietFields
<1>8. ASSUME NEW b \in BatchId, NEW state \in HandedOut, NEW w, Handed(b, state, w), Advance(b, state)
      PROVE  FieldNames'
  <2>1. \A c \in BatchId : SameMembers(c) /\ (batches[c].state \in Homes => batches'[c].state \in Homes)
    BY <1>8 DEF Handed, SameState, Homes, ActiveBatch, HandedOut
  <2>2. \A q \in RequestId : requests'[q].state \in InBatchState =>
          requests[q].state \in InBatchState /\ requests'[q].batch = requests[q].batch
    BY <1>8, AdvanceRequests DEF InBatchState
  <2> QED
    BY <2>1, <2>2, QuietFields
<1>9. ASSUME NEW b \in BatchId, StartRun(b) \/ \E w \in Worker : PrepareDispatch(b, w)
      PROVE  FieldNames'
  BY <1>8, <1>9, RunFields, DispatchFields DEF StartRun, PrepareDispatch, HandedOut
<1>10. CASE CompleteDone
  <2> SUFFICES ASSUME NEW q \in RequestId, requests'[q].state \in InBatchState
               PROVE  requests'[q].batch # NoBatch /\ HomeOf(requests[q].batch, q)'
    BY <1>10 DEF FieldNames, HomeOf, CompleteDone, requestVars
  <2>1. requests' = requests
    BY <1>10 DEF CompleteDone, requestVars
  <2> DEFINE c == requests[q].batch
  <2>2. c \in BatchId /\ HomeOf(c, q)
    BY <1>types, <2>1 DEF FieldNames
  <2>3. requests[q].state \notin Terminal
    BY <2>1 DEF InBatchState, Terminal
  <2>4. batches'[c].state \in Homes
    BY <1>10, <2>2, <2>3, DoneFields DEF SameState, HomeOf, Homes
  <2>5. batches'[c].members = batches[c].members
    BY <1>10, <2>2, DoneFields DEF SameMembers
  <2> QED
    BY <2>1, <2>2, <2>4, <2>5, IdsNatural DEF HomeOf, Members
<1>11. ASSUME NEW r \in RequestId, DoCancel(r) PROVE FieldNames'
  <2> SUFFICES ASSUME NEW q \in RequestId, requests'[q].state \in InBatchState
               PROVE  /\ requests'[q].batch # NoBatch
                      /\ q \in Range(batches'[requests'[q].batch].members)
                      /\ batches'[requests'[q].batch].state \in Homes
    BY DEF FieldNames, HomeOf, Members
  <2>1. q # r /\ requests'[q] = requests[q]
    BY <1>11, CancelRequests DEF InBatchState
  <2> DEFINE c == requests[q].batch
  <2>2. c \in BatchId /\ c # NoBatch /\ HomeOf(c, q)
    BY <1>types, <2>1 DEF FieldNames
  <2> HIDE DEF c
  <2>3. q \in Range(Without(batches[c].members, r))
    BY <2>1, <2>2, WithoutKeeps, MemberTypes DEF HomeOf, Members
  <2>4. q \in Range(batches'[c].members)
    BY <1>11, <2>2, <2>3, CancelFields DEF HomeOf, Members, SameMembers
  <2>5. batches'[c].state \in Homes
    BY <1>11, <2>2, CancelFields DEF HomeOf, SameState
  <2> QED
    BY <2>1, <2>2, <2>4, <2>5 DEF c
<1>12. ASSUME NEW k \in Key, MakeForming(k) PROVE FieldNames'
  <2> SUFFICES ASSUME NEW q \in RequestId, requests'[q].state \in InBatchState
               PROVE  /\ requests'[q].batch # NoBatch
                      /\ q \in Range(batches'[requests'[q].batch].members)
                      /\ batches'[requests'[q].batch].state \in Homes
    BY DEF FieldNames, HomeOf, Members
  <2>1. requests' = requests
    BY <1>12 DEF MakeForming, requestVars
  <2>2. requests[q].batch \in BatchId /\ requests[q].batch # NoBatch /\ HomeOf(requests[q].batch, q)
    BY <1>types, <2>1 DEF FieldNames
  <2>3. batches[nextBatch].state = "none"
    BY <1>12, MakeFields DEF BatchInv, Books, FreshBatches, TypeOK
  <2>4. requests[q].batch # nextBatch
    BY <2>2, <2>3 DEF HomeOf, Homes, ActiveBatch
  <2> QED
    BY <1>12, <2>1, <2>2, <2>4, MakeFields DEF HomeOf, Members
<1>13. ASSUME NEW r \in RequestId, Place(r) PROVE FieldNames'
  <2> SUFFICES ASSUME NEW q \in RequestId, requests'[q].state \in InBatchState
               PROVE  /\ requests'[q].batch # NoBatch
                      /\ q \in Range(batches'[requests'[q].batch].members)
                      /\ batches'[requests'[q].batch].state \in Homes
    BY DEF FieldNames, HomeOf, Members
  <2>1. op.cur \in BatchId /\ batches[op.cur].state \in Homes /\ op.cur # NoBatch
    BY <1>13, FilledBatch, IdsNatural DEF Place, Fillable, Homes, ActiveBatch
  <2>2. Range(batches'[op.cur].members) = Members(op.cur) \cup {r}
    <3>1. Range(Append(batches[op.cur].members, r)) = Range(batches[op.cur].members) \cup {r}
      BY <2>1, AppendRange, MemberTypes
    <3> QED
      BY <1>13, <3>1, PlaceFields DEF Members
  <2>3. \A c \in BatchId : batches'[c].state = batches[c].state
    BY <1>13, PlaceFields DEF SameState
  <2>4. \A c \in BatchId : c # op.cur => batches'[c].members = batches[c].members
    BY <1>13, PlaceFields DEF SameMembers
  <2>5. CASE q = r
    BY <1>13, <2>1, <2>2, <2>3, <2>5, PlaceRequests
  <2>6. CASE q # r
    <3>1. requests'[q] = requests[q]
      BY <1>13, <2>6, PlaceRequests
    <3>2. requests[q].batch \in BatchId /\ requests[q].batch # NoBatch /\ HomeOf(requests[q].batch, q)
      BY <1>types, <3>1 DEF FieldNames
    <3> QED
      BY <2>2, <2>3, <2>4, <3>1, <3>2 DEF HomeOf, Members
  <2> QED
    BY <2>5, <2>6
<1>14. ASSUME NEW a \in BatchId, NEW b \in BatchId, a # b, DoMerge(a, b) PROVE FieldNames'
  <2> SUFFICES ASSUME NEW q \in RequestId, requests'[q].state \in InBatchState
               PROVE  /\ requests'[q].batch # NoBatch
                      /\ q \in Range(batches'[requests'[q].batch].members)
                      /\ batches'[requests'[q].batch].state \in Homes
    BY DEF FieldNames, HomeOf, Members
  <2>1. /\ requests[q].state \in InBatchState
        /\ requests'[q].batch = IF q \in Members(b) THEN a ELSE requests[q].batch
    BY <1>14, MergeRequests
  <2>2. requests[q].batch \in BatchId /\ requests[q].batch # NoBatch /\ HomeOf(requests[q].batch, q)
    BY <1>types, <2>1 DEF FieldNames
  <2>3. Range(batches'[a].members) = Members(a) \cup Members(b)
    <3>1. Range(batches[a].members \o batches[b].members) = Members(a) \cup Members(b)
      BY RangeConcatenation, MemberTypes DEF Members
    <3> QED
      BY <1>14, <3>1, MergeFields
  <2>4. batches'[a].state \in Homes /\ a # NoBatch
    <3>1. SameState(a) /\ batches[a].state \in {"sealed", "forming"}
      BY <1>14, MergeFields
    <3> QED
      BY <3>1, IdsNatural DEF SameState, Homes, ActiveBatch
  <2>5. CASE q \in Members(b)
    BY <2>1, <2>3, <2>4, <2>5
  <2>6. CASE q \notin Members(b)
    <3> DEFINE c == requests[q].batch
    <3>1. c # b
      BY <2>2, <2>6 DEF HomeOf
    <3>2. CASE c = a
      BY <2>1, <2>2, <2>3, <2>4, <2>6, <3>2 DEF HomeOf
    <3>3. CASE c # a
      <4>1. SameState(c) /\ SameMembers(c)
        BY <1>14, <2>2, <3>1, <3>3, MergeFields
      <4> QED
        BY <2>1, <2>2, <2>6, <4>1 DEF HomeOf, Members, SameState, SameMembers
    <3> QED
      BY <3>2, <3>3
  <2> QED
    BY <2>5, <2>6
<1> QED
  BY <1>1, <1>2, <1>3, <1>4, <1>5, <1>6, <1>7, <1>9, <1>10, <1>11, <1>12, <1>13, <1>14,
     NeverSplit, StepKinds

-----------------------------------------------------------------------------
(* The entries of the keys and the seal order. *)

LEMMA QuietListed ==
  ASSUME BatchesListed, \A b \in BatchId : Identity(b) /\ SameState(b),
         UNCHANGED <<formingByKey, sealedOrder>>
  PROVE  BatchesListed'
BY DEF BatchesListed, Identity, SameState, EntryOf

(* Two forming batches of one key are one, so no merge empties a batch that *)
(* is its key's entry.                                                      *)
LEMMA MergesSealed ==
  ASSUME TypeOK, BatchesListed, NEW a \in BatchId, NEW b \in BatchId, a # b, DoMerge(a, b)
  PROVE  batches[a].state = "sealed" /\ batches[b].state = "sealed"
<1>1. /\ batches[a].state \in {"sealed", "forming"} /\ batches[b].state = batches[a].state
      /\ batches[a].key = batches[b].key
  BY MergeFields
<1>2. batches[a].state # "forming"
  BY <1>1 DEF BatchesListed, EntryOf
<1> QED
  BY <1>1, <1>2

LEMMA ListedStep ==
  ASSUME NoSplits, TypeOK, TypeOK', BatchInv, Unlimited, BatchesListed, NewKeys, [Next]_vars
  PROVE  BatchesListed'
<1>types. sealedOrder \in Seq(BatchId)
  BY BookTypes
<1>kept. ASSUME BatchesKept PROVE \A b \in BatchId : Identity(b) /\ SameState(b)
  BY <1>kept DEF BatchesKept
<1>1. CASE Submit \/ Still \/ ExpireWaiting \/ \E r \in RequestId : Retry(r)
  <2>1. UNCHANGED batchVars
    BY <1>1, SubmitRequests DEF Still, Retry, ExpireWaiting
  <2> QED
    BY <1>kept, <2>1, KeptFields, QuietListed DEF batchVars
<1>2. CASE FillNewDone
  BY <1>2, <1>kept, FillNewFields, QuietListed DEF FillNewDone
<1>3. ASSUME NEW r \in RequestId, CompleteMember(r) \/ FailMember(r) PROVE BatchesListed'
  <2>1. PICK status : ApplyOutcome(r, status)
    BY <1>3 DEF CompleteMember, FailMember
  <2>2. BatchesKept /\ UNCHANGED <<formingByKey, sealedOrder>>
    BY <2>1, OutcomeFields DEF ApplyOutcome
  <2> QED
    BY <1>kept, <2>2, QuietListed
<1>4. ASSUME NEW r \in RequestId, DoCancel(r) PROVE BatchesListed'
  <2>1. \A b \in BatchId : Identity(b) /\ SameState(b)
    BY <1>4, CancelFields
  <2> QED
    BY <1>4, <2>1, QuietListed DEF DoCancel
<1>5. ASSUME NEW r \in RequestId, Place(r) PROVE BatchesListed'
  <2>1. \A b \in BatchId : Identity(b) /\ SameState(b)
    BY <1>5, PlaceFields
  <2> QED
    BY <1>5, <2>1, QuietListed DEF Place
<1>6. CASE CompleteDone
  <2>1. /\ \A b \in BatchId : Identity(b)
        /\ \A b \in BatchId : b # op.cur => SameState(b)
        /\ batches'[op.cur].state \notin {"forming", "sealed"}
    BY <1>6, DoneFields
  <2>2. UNCHANGED <<formingByKey, sealedOrder>>
    BY <1>6 DEF CompleteDone
  <2> QED
    BY <2>1, <2>2 DEF BatchesListed, Identity, SameState, EntryOf
<1>7. ASSUME NEW b \in BatchId, StartRun(b) \/ \E w \in Worker : PrepareDispatch(b, w) PROVE BatchesListed'
  <2>1. PICK state \in HandedOut : \E w : Handed(b, state, w)
    BY <1>7, RunFields, DispatchFields DEF HandedOut
  <2>2. UNCHANGED <<formingByKey, sealedOrder>>
    BY <1>7 DEF StartRun, PrepareDispatch
  <2>3. \A c \in BatchId : Identity(c) /\ (c # b => SameState(c)) /\ batches'[b].state = state
    BY <2>1 DEF Handed
  <2> QED
    BY <2>1, <2>2, <2>3 DEF BatchesListed, Identity, SameState, EntryOf, HandedOut
<1>8. ASSUME NEW k \in Key, MakeForming(k) PROVE BatchesListed'
  <2>1. /\ nextBatch \in BatchId
        /\ \A b \in BatchId \ {nextBatch} : batches'[b] = batches[b]
        /\ batches'[nextBatch].state = "forming" /\ batches'[nextBatch].key = k
        /\ formingByKey'[k] = nextBatch
        /\ \A l \in Key \ {k} : formingByKey'[l] = formingByKey[l]
    BY <1>8, MakeFields
  <2>2. formingByKey[k] = NoBatch /\ sealedOrder' = sealedOrder
    BY <1>8 DEF MakeForming, NewKeys
  <2>3. ASSUME NEW b \in BatchId, b # nextBatch
        PROVE  /\ batches'[b].state = "forming" => formingByKey'[batches'[b].key] = b
               /\ batches'[b].state = "sealed" => b \in Range(sealedOrder')
    <3>1. batches'[b] = batches[b] /\ batches[b].key \in Key /\ b # NoBatch
      BY <2>1, <2>3, BookTypes, IdsNatural
    <3>2. batches[b].state = "forming" => formingByKey[batches[b].key] = b
      BY DEF BatchesListed, EntryOf
    <3>3. batches[b].state = "forming" => batches[b].key # k
      BY <2>2, <3>1, <3>2
    <3> QED
      BY <2>1, <2>2, <3>1, <3>2, <3>3 DEF BatchesListed
  <2> QED
    BY <2>1, <2>3 DEF BatchesListed, EntryOf
<1>9. ASSUME NEW b \in BatchId, DoSeal(b) PROVE BatchesListed'
  <2>1. /\ \A c \in BatchId : Identity(c) /\ (c # b => SameState(c))
        /\ batches[b].state = "forming" /\ batches'[b].state = "sealed"
        /\ \A k \in Key \ {batches[b].key} : formingByKey'[k] = formingByKey[k]
    BY <1>9, SealFields
  <2>2. Range(sealedOrder') = Range(sealedOrder) \cup {b}
    BY <1>9, <1>types, AppendRange DEF DoSeal
  <2>3. ASSUME NEW c \in BatchId, c # b, batches'[c].state = "forming"
        PROVE  formingByKey'[batches'[c].key] = c
    <3>1. batches[c].state = "forming" /\ batches'[c].key = batches[c].key
      BY <2>1, <2>3 DEF Identity, SameState
    <3>2. formingByKey[batches[c].key] = c /\ formingByKey[batches[b].key] = b
      BY <2>1, <3>1 DEF BatchesListed, EntryOf
    <3> QED
      BY <2>1, <2>3, <3>1, <3>2, BookTypes
  <2> QED
    BY <2>1, <2>2, <2>3 DEF BatchesListed, Identity, SameState, EntryOf
<1>10. ASSUME NEW a \in BatchId, NEW b \in BatchId, a # b, DoMerge(a, b) PROVE BatchesListed'
  <2>1. /\ \A c \in BatchId : Identity(c) /\ (c # b => SameState(c))
        /\ batches'[b].state = "superseded"
    BY <1>10, MergeFields
  <2>2. batches[b].state = "sealed" /\ b # NoBatch
    BY <1>10, MergesSealed, IdsNatural
  <2>3. formingByKey[batches[b].key] # b
    BY <2>2, BookTypes DEF BatchInv, Books, KeyEntries, Fillable
  <2>4. formingByKey' = formingByKey /\ Range(sealedOrder) \ {b} \subseteq Range(sealedOrder')
    BY <1>10, <1>types, <2>3, WithoutKeeps DEF DoMerge
  <2> QED
    BY <2>1, <2>4 DEF BatchesListed, Identity, SameState, EntryOf
<1> QED
  BY <1>1, <1>2, <1>3, <1>4, <1>5, <1>6, <1>7, <1>8, <1>9, <1>10, NeverSplit, StepKinds

(* Which steps lead into, or go on in, the loop that makes new batches. *)
LEMMA MakeEntry ==
  ASSUME TypeOK, [Next]_vars, op'.pc \in {"make", "fillnew"}
  PROVE  \/ UNCHANGED <<op, formingByKey>>
         \/ EvictDone /\ op.whole
         \/ FillNewDone
         \/ \E k \in Key : MakeForming(k)
<1>types. op \in OpRec /\ Idle.pc = "idle" /\ Idle \in OpRec
  BY IdleType DEF TypeOK, OpOK, Idle
<1>1. ~Submit
  BY DEF Submit, SubmitExpired, SubmitOversized, SubmitDeferred, SubmitAdmitted, NewRequest, Unlocked
<1>2. ~(Tick \/ Expire \/ RollEpoch \/ AdvanceClock \/ EnterLate)
  BY DEF Tick, Expire, RollEpoch, AdvanceClock, EnterLate, Unlocked, Idle
<1>3. ~(ExpireWaiting \/ MakeDone \/ FillDone \/ FormDone)
  BY <1>types, ZenonT(30) DEF ExpireWaiting, MakeDone, FillDone, FormDone, Idle, OpRec
<1>4. ~(MergeDone \/ SplitStep \/ TickDone \/ CompleteDone \/ FailDone)
  BY <1>types DEF MergeDone, SplitStep, TickDone, CompleteDone, FailDone, Idle, OpRec
<1>5. ~ \E r \in RequestId : EvictMember(r) \/ CompleteMember(r) \/ FailMember(r) \/ Cancel(r) \/ Retry(r)
  BY <1>types, ZenonT(30) DEF EvictMember, CompleteMember, FailMember, Cancel, Retry, Unlocked, Idle, OpRec
<1>6. ~ \E b \in BatchId : FormNext(b)
  BY <1>types DEF FormNext, OpRec
<1>7. ~ \E a, b \in BatchId : MergePair(a, b) \/ Merge(a, b)
  BY <1>types DEF MergePair, Merge, Unlocked, OpRec
<1>8. ~ \E b \in BatchId : Seal(b) \/ Split(b) \/ \E w \in Worker : PrepareDispatch(b, w)
  BY DEF Seal, Split, PrepareDispatch, Unlocked
<1>9. ~ \E b \in BatchId : RunOk(b) \/ RunFailed(b)
  BY ZenonT(30) DEF RunOk, RunFailed, StartRun, BeginReport, Unlocked, Idle
<1>10. ~ \E w \in Worker, boot \in BootId, size \in WorkerSizes : RegisterWorker(w, boot, size)
  BY DEF RegisterWorker, Unlocked
<1>11. ~ \E x \in dispatches : Complete(x)
  BY DEF Complete, BeginReport, Idle
<1>12. ASSUME NEW r \in RequestId, Place(r) PROVE UNCHANGED <<op, formingByKey>>
  BY <1>12 DEF Place
<1>13. CASE UNCHANGED vars
  BY <1>13 DEF vars, batchVars
<1>14. EvictDone => op.whole
  BY DEF EvictDone, Idle
<1> QED
  BY <1>1, <1>2, <1>3, <1>4, <1>5, <1>6, <1>7, <1>8, <1>9, <1>10, <1>11, <1>12, <1>13, <1>14
     DEF Next, OpStep

LEMMA NewKeysStep ==
  ASSUME TypeOK, NewKeys, [Next]_vars
  PROVE  NewKeys'
<1>types. op \in OpRec /\ Idle \in OpRec
  BY IdleType DEF TypeOK, OpOK
<1> SUFFICES ASSUME op'.pc \in {"make", "fillnew"}, NEW k \in op'.keys
             PROVE  formingByKey'[k] = NoBatch
  BY DEF NewKeys
<1>1. CASE UNCHANGED <<op, formingByKey>>
  BY <1>1 DEF NewKeys
<1>2. CASE EvictDone /\ op.whole
  <2>1. op'.keys = {l \in Key : /\ formingByKey[l] = NoBatch
                                /\ \E r \in RequestId : waiting[r] > 0 /\ meta[r].key = l}
    BY <1>2, <1>types DEF EvictDone, OpRec
  <2>2. formingByKey' = formingByKey
    BY <1>2 DEF EvictDone, batchVars
  <2> QED
    BY <2>1, <2>2
<1>3. CASE FillNewDone
  <2>1. op.pc = "fillnew" /\ op'.keys = op.keys /\ formingByKey' = formingByKey
    BY <1>3, <1>types DEF FillNewDone, OpRec
  <2> QED
    BY <2>1 DEF NewKeys
<1>4. ASSUME NEW l \in Key, MakeForming(l) PROVE formingByKey'[k] = NoBatch
  <2>1. op.pc = "make" /\ op'.keys = op.keys \ {l} /\ op.keys \subseteq Key
    BY <1>4, <1>types DEF MakeForming, OpRec
  <2>2. formingByKey'[k] = formingByKey[k]
    BY <1>4, <2>1, MakeFields
  <2> QED
    BY <2>1, <2>2 DEF NewKeys
<1> QED
  BY <1>1, <1>2, <1>3, <1>4, MakeEntry

-----------------------------------------------------------------------------
(* The generations. *)

(* A step that makes no batch keeps the generations. *)
LEMMA QuietGenerations ==
  ASSUME Generations, nextGeneration' = nextGeneration,
         \A b \in BatchId : Identity(b),
         \A b \in BatchId : batches'[b].state # "none" => batches[b].state # "none"
  PROVE  Generations'
BY DEF Generations, Identity

LEMMA GenerationStep ==
  ASSUME NoSplits, TypeOK, BatchInv, Unlimited, Generations, [Next]_vars
  PROVE  Generations'
<1>kept. ASSUME BatchesKept, nextGeneration' = nextGeneration PROVE Generations'
  BY <1>kept, QuietGenerations DEF BatchesKept, SameState
<1>1. CASE Submit \/ Still \/ ExpireWaiting \/ \E r \in RequestId : Retry(r)
  <2>1. batches' = batches /\ nextGeneration' = nextGeneration
    BY <1>1, SubmitRequests DEF Still, Retry, ExpireWaiting, batchVars, idVars
  <2> QED
    BY <1>kept, <2>1, KeptFields
<1>2. CASE FillNewDone
  BY <1>2, <1>kept, FillNewFields DEF FillNewDone, idVars
<1>3. ASSUME NEW r \in RequestId, CompleteMember(r) \/ FailMember(r) PROVE Generations'
  <2>1. PICK status : ApplyOutcome(r, status)
    BY <1>3 DEF CompleteMember, FailMember
  <2> QED
    BY <1>kept, <2>1, OutcomeFields DEF ApplyOutcome, idVars
<1>4. ASSUME NEW r \in RequestId, DoCancel(r) PROVE Generations'
  BY <1>4, CancelFields, QuietGenerations DEF DoCancel, idVars, SameState
<1>5. ASSUME NEW r \in RequestId, Place(r) PROVE Generations'
  BY <1>5, PlaceFields, QuietGenerations DEF Place, idVars, SameState
<1>6. CASE CompleteDone
  <2>1. /\ \A b \in BatchId : Identity(b)
        /\ \A b \in BatchId : b # op.cur => batches'[b].state = batches[b].state
    BY <1>6, DoneFields DEF SameState
  <2>2. batches[op.cur].state # "none" /\ nextGeneration' = nextGeneration
    BY <1>6 DEF CompleteDone, BatchInv, OpBatches, HandedOut, idVars
  <2> QED
    BY <2>1, <2>2, QuietGenerations
<1>7. ASSUME NEW b \in BatchId, StartRun(b) \/ \E w \in Worker : PrepareDispatch(b, w)
      PROVE  Generations'
  <2>1. PICK state \in HandedOut : \E w : Handed(b, state, w)
    BY <1>7, RunFields, DispatchFields DEF HandedOut
  <2>2. nextGeneration' = nextGeneration
    BY <1>7 DEF StartRun, PrepareDispatch, idVars
  <2>3. \A c \in BatchId : Identity(c) /\ (c # b => batches'[c].state = batches[c].state)
    BY <2>1 DEF Handed, SameState
  <2>4. batches[b].state # "none"
    BY <2>1 DEF Handed
  <2> QED
    BY <2>2, <2>3, <2>4, QuietGenerations
<1>8. ASSUME NEW b \in BatchId,
             DoSeal(b) /\ UNCHANGED <<attempts, waiting, idVars, merged, lineage, dispatches>>
      PROVE  Generations'
  <2>1. \A c \in BatchId : Identity(c) /\ (c # b => batches'[c].state = batches[c].state)
    BY <1>8, SealFields DEF SameState
  <2>2. batches[b].state # "none" /\ nextGeneration' = nextGeneration
    BY <1>8, SealFields DEF idVars
  <2> QED
    BY <2>1, <2>2, QuietGenerations
<1>9. ASSUME NEW a \in BatchId, NEW b \in BatchId, a # b, DoMerge(a, b) PROVE Generations'
  <2>1. \A c \in BatchId : Identity(c) /\ (c # b => SameState(c))
    BY <1>9, MergeFields
  <2>2. batches[b].state # "none" /\ nextGeneration' = nextGeneration
    BY <1>9, MergeFields DEF DoMerge, idVars
  <2> QED
    BY <2>1, <2>2, QuietGenerations DEF SameState
<1>10. ASSUME NEW k \in Key, MakeForming(k) PROVE Generations'
  <2>1. /\ nextBatch \in BatchId
        /\ \A b \in BatchId : b # nextBatch => batches'[b] = batches[b]
        /\ batches'[nextBatch].generation = nextGeneration
        /\ nextGeneration' = nextGeneration + 1
    BY <1>10, MakeFields DEF MakeForming
  <2>2. nextGeneration \in Nat /\ \A b \in BatchId : batches[b].generation \in Nat
    BY DEF TypeOK, BatchRec
  <2>3. \A b \in BatchId : batches[b].state # "none" => batches[b].generation < nextGeneration
    BY DEF Generations
  <2>4. ASSUME NEW b \in BatchId, batches'[b].state # "none"
        PROVE  batches'[b].generation < nextGeneration'
    BY <2>1, <2>2, <2>3, <2>4
  <2>5. ASSUME NEW a \in BatchId, NEW b \in BatchId, batches'[a].state # "none",
               batches'[b].state # "none", batches'[a].generation = batches'[b].generation
        PROVE  a = b
    <3>1. CASE a # nextBatch /\ b # nextBatch
      BY <2>1, <2>5, <3>1 DEF Generations
    <3>2. CASE a = nextBatch \/ b = nextBatch
      BY <2>1, <2>2, <2>3, <2>5, <3>2
    <3> QED
      BY <3>1, <3>2
  <2> QED
    BY <2>4, <2>5 DEF Generations
<1> QED
  BY <1>1, <1>2, <1>3, <1>4, <1>5, <1>6, <1>7, <1>8, <1>9, <1>10, NeverSplit, StepKinds

-----------------------------------------------------------------------------
(* The invariant and what it implies. *)

LEMMA UnsplitStep ==
  ASSUME NoSplits, TypeOK, TypeOK', BatchInv, Unsplit, [Next]_vars
  PROVE  Unsplit'
BY UnlimitedStep, FieldStep, ListedStep, NewKeysStep, GenerationStep DEF Unsplit

LEMMA UnsplitInit == Init => Unsplit
<1> SUFFICES ASSUME Init PROVE Unsplit
  OBVIOUS
<1>1. \A w \in WorkerId : workers[w].size = 0
  BY DEF Init
<1>2. /\ \A b \in BatchId : batches[b].state = "none"
      /\ \A r \in RequestId : requests[r].state = "created"
      /\ op.pc = "idle"
  BY DEF Init, NoBatchRec, Idle
<1> QED
  BY <1>1, <1>2 DEF Unsplit, Unlimited, FieldNames, InBatchState, BatchesListed, NewKeys, Generations

LEMMA NothingSplit ==
  ASSUME NoSplits
  PROVE  Spec => []Unsplit
<1>1. TypeOK /\ TypeOK' /\ BatchInv /\ Unsplit /\ [Next]_vars => Unsplit'
  BY UnsplitStep
<1> QED
  BY <1>1, UnsplitInit, TypeCorrect, BatchesBooked, PTL DEF Spec

(* A live request knows the batch it is in: its batch field names a batch   *)
(* that lists it and is not superseded, so cancel() and                     *)
(* apply_member_outcome find it there, through any number of merges (the    *)
(* batch field of add_member_to_batch, do_merge and retry).                 *)
THEOREM FieldsLead ==
  ASSUME NoSplits
  PROVE  Spec => []BatchFieldCorrect
<1>1. Unsplit => BatchFieldCorrect
  BY DEF Unsplit, FieldNames, HomeOf, Homes, ActiveBatch, BatchFieldCorrect
<1> QED
  BY <1>1, NothingSplit, PTL

(* Every batch can make progress through tick(): a forming batch is its     *)
(* key's entry and a sealed one is in the seal order, in the middle of a    *)
(* method too (forming_by_key_ and sealed_order_ in make_forming, do_seal   *)
(* and do_merge).                                                           *)
THEOREM BatchesReachable ==
  ASSUME NoSplits
  PROVE  Spec => []NoOrphanBatch
<1>1. Unsplit => NoOrphanBatch
  BY DEF Unsplit, BatchesListed, EntryOf, NoOrphanBatch
<1> QED
  BY <1>1, NothingSplit, PTL

(* A generation names one live batch: the counter make_forming draws from   *)
(* is above every generation in use, and no merge copies one.               *)
THEOREM GenerationsUnique ==
  ASSUME NoSplits
  PROVE  Spec => []GenerationUnique
<1>1. Unsplit => GenerationUnique
  BY DEF Unsplit, Generations, GenerationUnique, ActiveBatch
<1> QED
  BY <1>1, NothingSplit, PTL

-----------------------------------------------------------------------------
(* What a tick leaves behind: no queued request whose deadline has passed,  *)
(* and no forming batch that has waited as long as it may.                  *)

(* The entry of a key names a forming batch.  A call of split() can make it *)
(* name a partially completed one, which a tick fills and never seals; the  *)
(* splits of a tick itself are of sealed batches.                           *)
EntriesForming ==
  \A k \in Key : formingByKey[k] # NoBatch => batches[formingByKey[k]].state = "forming"

(* No step is a call of split(). *)
Uncut == \A b \in BatchId : ~Split(b)

(* A limit on the wait of the batch has been reached. *)
Reached(b) ==
  \E limit \in WaitLimits({meta[r] : r \in Members(b)}, Len(batches[b].members), clock) :
    clock - batches[b].formed >= limit

(* The phases of a tick that follow its pass over the waiting index. *)
Ticking == {"evict", "make", "fillnew", "form", "fill", "merge", "split"}

(* Through these phases the index holds no late request.  An entry whose    *)
(* batch has reached a limit is still to be visited, until all have been;   *)
(* the merges that follow are of batches that are sealed.                   *)
Timely ==
  /\ op.pc \in Ticking => \A r \in RequestId : ~(waiting[r] > 0 /\ Overdue(r))
  /\ op.pc \in {"form", "fill"} =>
       \A k \in Key : (formingByKey[k] # NoBatch /\ Reached(formingByKey[k])) =>
         formingByKey[k] \in op.forming \/ (op.pc = "fill" /\ formingByKey[k] = op.cur)
  /\ op.pc \in {"merge", "split"} =>
       \A k \in Key : formingByKey[k] # NoBatch => ~Reached(formingByKey[k])
  /\ op.pc = "merge" => \A p \in op.pairs : batches[p[1]].state # "forming"

-----------------------------------------------------------------------------
LEMMA EntriesStep ==
  ASSUME Uncut, TypeOK, TypeOK', BatchInv, EntriesForming, [Next]_vars
  PROVE  EntriesForming'
<1> SUFFICES ASSUME NEW k \in Key, formingByKey'[k] # NoBatch
             PROVE  batches'[formingByKey'[k]].state = "forming"
  BY DEF EntriesForming
<1> DEFINE e == formingByKey[k]
<1>types. /\ e \in BatchId \cup {NoBatch} /\ formingByKey'[k] \in BatchId
          /\ formingByKey \in [Key -> BatchId \cup {NoBatch}]
  <2>1. formingByKey \in [Key -> BatchId \cup {NoBatch}] /\ formingByKey' \in [Key -> BatchId \cup {NoBatch}]
    BY DEF TypeOK
  <2> QED
    BY <2>1
<1>entry. e # NoBatch => e \in BatchId /\ batches[e].state = "forming" /\ batches[e].key = k
  BY <1>types DEF EntriesForming, BatchInv, Books, KeyEntries
<1>fresh. FreshBatches
  BY DEF BatchInv, Books
<1>kept. ASSUME formingByKey'[k] = e, \A b \in BatchId : SameState(b)
         PROVE  batches'[formingByKey'[k]].state = "forming"
  BY <1>kept, <1>entry DEF SameState
<1> HIDE DEF e
<1>1. CASE Submit \/ Still \/ ExpireWaiting \/ \E r \in RequestId : Retry(r)
  <2>1. batches' = batches /\ formingByKey' = formingByKey
    BY <1>1, SubmitRequests DEF Still, Retry, ExpireWaiting, batchVars, Submit, SubmitExpired,
         SubmitOversized, SubmitDeferred, SubmitAdmitted, NewRequest
  <2> QED
    BY <1>kept, <2>1 DEF SameState, e
<1>2. CASE FillNewDone \/ \E r \in RequestId : CompleteMember(r) \/ FailMember(r)
  <2>1. formingByKey' = formingByKey /\ BatchesKept
    BY <1>2, FillNewFields, OutcomeFields DEF CompleteMember, FailMember, FillNewDone, ApplyOutcome
  <2> QED
    BY <1>kept, <2>1 DEF BatchesKept, e
<1>3. CASE CompleteDone
  <2>1. formingByKey' = formingByKey /\ batches[op.cur].state # "forming"
    BY <1>3 DEF CompleteDone, BatchInv, OpBatches, HandedOut
  <2> QED
    BY <1>3, <1>entry, <2>1, DoneFields DEF SameState, e
<1>4. ASSUME NEW r \in RequestId, DoCancel(r) \/ Place(r)
      PROVE  batches'[formingByKey'[k]].state = "forming"
  <2>1. formingByKey' = formingByKey
    BY <1>4 DEF DoCancel, Place
  <2> QED
    BY <1>4, <1>kept, <2>1, CancelFields, PlaceFields DEF e
<1>5. ASSUME NEW l \in Key, MakeForming(l) PROVE batches'[formingByKey'[k]].state = "forming"
  <2>1. CASE k = l
    BY <1>5, <2>1, MakeFields
  <2>2. CASE k # l
    <3>1. formingByKey'[k] = e /\ e \in BatchId /\ batches[e].state = "forming"
      BY <1>5, <1>entry, <2>2, MakeFields DEF e
    <3> QED
      BY <1>5, <3>1, MakeFields
  <2> QED
    BY <2>1, <2>2
<1>6. ASSUME NEW b \in BatchId, DoSeal(b) PROVE batches'[formingByKey'[k]].state = "forming"
  <2>1. k # batches[b].key /\ formingByKey'[k] = e
    BY <1>6, SealFields DEF e
  <2>2. e # b
    BY <1>entry, <2>1
  <2> QED
    BY <1>6, <1>entry, <2>1, <2>2, SealFields DEF SameState
<1>7. ASSUME NEW a \in BatchId, NEW b \in BatchId, a # b, DoMerge(a, b)
      PROVE  batches'[formingByKey'[k]].state = "forming"
  <2>1. /\ batches[b].state = batches[a].state /\ batches[a].key = batches[b].key
        /\ \A c \in BatchId \ {b} : SameState(c)
    BY <1>7, MergeFields
  <2>2. CASE e = b
    <3>1. batches[b].key = k /\ batches[b].state = "forming"
      <4>1. e # NoBatch
        BY <2>2, IdsNatural DEF NoBatch
      <4> QED
        BY <1>entry, <2>2, <4>1
    <3>2. formingByKey'[k] = a
      BY <1>7, <1>types, <2>2, <3>1 DEF DoMerge, e
    <3> QED
      BY <1>7, <2>1, <3>1, <3>2 DEF SameState
  <2>3. CASE e # b
    <3>1. formingByKey'[k] = e
      <4>1. batches[b].key \in Key
        BY BookTypes
      <4> QED
        BY <1>7, <1>types, <2>3, <4>1 DEF DoMerge, e
    <3> QED
      BY <1>entry, <2>1, <2>3, <3>1 DEF SameState
  <2> QED
    BY <2>2, <2>3
<1>8. ASSUME NEW b \in BatchId, DoSplit(b), TooLarge(b) PROVE batches'[formingByKey'[k]].state = "forming"
  <2>1. SplitSealed(b) /\ formingByKey' = formingByKey
    BY <1>8 DEF DoSplit, SplitOpen, SplitSealed, TooLarge
  <2>2. e \in BatchId /\ batches[e].state = "forming" /\ formingByKey'[k] = e
    BY <1>entry, <2>1 DEF e
  <2>3. \A c \in BatchId \ {b, nextBatch, nextBatch + 1} : batches'[c] = batches[c]
    BY <1>fresh, <2>1, SplitSealedFields
  <2>4. /\ nextBatch \in BatchId /\ nextBatch + 1 \in BatchId /\ nextBatch \in Nat
        /\ batches[b].state = "sealed"
    BY <1>fresh, <2>1, SplitSealedFields
  <2>5. batches[nextBatch].state = "none" /\ batches[nextBatch + 1].state = "none"
    BY <1>fresh, <2>4 DEF FreshBatches
  <2> QED
    BY <2>2, <2>3, <2>4, <2>5
<1>9. ASSUME NEW b \in BatchId, StartRun(b) \/ \E w \in Worker : PrepareDispatch(b, w)
      PROVE  batches'[formingByKey'[k]].state = "forming"
  <2>1. formingByKey' = formingByKey /\ batches[b].state = "sealed"
    BY <1>9 DEF StartRun, PrepareDispatch
  <2> QED
    BY <1>9, <1>entry, <2>1, RunFields, DispatchFields DEF Handed, SameState, e
<1> QED
  BY <1>1, <1>2, <1>3, <1>4, <1>5, <1>6, <1>7, <1>8, <1>9, StepKinds DEF Uncut

-----------------------------------------------------------------------------
(* Only the steps of a tick lead on to its phases. *)
LEMMA TickEntry ==
  ASSUME TypeOK, [Next]_vars, op'.pc \in Ticking
  PROVE  \/ UNCHANGED vars
         \/ ExpireWaiting \/ EvictDone \/ FillNewDone \/ MakeDone \/ FillDone \/ FormDone
         \/ MergeDone \/ SplitStep
         \/ \E r \in RequestId : EvictMember(r) \/ Place(r)
         \/ \E k \in Key : MakeForming(k)
         \/ \E b \in BatchId : FormNext(b)
         \/ \E a \in BatchId, b \in BatchId : MergePair(a, b)
<1> USE DEF Ticking
<1>types. op \in OpRec /\ Idle.pc = "idle"
  BY DEF TypeOK, OpOK, Idle
<1>1. ~Submit
  BY DEF Submit, SubmitExpired, SubmitOversized, SubmitDeferred, SubmitAdmitted, NewRequest, Unlocked
<1>2. ~(Tick \/ Expire \/ RollEpoch \/ AdvanceClock \/ EnterLate)
  BY DEF Tick, Expire, RollEpoch, AdvanceClock, EnterLate, Unlocked, Idle
<1>3. ~(TickDone \/ CompleteDone \/ FailDone)
  BY <1>types DEF TickDone, CompleteDone, FailDone
<1>4. ~ \E r \in RequestId : CompleteMember(r) \/ FailMember(r) \/ Cancel(r) \/ Retry(r)
  BY <1>types, ZenonT(30) DEF CompleteMember, FailMember, Cancel, Retry, Unlocked, Idle, OpRec
<1>5. ~ \E b \in BatchId : Seal(b) \/ Split(b) \/ RunFailed(b) \/ \E w \in Worker : PrepareDispatch(b, w)
  BY DEF Seal, Split, RunFailed, PrepareDispatch, Unlocked, Idle
<1>6. ~ \E b \in BatchId : RunOk(b)
  BY ReportOpen DEF RunOk, Unlocked, StartRun
<1>7. ~ \E a, b \in BatchId : Merge(a, b)
  BY DEF Merge, Unlocked
<1>8. ~ \E w \in Worker, boot \in BootId, size \in WorkerSizes : RegisterWorker(w, boot, size)
  BY DEF RegisterWorker, Unlocked
<1>9. ~ \E x \in dispatches : Complete(x)
  BY ReportOpen DEF Complete
<1> QED
  BY <1>1, <1>2, <1>3, <1>4, <1>5, <1>6, <1>7, <1>8, <1>9 DEF Next, OpStep

(* Nothing passes for a batch whose members and start are the same. *)
LEMMA SameWait ==
  ASSUME NEW b \in BatchId, UNCHANGED <<clock, meta>>,
         batches'[b].members = batches[b].members, batches'[b].formed = batches[b].formed
  PROVE  Reached(b)' <=> Reached(b)
BY DEF Reached, Members

(* A batch the former decides to leave open has reached no limit. *)
LEMMA UndueUnreached ==
  ASSUME NEW b \in BatchId, ~SealDue(b)
  PROVE  ~Reached(b)
BY DEF SealDue, DecideSeal, Reached

(* No step of a tick after the pass over the index puts a request into it   *)
(* or moves the clock.                                                      *)
LEMMA IndexShrinks ==
  ASSUME TypeOK,
         \/ EvictDone \/ FillNewDone \/ MakeDone \/ FillDone \/ FormDone \/ MergeDone \/ SplitStep
         \/ \E r \in RequestId : EvictMember(r) \/ Place(r)
         \/ \E k \in Key : MakeForming(k)
         \/ \E b \in BatchId : FormNext(b)
         \/ \E a \in BatchId, b \in BatchId : MergePair(a, b)
  PROVE  /\ op.pc \in Ticking /\ UNCHANGED <<clock, meta>>
         /\ \A q \in RequestId : waiting'[q] > 0 => waiting[q] > 0
<1> USE DEF requestVars, idVars, batchVars, fairVars, envVars, Ticking
<1>types. waiting \in [RequestId -> Nat]
  BY DEF TypeOK
<1>1. CASE EvictDone \/ FillNewDone \/ MakeDone \/ FormDone \/ MergeDone
  BY <1>1 DEF EvictDone, FillNewDone, MakeDone, FormDone, MergeDone
<1>2. CASE FillDone \/ SplitStep
  BY <1>2 DEF FillDone, SplitStep, DoSplit
<1>3. ASSUME NEW r \in RequestId, EvictMember(r)
      PROVE  /\ op.pc \in Ticking /\ UNCHANGED <<clock, meta>>
             /\ \A q \in RequestId : waiting'[q] > 0 => waiting[q] > 0
  <2>1. op.pc \in Ticking /\ UNCHANGED <<clock, meta>>
    BY <1>3 DEF EvictMember, DoCancel
  <2>2. waiting' = waiting \/ (waiting' = [waiting EXCEPT ![r] = @ - 1] /\ waiting[r] > 0)
    <3>1. CASE CancelQueued(r)
      BY <3>1 DEF CancelQueued
    <3>2. CASE CancelForming(r) \/ CancelSealed(r)
      BY <3>2 DEF CancelForming, CancelSealed
    <3> QED
      BY <1>3, <3>1, <3>2 DEF EvictMember, DoCancel
  <2> QED
    BY <1>types, <2>1, <2>2
<1>4. ASSUME NEW r \in RequestId, Place(r)
      PROVE  /\ op.pc \in Ticking /\ UNCHANGED <<clock, meta>>
             /\ \A q \in RequestId : waiting'[q] > 0 => waiting[q] > 0
  <2>1. op.pc \in Ticking /\ UNCHANGED <<clock, meta>> /\ waiting' = [waiting EXCEPT ![r] = @ - 1]
    BY <1>4 DEF Place
  <2>2. waiting[r] > 0
    BY <1>4 DEF Place, IsPick, Candidates
  <2> QED
    BY <1>types, <2>1, <2>2
<1>5. CASE (\E k \in Key : MakeForming(k)) \/ \E b \in BatchId : FormNext(b)
  BY <1>5 DEF MakeForming, FormNext
<1>6. CASE \E a \in BatchId, b \in BatchId : MergePair(a, b)
  BY <1>6 DEF MergePair, DoMerge
<1> QED
  BY <1>1, <1>2, <1>3, <1>4, <1>5, <1>6

(* Every step keeps it. *)
LEMMA TimelyStep ==
  ASSUME Uncut, TypeOK, TypeOK', BatchInv, EntriesForming, Timely, [Next]_vars
  PROVE  Timely'
<1> USE DEF requestVars, idVars, batchVars, fairVars, envVars
<1>types. /\ op \in OpRec /\ batches \in [BatchId -> BatchRec]
          /\ formingByKey \in [Key -> BatchId \cup {NoBatch}]
          /\ waiting \in [RequestId -> Nat]
  BY DEF TypeOK, OpOK
<1>entry. \A k \in Key : formingByKey[k] # NoBatch =>
            /\ formingByKey[k] \in BatchId /\ batches[formingByKey[k]].state = "forming"
            /\ batches[formingByKey[k]].key = k
  BY <1>types DEF EntriesForming, BatchInv, Books, KeyEntries
<1>fresh. FreshBatches
  BY DEF BatchInv, Books
<1>index. ASSUME UNCHANGED <<clock, meta>>, op.pc \in Ticking,
                 \A q \in RequestId : waiting'[q] > 0 => waiting[q] > 0
          PROVE  \A r \in RequestId : ~(waiting'[r] > 0 /\ Overdue(r)')
  BY <1>index DEF Timely, Overdue
<1>1. CASE op'.pc \notin Ticking
  BY <1>1 DEF Timely, Ticking
<1>2. CASE UNCHANGED vars
  <2>1. UNCHANGED <<op, batches, formingByKey, waiting, clock, meta>>
    BY <1>2 DEF vars
  <2> QED
    BY <2>1, ZenonT(30) DEF Timely, Reached, Members, Overdue
<1>3. CASE ExpireWaiting
  <2>1. op'.pc = "evict"
    BY <1>3, <1>types DEF ExpireWaiting, OpRec
  <2>2. \A r \in RequestId : ~(waiting'[r] > 0 /\ Overdue(r)')
    <3> SUFFICES ASSUME NEW r \in RequestId, waiting'[r] > 0, Overdue(r)' PROVE FALSE
      OBVIOUS
    <3>1. Overdue(r)
      BY <1>3 DEF ExpireWaiting, Overdue
    <3>2. waiting'[r] = IF waiting[r] > 0 /\ Overdue(r) THEN 0 ELSE waiting[r]
      BY <1>3 DEF ExpireWaiting
    <3> QED
      BY <1>types, <3>1, <3>2
  <2> QED
    BY <2>1, <2>2 DEF Timely
<1>4. CASE EvictDone \/ FillNewDone \/ (\E r \in RequestId : EvictMember(r)) \/ \E k \in Key : MakeForming(k)
  <2>1. op'.pc \in {"idle", "evict", "make", "fillnew"}
    <3>1. CASE EvictDone
      BY <3>1 DEF EvictDone, Idle
    <3>2. CASE FillNewDone
      BY <1>types, <3>2 DEF FillNewDone, OpRec
    <3>3. CASE (\E r \in RequestId : EvictMember(r)) \/ \E k \in Key : MakeForming(k)
      BY <1>types, <3>3 DEF EvictMember, MakeForming, OpRec
    <3> QED
      BY <1>4, <3>1, <3>2, <3>3
  <2>2. \A r \in RequestId : ~(waiting'[r] > 0 /\ Overdue(r)')
    BY <1>4, <1>index, IndexShrinks
  <2> QED
    BY <2>1, <2>2 DEF Timely
<1>5. CASE MakeDone
  <2>1. op'.pc = "form" /\ op'.forming = {formingByKey[k] : k \in Key} \ {NoBatch} /\ formingByKey' = formingByKey
    BY <1>5, <1>types DEF MakeDone, OpRec
  <2>2. \A r \in RequestId : ~(waiting'[r] > 0 /\ Overdue(r)')
    BY <1>5, <1>index, IndexShrinks
  <2> QED
    BY <2>1, <2>2 DEF Timely
<1>6. ASSUME NEW b \in BatchId, FormNext(b) PROVE Timely'
  <2>1. /\ op.pc = "form" /\ op'.pc = "fill" /\ op'.cur = b /\ op'.forming = op.forming \ {b}
        /\ UNCHANGED <<formingByKey, batches, clock, meta>>
    BY <1>6, <1>types DEF FormNext, OpRec
  <2>2. \A r \in RequestId : ~(waiting'[r] > 0 /\ Overdue(r)')
    BY <1>6, <1>index, IndexShrinks
  <2>3. \A k \in Key : formingByKey[k] # NoBatch => (Reached(formingByKey[k])' <=> Reached(formingByKey[k]))
    BY <2>1 DEF Reached, Members
  <2> QED
    BY <2>1, <2>2, <2>3 DEF Timely
<1>7. ASSUME NEW r \in RequestId, Place(r) PROVE Timely'
  <2>1. /\ op.pc \in {"fill", "fillnew"} /\ UNCHANGED <<op, formingByKey, clock, meta>>
        /\ batches' = [batches EXCEPT ![op.cur].members = Append(@, r)]
    BY <1>7 DEF Place
  <2>2. \A q \in RequestId : ~(waiting'[q] > 0 /\ Overdue(q)')
    BY <1>7, <1>index, IndexShrinks
  <2>3. ASSUME NEW c \in BatchId, c # op.cur PROVE Reached(c)' <=> Reached(c)
    <3>1. batches'[c] = batches[c]
      BY <1>types, <2>1, <2>3
    <3> QED
      BY <2>1, <3>1, SameWait
  <2> QED
    BY <1>entry, <2>1, <2>2, <2>3 DEF Timely
<1>8. CASE FillDone
  <2>1. /\ op.pc = "fill" /\ op'.pc = "form" /\ op'.forming = op.forming /\ op.cur \in BatchId
        /\ UNCHANGED <<clock, meta>>
    BY <1>8, <1>types DEF FillDone, OpRec, TypeOK, OpOK
  <2>2. \A r \in RequestId : ~(waiting'[r] > 0 /\ Overdue(r)')
    BY <1>8, <1>index, IndexShrinks
  <2>3. \A c \in BatchId : Reached(c)' <=> Reached(c)
    <3>1. batches' = batches \/ batches' = [batches EXCEPT ![op.cur].state = "sealed"]
      BY <1>8 DEF FillDone, DoSeal
    <3>2. \A c \in BatchId : batches'[c].members = batches[c].members /\ batches'[c].formed = batches[c].formed
      <4>1. CASE batches' = batches
        BY <4>1
      <4>2. CASE batches' = [batches EXCEPT ![op.cur].state = "sealed"]
        BY <1>types, <4>2 DEF BatchRec
      <4> QED
        BY <3>1, <4>1, <4>2
    <3> QED
      BY <2>1, <3>2, SameWait
  <2>4. ASSUME NEW k \in Key, formingByKey'[k] # NoBatch, Reached(formingByKey[k])'
        PROVE  formingByKey'[k] \in op'.forming
    <3>1. formingByKey'[k] = formingByKey[k] /\ formingByKey[k] # op.cur
      <4>1. CASE SealDue(op.cur) /\ DoSeal(op.cur)
        BY <1>entry, <2>1, <2>4, <4>1, SealFields
      <4>2. CASE ~SealDue(op.cur) /\ UNCHANGED formingByKey
        BY <2>1, <2>3, <2>4, <4>2, UndueUnreached
      <4>3. CASE batches[op.cur].state # "forming" /\ UNCHANGED formingByKey
        BY <1>entry, <2>4, <4>3
      <4> QED
        BY <1>8, <4>1, <4>2, <4>3 DEF FillDone
    <3>2. formingByKey[k] \in BatchId /\ Reached(formingByKey[k])
      BY <1>entry, <2>3, <2>4, <3>1
    <3> QED
      BY <2>1, <2>4, <3>1, <3>2 DEF Timely
  <2> QED
    BY <2>1, <2>2, <2>4 DEF Timely
<1>9. CASE FormDone
  <2>1. /\ op.pc = "form" /\ op.forming = {} /\ op'.pc = "merge"
        /\ op'.pairs \subseteq Neighbours /\ UNCHANGED <<formingByKey, batches, clock, meta>>
    BY <1>9 DEF FormDone, Idle
  <2>2. \A r \in RequestId : ~(waiting'[r] > 0 /\ Overdue(r)')
    BY <1>9, <1>index, IndexShrinks
  <2>3. \A k \in Key : formingByKey[k] # NoBatch => ~Reached(formingByKey[k])'
    BY <2>1 DEF Timely, Reached, Members
  <2>4. \A p \in Neighbours : batches[p[1]].state = "sealed"
    BY DEF Neighbours, SealedOf
  <2> QED
    BY <2>1, <2>2, <2>3, <2>4 DEF Timely
<1>10. ASSUME NEW a \in BatchId, NEW b \in BatchId, MergePair(a, b) PROVE Timely'
  <2>1. /\ op.pc = "merge" /\ op'.pc = "merge" /\ op'.pairs \subseteq op.pairs /\ <<a, b>> \in op.pairs
        /\ UNCHANGED <<clock, meta>>
    BY <1>10, <1>types DEF MergePair, DoMerge, OpRec
  <2>2. \A r \in RequestId : ~(waiting'[r] > 0 /\ Overdue(r)')
    BY <1>10, <1>index, IndexShrinks
  <2>3. CASE UNCHANGED <<formingByKey, batches>>
    <3>1. \A k \in Key : formingByKey[k] # NoBatch => ~Reached(formingByKey[k])'
      BY <2>1, <2>3 DEF Timely, Reached, Members
    <3> QED
      BY <2>1, <2>2, <2>3, <3>1 DEF Timely
  <2>4. CASE DoMerge(a, b)
    <3>1. /\ batches[a].state = "sealed" /\ batches[b].state = "sealed" /\ a # b
      <4>1. batches[<<a, b>>[1]].state # "forming" /\ <<a, b>>[1] # <<a, b>>[2]
        BY <2>1 DEF Timely, BatchInv, OpBatches
      <4>2. a # b
        BY <4>1
      <4> QED
        BY <2>4, <4>1, <4>2, MergeFields, ZenonT(30)
    <3>2. \A c \in BatchId \ {a, b} : batches'[c] = batches[c]
      BY <1>types, <2>4 DEF DoMerge
    <3>3. formingByKey' = formingByKey
      <4>1. batches[b].key \in Key
        BY BookTypes
      <4>2. formingByKey[batches[b].key] # b
        <5>1. b # NoBatch
          BY IdsNatural DEF NoBatch
        <5> QED
          BY <1>entry, <3>1, <4>1, <5>1
      <4> QED
        BY <2>4, <4>2 DEF DoMerge
    <3>4. ASSUME NEW k \in Key, formingByKey[k] # NoBatch PROVE ~Reached(formingByKey[k])'
      <4>1. formingByKey[k] \in BatchId \ {a, b}
        BY <1>entry, <3>1, <3>4
      <4>2. batches'[formingByKey[k]] = batches[formingByKey[k]]
        BY <3>2, <4>1
      <4>3. Reached(formingByKey[k])' <=> Reached(formingByKey[k])
        BY <2>1, <3>3, <4>2 DEF Reached, Members
      <4> QED
        BY <2>1, <3>4, <4>3 DEF Timely
    <3>5. ASSUME NEW p \in op'.pairs PROVE batches'[p[1]].state # "forming"
      <4>1. p \in op.pairs /\ p[1] \in BatchId
        BY <1>types, <2>1, <3>5 DEF OpRec
      <4>2. batches[p[1]].state # "forming"
        BY <2>1, <4>1 DEF Timely
      <4> QED
        BY <2>4, <3>1, <4>1, <4>2, MergeFields DEF SameState
    <3> QED
      BY <2>1, <2>2, <3>3, <3>4, <3>5 DEF Timely
  <2> QED
    BY <1>10, <2>3, <2>4 DEF MergePair
<1>11. CASE MergeDone
  <2>1. /\ op.pc = "merge" /\ op'.pc = "split" /\ UNCHANGED <<formingByKey, batches, clock, meta>>
    BY <1>11 DEF MergeDone, Idle
  <2>2. \A r \in RequestId : ~(waiting'[r] > 0 /\ Overdue(r)')
    BY <1>11, <1>index, IndexShrinks
  <2>3. \A k \in Key : formingByKey[k] # NoBatch => ~Reached(formingByKey[k])'
    BY <2>1 DEF Timely, Reached, Members
  <2> QED
    BY <2>1, <2>2, <2>3 DEF Timely
<1>12. CASE SplitStep
  <2>1. /\ op.pc = "split" /\ op'.pc = "split" /\ UNCHANGED <<clock, meta>>
        /\ sealedOrder[op.pos] \in BatchId
    BY <1>12, <1>types DEF SplitStep, DoSplit, OpRec, TypeOK
  <2>2. \A r \in RequestId : ~(waiting'[r] > 0 /\ Overdue(r)')
    BY <1>12, <1>index, IndexShrinks
  <2>3. CASE UNCHANGED <<formingByKey, batches>>
    <3>1. \A k \in Key : formingByKey[k] # NoBatch => ~Reached(formingByKey[k])'
      BY <2>1, <2>3 DEF Timely, Reached, Members
    <3> QED
      BY <2>1, <2>2, <2>3, <3>1 DEF Timely
  <2>4. ASSUME NEW b \in BatchId, TooLarge(b), DoSplit(b) PROVE Timely'
    <3>1. SplitSealed(b) /\ formingByKey' = formingByKey
      BY <2>4 DEF DoSplit, SplitOpen, SplitSealed, TooLarge
    <3>2. \A c \in BatchId \ {b, nextBatch, nextBatch + 1} : batches'[c] = batches[c]
      BY <1>fresh, <3>1, SplitSealedFields
    <3>3. /\ nextBatch \in BatchId /\ nextBatch + 1 \in BatchId /\ nextBatch \in Nat
          /\ batches[b].state = "sealed"
      BY <1>fresh, <3>1, SplitSealedFields
    <3>4. batches[nextBatch].state = "none" /\ batches[nextBatch + 1].state = "none"
      BY <1>fresh, <3>3 DEF FreshBatches
    <3>5. ASSUME NEW k \in Key, formingByKey[k] # NoBatch PROVE ~Reached(formingByKey[k])'
      <4>1. formingByKey[k] \in BatchId \ {b, nextBatch, nextBatch + 1}
        BY <1>entry, <3>3, <3>4, <3>5
      <4>2. batches'[formingByKey[k]] = batches[formingByKey[k]]
        BY <3>2, <4>1
      <4>3. Reached(formingByKey[k])' <=> Reached(formingByKey[k])
        BY <2>1, <3>1, <4>2 DEF Reached, Members
      <4> QED
        BY <2>1, <3>5, <4>3 DEF Timely
    <3> QED
      BY <2>1, <2>2, <3>1, <3>5 DEF Timely
  <2> QED
    BY <1>12, <2>1, <2>3, <2>4 DEF SplitStep
<1> QED
  BY <1>1, <1>2, <1>3, <1>4, <1>5, <1>6, <1>7, <1>8, <1>9, <1>10, <1>11, <1>12, TickEntry

-----------------------------------------------------------------------------
(* So the last step of a tick finds nothing late. *)
LEMMA TickEnds ==
  ASSUME TypeOK, EntriesForming, Timely
  PROVE  op.pc = "split" =>
           /\ \A k \in Key : formingByKey[k] # NoBatch =>
                LET b == formingByKey[k] IN
                \A limit \in WaitLimits({meta[r] : r \in Members(b)},
                                         Len(batches[b].members), clock) :
                  clock - batches[b].formed < limit
           /\ \A r \in RequestId : ~(waiting[r] > 0 /\ Overdue(r))
<1> SUFFICES ASSUME op.pc = "split", NEW k \in Key, formingByKey[k] # NoBatch,
                    NEW limit \in WaitLimits({meta[r] : r \in Members(formingByKey[k])},
                                             Len(batches[formingByKey[k]].members), clock)
             PROVE  clock - batches[formingByKey[k]].formed < limit
  BY DEF Timely, Ticking
<1>1. ~(clock - batches[formingByKey[k]].formed >= limit)
  BY DEF Timely, Reached
<1>2. clock - batches[formingByKey[k]].formed \in Int
  BY DEF TypeOK, BatchRec
<1>3. limit \in Int
  <2>1. \A r \in Members(formingByKey[k]) : meta[r].deadline \in Nat
    BY MemberTypes DEF TypeOK, Meta
  <2>2. \A d \in Nat : Remaining(d, clock) \in Int
    BY DEF TypeOK, Remaining
  <2>3. MaxWait \in Int
    BY PolicyAssumption DEF PolicyAssumption
  <2> QED
    BY <2>1, <2>2, <2>3, WaitAssumption DEF WaitLimits, WaitAssumption
<1> QED
  BY <1>1, <1>2, <1>3

LEMMA TimelyInit == Init => EntriesForming /\ Timely
BY DEF Init, Idle, EntriesForming, Timely, Ticking

(* Latency protection: a tick leaves behind no forming batch that has       *)
(* waited as long as the classes and deadlines of its members and the       *)
(* global limit allow, and no queued request whose deadline has passed, as  *)
(* long as no client splits a batch by hand (expire_locked, decide,         *)
(* do_seal).                                                                *)
THEOREM TicksMeetDeadlines ==
  ASSUME "split" \notin Calls
  PROVE  Spec => TickMeetsDeadlines
<1>1. Uncut
  BY DEF Uncut, Split
<1>2. TypeOK /\ TypeOK' /\ BatchInv /\ EntriesForming /\ Timely /\ [Next]_vars => EntriesForming' /\ Timely'
  BY <1>1, EntriesStep, TimelyStep
<1> QED
  BY <1>2, TimelyInit, TickEnds, TypeCorrect, BatchesBooked, PTL DEF Spec, TickMeetsDeadlines
=============================================================================
