----------------------------- MODULE MCStateFile -----------------------------
(* Runtimes for TLC: what the scheduler holds at its start, after a retry,  *)
(* with one request in two batches, after a merge, and with a payload, a    *)
(* list of extensions, a list of attempts, a number of records or a size of *)
(* the file above what load accepts.                                        *)
EXTENDS StateFile

(* A stand-in for SHA-256 that tells the files of the model apart. *)
RECURSIVE Sum(_, _, _)
Sum(bytes, lo, hi) ==
  IF lo > hi THEN 0
  ELSE IF lo = hi THEN (bytes[lo] + 1) * ((31 * lo * lo + 7 * lo + 1) % 10007)
  ELSE LET mid == (lo + hi) \div 2 IN (Sum(bytes, lo, mid) + Sum(bytes, mid + 1, hi)) % 1000003

Checksum(bytes) == BigEndian(Sum(bytes, 1, Len(bytes)), 32)

Descriptor(extensions) ==
  [model |-> <<109>>, revision |-> <<114>>, adapter |-> <<>>, tokenizer |-> <<>>, phase |-> 1,
   dtype |-> 255, backend |-> 4, execution_mode |-> 255, device_backend |-> 0, compute_major |-> 8,
   compute_minor |-> 6, min_memory_bytes |-> 300, shape |-> <<115>>, sampling_semantics |-> <<>>,
   extensions |-> extensions]

Request(id, state, batch, attempts) ==
  [id |-> id, tenant |-> 1, session |-> 2, sequence |-> 3, descriptor |-> Descriptor(<<<<120>>>>),
   input |-> 4, output |-> 5, work |-> 6, memory_bytes |-> 7, deadline |-> 900, latency |-> 3,
   priority |-> 1, payload |-> <<112>>, state |-> state, submitted_ns |-> 10, batch |-> batch,
   current_attempt |-> Last(attempts), attempt_ids |-> attempts]

Attempt(id, state, batch) ==
  [id |-> id, number |-> 1, state |-> state, batch |-> batch, outcome |-> 0, result |-> <<>>,
   started |-> 10, completed |-> 0]

Batch(id, state, members, parents, children) ==
  [id |-> id, generation |-> id, epoch |-> 1, state |-> state, key |-> Checksum(<<1>>),
   members |-> members, count |-> Len(members), input_tokens |-> 4, output_tokens |-> 5, work |-> 6,
   memory |-> 7, formed_ns |-> 11, sealed_ns |-> 12, dispatched_ns |-> 0, completed_ns |-> 0,
   seal_reason |-> 9, worker |-> 0, boot |-> 0, parents |-> parents, children |-> children]

Holds(requests, attempts, batches) ==
  [epoch |-> 1, next_request |-> 3, next_batch |-> 4, next_attempt |-> 3, next_generation |-> 4,
   requests |-> requests, attempts |-> attempts, batches |-> batches,
   fairness |-> <<[tenant |-> <<49>>, served |-> 6]>>]

Waiting == Request(1, 2, 0, <<1>>)

SomeRuntimes ==
  [empty   |-> [Holds(<<>>, <<>>, <<>>) EXCEPT !.fairness = <<>>],
   retried |-> Holds(<<Request(1, 4, 2, <<1, 2>>)>>, <<Attempt(1, 12, 1), Attempt(2, 4, 2)>>,
                     <<Batch(1, 7, <<1>>, <<>>, <<>>), Batch(2, 0, <<1>>, <<>>, <<>>)>>),
   twice   |-> Holds(<<Request(1, 4, 2, <<1>>)>>, <<>>,
                     <<Batch(1, 2, <<1>>, <<>>, <<>>), Batch(2, 0, <<1>>, <<>>, <<>>)>>),
   merged  |-> Holds(<<Request(1, 5, 3, <<1>>), Request(2, 5, 3, <<2>>)>>, <<>>,
                     <<Batch(1, 8, <<1>>, <<>>, <<3>>), Batch(2, 8, <<2>>, <<>>, <<3>>),
                       Batch(3, 1, <<1, 2>>, <<1, 2>>, <<>>)>>),
   long    |-> Holds(<<[Waiting EXCEPT !.payload = <<1, 2, 3>>]>>, <<>>, <<>>),
   wide    |-> Holds(<<[Waiting EXCEPT !.descriptor = Descriptor(<<<<>>, <<>>, <<>>>>)]>>, <<>>, <<>>),
   tried   |-> Holds(<<Request(1, 2, 0, <<1, 2, 3>>)>>, <<>>, <<>>),
   many    |-> Holds(<<>>, <<Attempt(1, 2, 0), Attempt(2, 2, 0), Attempt(3, 2, 0), Attempt(4, 2, 0)>>,
                     <<>>),
   large   |-> Holds(<<Waiting, Request(2, 5, 2, <<2>>), Request(3, 5, 2, <<3>>)>>, <<>>,
                     <<Batch(1, 8, <<2>>, <<>>, <<>>), Batch(2, 1, <<2, 3>>, <<>>, <<>>)>>)]

SomeHistories ==
  {<<"empty", "retried">>, <<"retried", "merged", "empty">>, <<"twice", "long">>, <<"wide", "tried">>,
   <<"many", "empty">>, <<"large">>}
=============================================================================
