---------------------------- MODULE MCTransport ----------------------------
(* Messages for TLC: one of every schema, empty and filled in, one string   *)
(* and one list at the limit and one above it.                              *)
EXTENDS Transport

Desc(strings, extensions) ==
  [model |-> <<109>>, revision |-> strings, adapter |-> <<>>, tokenizer |-> <<116>>, phase |-> 1,
   dtype |-> 255, backend |-> 2, execution_mode |-> 3, device_backend |-> 4, compute_major |-> 8,
   compute_minor |-> 9, min_memory_bytes |-> 65536, shape |-> <<115>>,
   sampling_semantics |-> <<>>, extensions |-> extensions]

Work(n) == [request |-> n, attempt |-> n + 1, work |-> 300, input_tokens |-> 5, output_tokens |-> 6,
            payload |-> <<n>>]

Exec(members) ==
  [batch |-> 1, generation |-> 2, epoch |-> 3, worker |-> 4, descriptor |-> Desc(<<>>, <<>>),
   members |-> members]

Done(n) == [request |-> n, attempt |-> 258, status |-> 1, result |-> <<>>, error_code |-> 7,
            error_message |-> <<101>>]

M(schema, message) == [schema |-> schema, message |-> message]

Register ==
  M("register_worker", [worker |-> 1, boot |-> 2, cap |->
    [worker |-> 1, backend |-> 2, device_backend |-> 3, compute_major |-> 8, compute_minor |-> 9,
     min_memory_bytes |-> 1000, max_batch_size |-> 64, max_tokens |-> 5, max_work |-> 6,
     max_memory_bytes |-> 7, supports_cancellation |-> TRUE]])
Complete(members) ==
  M("complete", [completion |-> [worker |-> 1, boot |-> 2, epoch |-> 3, generation |-> 4,
                                 batch |-> 5, members |-> members]])
Dispatch(members) == M("dispatch", [exec |-> Exec(members)])
Submit(extensions) ==
  M("submit", [meta |-> [tenant |-> 1, session |-> 2, sequence |-> 3,
    descriptor |-> Desc(<<114>>, extensions), input |-> 4, output |-> 5, work |-> 6,
    memory_bytes |-> 7, deadline |-> 8, latency |-> 3, priority |-> 2, payload |-> <<112>>]])
SubmitResp(reason) ==
  M("submit_resp", [request |-> 1, attempt |-> 2, admission |-> 4, reason |-> reason, batch |-> 5])
Cancelled == M("cancel", [request |-> 513, reason |-> 4])
RollEpoch == M("roll_epoch", [epoch |-> 7])
Status    == M("status", <<>>)
Ack(ok, message) == M("ack", [ok |-> ok, code |-> 3, message |-> message])
StatusResponse ==
  LET layout == Codec["status_response"].encode IN
  M("status_response", [f \in {layout[i].name : i \in DOMAIN layout} |->
                          CHOOSE i \in DOMAIN layout : layout[i].name = f])

(* One thread sends, or the two that share the connection to a worker. *)
By(own, drivers) == [t \in Threads |-> IF t = "reader" THEN own ELSE drivers]

(* The four directions: worker and driver to the coordinator and back. *)
AllConversations ==
  { By(<<Register, Complete(<<>>), Complete(<<Done(1), Done(2)>>)>>, <<>>),
    By(<<Ack(TRUE, <<111>>)>>, <<Dispatch(<<Work(1), Work(2)>>), Dispatch(<<>>)>>),
    By(<<Submit(<<<<1, 2>>, <<>>>>), Cancelled, RollEpoch, Status>>, <<>>),
    By(<<SubmitResp(<<114>>), Ack(FALSE, <<>>), StatusResponse>>, <<>>),
    By(<<Submit(<<<<>>, <<>>, <<>>>>), Cancelled>>, <<>>),
    By(<<Ack(TRUE, <<1, 2, 3>>)>>, <<Dispatch(<<Work(1), Work(2), Work(3)>>)>>),
    By(<<>>, <<Dispatch([n \in 1 .. 8 |-> Work(n)]), Dispatch(<<>>)>>) }
=============================================================================
