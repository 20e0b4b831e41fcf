------------------------------ MODULE Protocol ------------------------------
(***************************************************************************)
(* The messages between coordinator, workers and drivers and their bodies  *)
(* (src/protocol.cpp).  Every message has an encoder and a decoder; each   *)
(* is the layout its function writes or reads.  A decoder refuses what     *)
(* ends early, what is too long and what is left over; it casts bytes to   *)
(* enumerations unchecked.                                                 *)
(***************************************************************************)
EXTENDS ByteIO

CONSTANTS
  MaxExtensions,   \* read_desc: extensions of a descriptor
  MaxMembers       \* read_exec, read_compl: members of a batch

ASSUME ProtocolAssumption == MaxExtensions \in Nat /\ MaxMembers \in Nat

Fields(names, kind) == [i \in DOMAIN names |-> Field(names[i], kind)]

-----------------------------------------------------------------------------
write_desc ==
     <<Field("version", Const(<<1>>))>>
  \o Fields(<<"model", "revision", "adapter", "tokenizer">>, String)
  \o Fields(<<"phase", "dtype", "backend", "execution_mode", "device_backend">>, U8)
  \o Fields(<<"compute_major", "compute_minor">>, U32)
  \o Fields(<<"min_memory_bytes">>, U64)
  \o Fields(<<"shape", "sampling_semantics">>, String)
  \o <<Field("extensions", List(U32, String))>>

(* Faulty: revision and adapter are read in the wrong order. *)
read_desc_swapped ==
     <<Field("version", Const(<<1>>))>>
  \o Fields(<<"model", "adapter", "revision", "tokenizer">>, String)
  \o Fields(<<"phase", "dtype", "backend", "execution_mode", "device_backend">>, U8)
  \o Fields(<<"compute_major", "compute_minor">>, U32)
  \o Fields(<<"min_memory_bytes">>, U64)
  \o Fields(<<"shape", "sampling_semantics">>, String)
  \o <<Field("extensions", List(UpTo(U32, MaxExtensions), String))>>

read_desc ==
     <<Field("version", Const(<<1>>))>>
  \o Fields(<<"model", "revision", "adapter", "tokenizer">>, String)
  \o Fields(<<"phase", "dtype", "backend", "execution_mode", "device_backend">>, U8)
  \o Fields(<<"compute_major", "compute_minor">>, U32)
  \o Fields(<<"min_memory_bytes">>, U64)
  \o Fields(<<"shape", "sampling_semantics">>, String)
  \o <<Field("extensions", List(UpTo(U32, MaxExtensions), String))>>

write_cap ==
     <<Field("worker", U64), Field("backend", U8), Field("device_backend", U8)>>
  \o Fields(<<"compute_major", "compute_minor">>, U32)
  \o <<Field("min_memory_bytes", U64), Field("max_batch_size", U32)>>
  \o Fields(<<"max_tokens", "max_work", "max_memory_bytes">>, U64)
  \o <<Field("supports_cancellation", Bool)>>

read_cap ==
     <<Field("worker", U64), Field("backend", U8), Field("device_backend", U8)>>
  \o Fields(<<"compute_major", "compute_minor">>, U32)
  \o <<Field("min_memory_bytes", U64), Field("max_batch_size", U32)>>
  \o Fields(<<"max_tokens", "max_work", "max_memory_bytes">>, U64)
  \o <<Field("supports_cancellation", Bool)>>

write_meta ==
     Fields(<<"tenant", "session", "sequence">>, U64)
  \o <<Field("descriptor", Record(write_desc))>>
  \o Fields(<<"input", "output", "work", "memory_bytes", "deadline">>, U64)
  \o <<Field("latency", U8), Field("priority", U8), Field("payload", String)>>

read_meta ==
     Fields(<<"tenant", "session", "sequence">>, U64)
  \o <<Field("descriptor", Record(read_desc))>>
  \o Fields(<<"input", "output", "work", "memory_bytes", "deadline">>, U64)
  \o <<Field("latency", U8), Field("priority", U8), Field("payload", String)>>

write_exec ==
     Fields(<<"batch", "generation", "epoch", "worker">>, U64)
  \o <<Field("descriptor", Record(write_desc)),
       Field("members", List(U32, Record(
         Fields(<<"request", "attempt", "work", "input_tokens", "output_tokens">>, U64)
           \o <<Field("payload", String)>>)))>>

read_exec ==
     Fields(<<"batch", "generation", "epoch", "worker">>, U64)
  \o <<Field("descriptor", Record(read_desc)),
       Field("members", List(UpTo(U32, MaxMembers), Record(
         Fields(<<"request", "attempt", "work", "input_tokens", "output_tokens">>, U64)
           \o <<Field("payload", String)>>)))>>

write_compl ==
     Fields(<<"worker", "boot", "epoch", "generation", "batch">>, U64)
  \o <<Field("members", List(U32, Record(
         <<Field("request", U64), Field("attempt", U64), Field("status", U8),
           Field("result", String), Field("error_code", U32), Field("error_message", String)>>)))>>

read_compl ==
     Fields(<<"worker", "boot", "epoch", "generation", "batch">>, U64)
  \o <<Field("members", List(UpTo(U32, MaxMembers), Record(
         <<Field("request", U64), Field("attempt", U64), Field("status", U8),
           Field("result", String), Field("error_code", U32), Field("error_message", String)>>)))>>

-----------------------------------------------------------------------------
encode_register == Fields(<<"worker", "boot">>, U64) \o <<Field("cap", Record(write_cap))>>
decode_register == Fields(<<"worker", "boot">>, U64) \o <<Field("cap", Record(read_cap))>>

encode_submit == <<Field("meta", Record(write_meta))>>
decode_submit == <<Field("meta", Record(read_meta))>>

encode_submit_resp ==
  <<Field("request", U64), Field("attempt", U64), Field("admission", U8),
    Field("reason", String), Field("batch", U64)>>
decode_submit_resp ==
  <<Field("request", U64), Field("attempt", U64), Field("admission", U8),
    Field("reason", String), Field("batch", U64)>>

encode_dispatch == <<Field("exec", Record(write_exec))>>
decode_dispatch == <<Field("exec", Record(read_exec))>>

encode_complete == <<Field("completion", Record(write_compl))>>
decode_complete == <<Field("completion", Record(read_compl))>>

encode_ack == <<Field("ok", Bool), Field("code", U32), Field("message", String)>>
decode_ack == <<Field("ok", Bool), Field("code", U32), Field("message", String)>>

encode_roll_epoch == <<Field("epoch", U64)>>
decode_roll_epoch == <<Field("epoch", U64)>>

encode_status == <<>>
decode_status == <<>>

encode_status_resp ==
  Fields(<<"submitted", "admitted", "deferred", "rejected", "expired", "cancelled",
           "batches_formed", "batches_sealed", "batches_dispatched", "batches_completed",
           "batches_split", "batches_merged", "requests_completed", "requests_retried",
           "retryable_failures", "stale_rejections", "waiting_now", "forming_now",
           "running_now", "reserved_now", "total_work_completed">>, U64)
decode_status_resp ==
  Fields(<<"submitted", "admitted", "deferred", "rejected", "expired", "cancelled",
           "batches_formed", "batches_sealed", "batches_dispatched", "batches_completed",
           "batches_split", "batches_merged", "requests_completed", "requests_retried",
           "retryable_failures", "stale_rejections", "waiting_now", "forming_now",
           "running_now", "reserved_now", "total_work_completed">>, U64)

encode_cancel == <<Field("request", U64), Field("reason", U8)>>
decode_cancel == <<Field("request", U64), Field("reason", U8)>>

-----------------------------------------------------------------------------
(* The body schemas; a submission is answered with a message of its own     *)
(* type and another schema.                                                 *)
Codec ==
  [register_worker |-> [encode |-> encode_register,    decode |-> decode_register],
   submit          |-> [encode |-> encode_submit,      decode |-> decode_submit],
   submit_resp     |-> [encode |-> encode_submit_resp, decode |-> decode_submit_resp],
   dispatch        |-> [encode |-> encode_dispatch,    decode |-> decode_dispatch],
   complete        |-> [encode |-> encode_complete,    decode |-> decode_complete],
   ack             |-> [encode |-> encode_ack,         decode |-> decode_ack],
   roll_epoch      |-> [encode |-> encode_roll_epoch,  decode |-> decode_roll_epoch],
   status          |-> [encode |-> encode_status,      decode |-> decode_status],
   status_response |-> [encode |-> encode_status_resp, decode |-> decode_status_resp],
   cancel          |-> [encode |-> encode_cancel,      decode |-> decode_cancel]]

Encode(schema, m)   == Put(Record(Codec[schema].encode), m)

(* Faulty: what is left over is not looked at. *)
DecodeLoose(schema, bytes) == Get(Record(Codec[schema].decode), Reader(bytes))

Decode(schema, bytes) == Exactly(Get(Record(Codec[schema].decode), Reader(bytes)))
=============================================================================
