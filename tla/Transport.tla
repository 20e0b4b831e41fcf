------------------------------ MODULE Transport ------------------------------
(***************************************************************************)
(* The messages of the wire protocol on the channel: what is sent is       *)
(* encoded into the body of a frame, and what is received is decoded.      *)
(***************************************************************************)
EXTENDS Channel, Protocol

(* A message is a record of a schema and of the message proper. *)
Messages == UNION {Range(c[t]) : c \in Conversations, t \in Threads}

ASSUME TransportAssumption == \A m \in Messages : m.schema \in DOMAIN Codec

(* The answer to a submission has the type of a submission. *)
MessageType ==
  [register_worker |-> 1, submit |-> 2, submit_resp |-> 2, cancel |-> 3, dispatch |-> 4,
   complete |-> 5, status |-> 6, status_response |-> 7, ack |-> 9, roll_epoch |-> 13]

(* The frames of the messages: the value of FrameOf. *)
WireFrames ==
  [m \in Messages |-> [type |-> MessageType[m.schema], body |-> Encode(m.schema, m.message)]]

-----------------------------------------------------------------------------
(* recv has returned a frame and not begun on the next. *)
JustReceived == received # <<>> /\ reader = ReadHeader

(* The receiver's decoder gives back the message that was encoded, field by *)
(* field, exactly when no string and no list of it exceeds the decoder's    *)
(* limits; the others it refuses.                                           *)
MessagesDecoded ==
  (~mixed /\ JustReceived) =>
    LET m == sent[Len(received)]
        d == Decode(m.schema, Last(received).body)
    IN /\ d.ok <=> Within(Record(Codec[m.schema].decode), m.message)
       /\ d.ok => d.val = m.message

(* Bodies delimit themselves: the decoder refuses a body that is cut off    *)
(* after any byte, which is what the reader's buffer holds while the rest   *)
(* of the frame is on its way, and one with a byte to spare.                *)
BodiesDelimited ==
  ~mixed =>
    /\ (reader.part = "payload" /\ reader.got # <<>>) =>
         ~Decode(sent[Len(received) + 1].schema, Tail(reader.got)).ok
    /\ JustReceived =>
         ~Decode(sent[Len(received)].schema, Append(Last(received).body, 0)).ok
=============================================================================
