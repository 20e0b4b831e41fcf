------------------------------- MODULE Channel -------------------------------
(***************************************************************************)
(* A framed channel over a stream socket (src/transport.cpp), in one       *)
(* direction: threads of one process call Channel::send, a thread of the   *)
(* other calls Channel::recv in a loop, as coordinator, worker and driver  *)
(* do.  The other direction runs the same code.                            *)
(*                                                                         *)
(* A frame is a length of four bytes, a type byte and a body.  send_all    *)
(* and recv_all loop over ::send and ::recv, each of which moves as many   *)
(* bytes as it likes; the stream keeps the order of bytes and may end      *)
(* after any of them.  Calls of ::send are atomic, but send takes no lock, *)
(* and two threads of the coordinator send to a worker: its own reader     *)
(* acknowledges reports, and the driver's reader dispatches.               *)
(***************************************************************************)
EXTENDS Integers, Sequences, SequencesExt

CONSTANTS
  Threads,       \* the threads that send on the channel
  Message,       \* what they may have to send
  FrameOf,       \* the frame of each message
  Conversations, \* what each of them sends on one connection: a sequence of messages per thread
  MaxFrameSize,  \* kMaxFrameSize
  CutBound       \* bound of the model: places inside a transfer where something is cut: a call of
                 \* ::send or ::recv that moves less than it could, the end of the connection

Byte == 0 .. 255
Frame == [type: Byte, body: Seq(Byte)]

MaxInt == 127 * 256 * 256 * 256 + 255 * 256 * 256 + 255 * 256 + 255

(* The size of a whole frame is cast to int. *)
ASSUME ChannelAssumption ==
  /\ FrameOf \in [Message -> Frame]
  /\ Conversations \subseteq [Threads -> Seq(Message)]
  /\ MaxFrameSize \in Nat /\ 4 + MaxFrameSize <= MaxInt
  /\ CutBound \in Nat

VARIABLES
  outbox,     \* per thread: the messages it has still to send
  link,       \* the connection: "unbound", "listening", "open" or "closed"
  sending,    \* per thread: the bytes of its frame that send_all has still to send
  stream,     \* bytes sent and not yet received
  reader,     \* recv: the part it reads, the bytes it has and how many it wants
  sent,       \* history: the messages sent, in the order of their first bytes
  mixed,      \* history: a frame was begun in the middle of another thread's
  received,   \* history: the frames recv returned, in order
  cuts        \* how often a transfer was cut

channelVars == <<outbox, link, sending, stream, reader, sent, mixed, received, cuts>>

ChannelInit ==
  /\ outbox \in Conversations
  /\ link = "unbound"
  /\ sending = [t \in Threads |-> <<>>]
  /\ stream = <<>>
  /\ reader = [part |-> "none", got |-> <<>>, want |-> 0]
  /\ sent = <<>> /\ mixed = FALSE /\ received = <<>>
  /\ cuts = 0

-----------------------------------------------------------------------------
(* The length, most significant byte first, and how it is read back;        *)
(* lengths from 2^31 on are above every limit and not told apart.           *)
LengthBytes(n) ==
  LET Up(k) == k \div 256 IN <<Up(Up(Up(n))) % 256, Up(Up(n)) % 256, Up(n) % 256, n % 256>>

LengthIn(h) ==
  IF h[1] > 127 THEN MaxInt ELSE 256 * (256 * (256 * h[1] + h[2]) + h[3]) + h[4]

(* Faulty: the length leaves out the type byte. *)
FrameBytesShort(f) == LengthBytes(Len(f.body)) \o <<f.type>> \o f.body

FrameBytes(f) == LengthBytes(1 + Len(f.body)) \o <<f.type>> \o f.body

(* Of k bytes that could be moved n are. *)
Moved(k, n) == IF n = k THEN UNCHANGED cuts ELSE cuts < CutBound /\ cuts' = cuts + 1

-----------------------------------------------------------------------------
(* Making and ending the connection. *)

Bind ==
  /\ link = "unbound" /\ link' = "listening"
  /\ UNCHANGED <<outbox, sending, stream, reader, sent, mixed, received, cuts>>

Connect ==
  /\ link = "listening" /\ link' = "open"
  /\ UNCHANGED <<outbox, sending, stream, reader, sent, mixed, received, cuts>>

ReadHeader == [part |-> "header", got |-> <<>>, want |-> 4]
ReadPayload(n) == [part |-> "payload", got |-> <<>>, want |-> n]
Ended == [part |-> "ended", got |-> <<>>, want |-> 0]

Accept ==
  /\ link # "unbound" /\ link # "listening" /\ reader.part = "none"
  /\ reader' = ReadHeader
  /\ UNCHANGED <<outbox, link, sending, stream, sent, mixed, received, cuts>>

(* The sending end is closed or its process dies; what is in flight arrives *)
(* up to some byte.  A send that is under way fails.                        *)
CloseSender ==
  /\ link = "open" /\ link' = "closed"
  /\ \E n \in 0 .. Len(stream) : Moved(Len(stream), n) /\ stream' = SubSeq(stream, 1, n)
  /\ sending' = [t \in Threads |-> <<>>]
  /\ UNCHANGED <<outbox, reader, sent, mixed, received>>

(* The receiving end is closed: what it has not read is gone. *)
CloseReceiver ==
  /\ link = "open" /\ link' = "closed"
  /\ stream' = <<>> /\ reader' = Ended
  /\ sending' = [t \in Threads |-> <<>>]
  /\ UNCHANGED <<outbox, sent, mixed, received, cuts>>

-----------------------------------------------------------------------------
(* Channel::send.  A frame above the limit is refused before a byte of it   *)
(* is sent; its caller goes on.                                             *)
NextFrame(t) == FrameOf[Head(outbox[t])]

TooLarge(f) == 1 + Len(f.body) > MaxFrameSize

Refuse(t) ==
  /\ link = "open" /\ sending[t] = <<>> /\ outbox[t] # <<>>
  /\ TooLarge(NextFrame(t))
  /\ outbox' = [outbox EXCEPT ![t] = Tail(@)]
  /\ UNCHANGED <<link, sending, stream, reader, sent, mixed, received, cuts>>

(* Faulty: a short ::send is taken for a complete one. *)
RestDropped(bytes, n) == <<>>

(* What ::send leaves of the bytes is for the next call. *)
Rest(bytes, n) == SubSeq(bytes, n + 1, Len(bytes))

(* The frame is put together and ::send called for the first time. *)
Send(t) ==
  /\ link = "open" /\ sending[t] = <<>> /\ outbox[t] # <<>>
  /\ ~TooLarge(NextFrame(t))
  /\ LET bytes == FrameBytes(NextFrame(t)) IN
     \E n \in 1 .. Len(bytes) :
       /\ Moved(Len(bytes), n)
       /\ stream' = stream \o SubSeq(bytes, 1, n)
       /\ sending' = [sending EXCEPT ![t] = Rest(bytes, n)]
  /\ sent' = Append(sent, Head(outbox[t]))
  /\ mixed' = (mixed \/ \E u \in Threads : sending[u] # <<>>)
  /\ outbox' = [outbox EXCEPT ![t] = Tail(@)]
  /\ UNCHANGED <<link, reader, received>>

(* One more call of ::send in send_all. *)
SendSome(t) ==
  /\ link = "open" /\ sending[t] # <<>>
  /\ \E n \in 1 .. Len(sending[t]) :
       /\ Moved(Len(sending[t]), n)
       /\ stream' = stream \o SubSeq(sending[t], 1, n)
       /\ sending' = [sending EXCEPT ![t] = Rest(@, n)]
  /\ UNCHANGED <<outbox, link, reader, sent, mixed, received>>

-----------------------------------------------------------------------------
(* Channel::recv, called again as soon as it returns. *)

Missing == reader.want - Len(reader.got)

(* Faulty: the length is not compared with the limit. *)
FilledUnlimited(got) ==
  CASE reader.part = "header" ->
         /\ reader' = IF LengthIn(got) > 0 THEN ReadPayload(LengthIn(got)) ELSE Ended
         /\ UNCHANGED received
    [] reader.part = "payload" ->
         /\ reader' = ReadHeader
         /\ received' = Append(received, [type |-> Head(got), body |-> Tail(got)])

(* The whole header, or the whole payload, is there. *)
Filled(got) ==
  CASE reader.part = "header" ->
         /\ reader' = IF LengthIn(got) \in 1 .. MaxFrameSize THEN ReadPayload(LengthIn(got)) ELSE Ended
         /\ UNCHANGED received
    [] reader.part = "payload" ->
         /\ reader' = ReadHeader
         /\ received' = Append(received, [type |-> Head(got), body |-> Tail(got)])

(* One call of ::recv in recv_all. *)
ReceiveSome ==
  /\ Missing > 0 /\ stream # <<>>
  /\ LET k == IF Missing < Len(stream) THEN Missing ELSE Len(stream) IN
     \E n \in 1 .. k :
       LET got == reader.got \o SubSeq(stream, 1, n) IN
       /\ Moved(k, n)
       /\ stream' = SubSeq(stream, n + 1, Len(stream))
       /\ IF Len(got) = reader.want THEN Filled(got)
          ELSE reader' = [reader EXCEPT !.got = got] /\ UNCHANGED received
  /\ UNCHANGED <<outbox, link, sending, sent, mixed>>

(* The peer has closed: recv fails, and its caller ends the connection. *)
ReceiveEnd ==
  /\ Missing > 0 /\ stream = <<>> /\ link = "closed"
  /\ reader' = Ended
  /\ UNCHANGED <<outbox, link, sending, stream, sent, mixed, received, cuts>>

-----------------------------------------------------------------------------
ChannelNext ==
  \/ Bind \/ Connect \/ Accept \/ CloseSender \/ CloseReceiver
  \/ \E t \in Threads : Refuse(t) \/ Send(t) \/ SendSome(t)
  \/ ReceiveSome \/ ReceiveEnd

(* The threads that send and the thread that reads run. *)
ChannelSpec ==
  /\ ChannelInit /\ [][ChannelNext]_channelVars
  /\ \A t \in Threads : WF_channelVars(SendSome(t))
  /\ WF_channelVars(Accept) /\ WF_channelVars(ReceiveSome) /\ WF_channelVars(ReceiveEnd)

-----------------------------------------------------------------------------
(* The bytes of the socket and the reader's buffer are bytes, and recv      *)
(* never asks for more than a frame may hold.                               *)
ChannelTypeOK ==
  /\ link \in {"unbound", "listening", "open", "closed"}
  /\ \A t \in Threads : Range(sending[t]) \subseteq 0 .. 255
  /\ Range(stream \o reader.got) \subseteq 0 .. 255
  /\ reader.part \in {"none", "header", "payload", "ended"}
  /\ Len(reader.got) <= reader.want /\ reader.want \in 0 .. MaxFrameSize + 4

(* What recv returns are the frames given to send, in their order and none  *)
(* twice, however the calls split them and wherever the connection ends: a  *)
(* frame that is cut off is never returned.  Without a lock in send this    *)
(* holds as long as no thread begins a frame while a short ::send has left  *)
(* another thread in the middle of one.                                     *)
FramesInOrder ==
  ~mixed => /\ Len(received) <= Len(sent)
            /\ \A i \in DOMAIN received : received[i] = FrameOf[sent[i]]

(* Every message whose frame was begun arrives unless the connection ends   *)
(* or another thread's frame was begun inside it.                           *)
Delivered ==
  \A n \in 1 .. Max({FoldSet(LAMBDA t, k : k + Len(c[t]), 0, Threads) : c \in Conversations}) :
    Len(sent) >= n ~> Len(received) >= n \/ link = "closed" \/ mixed
=============================================================================
