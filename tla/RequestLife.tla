---------------------------- MODULE RequestLife ----------------------------
(***************************************************************************)
(* What the scheduler promises about requests (the request lifecycle and   *)
(* the exactly-once outcomes of the repository's README): a request is     *)
(* queued, joins a batch, is committed when the batch is sealed and is     *)
(* handed out for execution.  Its current attempt ends with one outcome,   *)
(* which is never revised.  A request whose attempt failed while it was    *)
(* handed out may be queued again with a fresh attempt; a request that has *)
(* ended stays ended.  Requests live side by side: a step moves any number *)
(* of them, as the seal of a batch does.                                   *)
(***************************************************************************)
EXTENDS Naturals, Sequences

CONSTANTS
  Request,
  Outcome,       \* the outcomes an attempt may end with
  Attempts       \* how many attempts a request may have

VARIABLES
  phase,         \* where each request is
  ledger         \* the outcome of each of its attempts, "open" while it has none

LifeInit ==
  /\ phase = [r \in Request |-> "absent"]
  /\ ledger = [r \in Request |-> <<>>]

(* Admitted, or turned away at once. *)
Enter(r) ==
  /\ phase[r] = "absent"
  /\ \/ phase'[r] = "queued" /\ ledger'[r] = <<"open">>
     \/ phase'[r] = "ended" /\ \E o \in Outcome : ledger'[r] = <<o>>

Follows == [queued |-> "placed", placed |-> "committed", committed |-> "issued"]

Move(r) ==
  /\ phase[r] \in DOMAIN Follows /\ phase'[r] = Follows[phase[r]]
  /\ ledger'[r] = ledger[r]

(* The ledger of r with the outcome o of its current attempt. *)
Closed(r, o) == [ledger[r] EXCEPT ![Len(ledger[r])] = o]

End(r) ==
  /\ phase[r] \notin {"absent", "ended"} /\ phase'[r] = "ended"
  /\ \E o \in Outcome : ledger'[r] = Closed(r, o)

Again(r) ==
  /\ phase[r] = "issued" /\ phase'[r] = "queued"
  /\ Len(ledger[r]) < Attempts
  /\ ledger'[r] = Append(Closed(r, "retryable_failure"), "open")

Same(r) == phase'[r] = phase[r] /\ ledger'[r] = ledger[r]

LifeNext == \A r \in Request : Enter(r) \/ Move(r) \/ End(r) \/ Again(r) \/ Same(r)

LifeSpec == LifeInit /\ [][LifeNext]_<<phase, ledger>>
=============================================================================
