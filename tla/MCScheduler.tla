---------------------------- MODULE MCScheduler ----------------------------
(***************************************************************************)
(* Small instances of the scheduler for TLC.                               *)
(***************************************************************************)
EXTENDS Scheduler

Plain == [tenant |-> 1, key |-> "k1", class |-> "batch", work |-> 1, deadline |-> 0]

(* One kind of request: the interleavings are of the methods. *)
OfferedOne == {Plain}

(* The same request with and without a deadline. *)
OfferedDeadline == {Plain, [Plain EXCEPT !.deadline = 2]}

(* Also a request no batch can hold. *)
OfferedRetry == OfferedDeadline \cup {[Plain EXCEPT !.work = 4]}

(* Two tenants, two keys and different amounts of work. *)
OfferedMixed == {Plain, [Plain EXCEPT !.work = 2], [Plain EXCEPT !.tenant = 2, !.key = "k2"]}

NoClassWait == <<>>
EqualWeight == [t \in Tenant |-> 1]
=============================================================================
