----------------------------- MODULE WorkOutbox -----------------------------
(***************************************************************************)
(* The event log of the Work Fabric and its outbox: append_event, the      *)
(* outbox operations of repository.py, and the pump of events.py.          *)
(*                                                                         *)
(* Event s is the s-th row of work_event; its outbox row is outbox[s].     *)
(* One pump runs at a time, under the consumer_id of its process.  It      *)
(* claims a batch under a lease, calls the subscribed handlers 1..Handlers *)
(* in order for each item and acknowledges or rejects the item.  As in     *)
(* WorkJobs, lease_left and delay count down to the expiry of the lease    *)
(* and to available_at.                                                    *)
(***************************************************************************)
EXTENDS Integers, Sequences, FiniteSets

CONSTANTS
  MaxEvents,      \* bound: events appended to the log
  Handlers,       \* number of subscribed handlers
  Consumer,       \* consumer_ids, one per process incarnation
  NoConsumer,     \* the empty lease_owner
  BatchLimit,     \* limit of one claim
  MaxAttempts,    \* max_attempts of reject_outbox
  MaxLost,        \* bound: leases an item loses during its dispatch
  LeaseTTL,       \* ticks in lease_ttl_s
  RetryDelay      \* ticks of the retry delay of a rejected item

ASSUME OutboxAssumption ==
  /\ MaxEvents \in Nat /\ Handlers \in Nat \ {0}
  /\ NoConsumer \notin Consumer
  /\ BatchLimit \in Nat \ {0} /\ MaxAttempts \in Nat \ {0} /\ MaxLost \in Nat
  /\ LeaseTTL \in Nat \ {0} /\ RetryDelay \in Nat \ {0}

VARIABLES
  outbox,     \* [1..MaxEvents -> Row]: table work_outbox
  appended,   \* sequence of the newest event
  consumer,   \* the running pump, NoConsumer when the process is down
  spent,      \* consumer_ids already used
  batch,      \* claimed items still to be dispatched, oldest first
  pc,         \* what the pump does with the head of batch
  next,       \* the handler called next
  handled,    \* history: [1..MaxEvents -> 0..Handlers] handlers that saw it
  lost,       \* history: [1..MaxEvents -> Nat] leases lost during dispatch
  claimed     \* history: the items of the last claim

pump == <<consumer, spent, batch, pc, next>>
trail == <<lost, claimed>>
outvars == <<outbox, appended, pump, handled, trail>>

Seqno == 1..MaxEvents
NULL == -1

Row == [status: {"absent", "pending", "leased", "delivered", "dead"},
        lease_owner: Consumer \cup {NoConsumer}, lease_epoch: Nat,
        lease_left: {NULL} \cup (0..LeaseTTL), attempts: Nat, delay: 0..RetryDelay]

Absent == [status |-> "absent", lease_owner |-> NoConsumer, lease_epoch |-> 0,
           lease_left |-> NULL, attempts |-> 0, delay |-> 0]

OutboxInit ==
  /\ outbox = [s \in Seqno |-> Absent]
  /\ appended = 0
  /\ consumer = NoConsumer /\ spent = {} /\ batch = <<>> /\ pc = "idle" /\ next = 1
  /\ handled = [s \in Seqno |-> 0]
  /\ lost = [s \in Seqno |-> 0] /\ claimed = {}

-----------------------------------------------------------------------------
(* Transactions on the outbox rows. *)

Unleased(r, status) == [r EXCEPT !.status = status, !.lease_owner = NoConsumer,
                                 !.lease_left = NULL]
LeaseExpired(r) == r.status = "leased" /\ r.lease_left = 0

(* Mutant: expired leases are never returned. *)
Reclaimed_never == outbox

(* Expired leases go back to pending and are available at once. *)
Reclaimed == [s \in Seqno |-> IF LeaseExpired(outbox[s])
                              THEN [Unleased(outbox[s], "pending") EXCEPT !.delay = 0]
                              ELSE outbox[s]]

(* The row is the one the caller leased; its expiry is not looked at. *)
OwnsItem(c, s, e) ==
  /\ outbox[s].status = "leased"
  /\ outbox[s].lease_owner = c
  /\ outbox[s].lease_epoch = e

(* _insert_event_tx: the event and its pending outbox row. *)
append_event ==
  /\ appended < MaxEvents
  /\ appended' = appended + 1
  /\ outbox' = [outbox EXCEPT ![appended + 1].status = "pending"]
  /\ UNCHANGED <<pump, handled, trail>>

(* Items of the claim the pump is dispatching. *)
InDispatch == {batch[i].seq : i \in 1..Len(batch)}

(* The recovery loop of the service: also while handlers run.              *)
recover_expired_outbox ==
  /\ consumer # NoConsumer
  /\ \E s \in Seqno : LeaseExpired(outbox[s])
  /\ outbox' = Reclaimed
  /\ lost' = [s \in Seqno |-> IF s \in InDispatch /\ LeaseExpired(outbox[s])
                              THEN lost[s] + 1 ELSE lost[s]]
  /\ UNCHANGED <<appended, pump, handled, claimed>>

(* The pending and available items of lowest sequence, at most BatchLimit. *)
Claimable(rows) ==
  LET ready == {s \in Seqno : rows[s].status = "pending" /\ rows[s].delay = 0}
  IN {s \in ready : Cardinality({u \in ready : u < s}) < BatchLimit}

(* ORDER BY event_seq: the only increasing enumeration of S. *)
Ordered(S) == {q \in [1..Cardinality(S) -> S] :
                 \A i, k \in 1..Cardinality(S) : i < k => q[i] < q[k]}

claim_outbox ==
  LET rows == Reclaimed
      taken == Claimable(rows)
  IN /\ consumer # NoConsumer /\ pc = "idle"
     /\ taken # {}
     /\ outbox' = [s \in Seqno |->
                     IF s \in taken
                     THEN [rows[s] EXCEPT !.status = "leased", !.lease_owner = consumer,
                                          !.lease_epoch = @ + 1, !.lease_left = LeaseTTL,
                                          !.attempts = @ + 1]
                     ELSE rows[s]]
     /\ \E q \in Ordered(taken) :
          batch' = [i \in 1..Cardinality(taken) |->
                      [seq |-> q[i], epoch |-> rows[q[i]].lease_epoch + 1]]
     /\ claimed' = {batch'[i].seq : i \in 1..Len(batch')}
     /\ pc' = "delivering" /\ next' = 1
     /\ UNCHANGED <<appended, consumer, spent, handled, lost>>

-----------------------------------------------------------------------------
(* The pump: dispatch_once of events.py. *)

Item == Head(batch)

(* The rest of the claim is dropped; its leases stay until they expire. *)
BatchAbandoned == batch' = <<>> /\ pc' = "idle" /\ next' = 1

(* The next item of the claim, or the next poll. *)
BatchContinues ==
  /\ batch' = Tail(batch)
  /\ next' = 1
  /\ pc' = IF Tail(batch) = <<>> THEN "idle" ELSE "delivering"

(* Mutant: the event counts as delivered after its first handler. *)
deliver_first ==
  /\ pc = "delivering"
  /\ handled' = [handled EXCEPT ![Item.seq] = IF @ < 1 THEN 1 ELSE @]
  /\ pc' = "acking"
  /\ UNCHANGED <<outbox, appended, consumer, spent, batch, next, trail>>

(* _deliver calls one handler; an exception rejects the event, and the     *)
(* handlers before the failing one will see it again.                      *)
deliver ==
  /\ pc = "delivering"
  /\ \/ /\ handled' = [handled EXCEPT ![Item.seq] = IF @ < next THEN next ELSE @]
        /\ next' = next + 1
        /\ pc' = IF next = Handlers THEN "acking" ELSE "delivering"
     \/ pc' = "rejecting" /\ UNCHANGED <<handled, next>>
  /\ UNCHANGED <<outbox, appended, consumer, spent, batch, trail>>

(* LeaseLost leaves dispatch_once: the claim is abandoned. *)
acknowledge_outbox ==
  /\ pc = "acking"
  /\ \/ /\ OwnsItem(consumer, Item.seq, Item.epoch)
        /\ outbox' = [outbox EXCEPT ![Item.seq] = Unleased(@, "delivered")]
        /\ BatchContinues
     \/ /\ ~OwnsItem(consumer, Item.seq, Item.epoch)
        /\ BatchAbandoned
        /\ UNCHANGED outbox
  /\ UNCHANGED <<appended, consumer, spent, handled, trail>>

(* Mutant: a failed item does not end the dispatch of its claim. *)
reject_continues ==
  /\ pc = "rejecting"
  /\ BatchContinues
  /\ OwnsItem(consumer, Item.seq, Item.epoch)
  /\ outbox' = [outbox EXCEPT ![Item.seq] = [Unleased(@, "pending") EXCEPT !.delay = RetryDelay]]
  /\ UNCHANGED <<appended, consumer, spent, handled, trail>>

(* A failed item is delayed, or dead after max_attempts claims, and later  *)
(* items of the claim are not dispatched.                                  *)
reject_outbox ==
  /\ pc = "rejecting"
  /\ BatchAbandoned
  /\ \/ /\ OwnsItem(consumer, Item.seq, Item.epoch)
        /\ LET dead == outbox[Item.seq].attempts >= MaxAttempts
           IN outbox' = [outbox EXCEPT ![Item.seq] =
                [Unleased(@, IF dead THEN "dead" ELSE "pending")
                   EXCEPT !.delay = IF dead THEN 0 ELSE RetryDelay]]
     \/ ~OwnsItem(consumer, Item.seq, Item.epoch) /\ UNCHANGED outbox
  /\ UNCHANGED <<appended, consumer, spent, handled, trail>>

(* The process starts, and stops by a crash or by a shutdown that cancels  *)
(* the pump; either way the leases stay for recovery.                      *)
start(c) ==
  /\ consumer = NoConsumer /\ c \notin spent
  /\ consumer' = c /\ spent' = spent \cup {c}
  /\ UNCHANGED <<outbox, appended, batch, pc, next, handled, trail>>

stop ==
  /\ consumer # NoConsumer /\ spent # Consumer
  /\ consumer' = NoConsumer
  /\ BatchAbandoned
  /\ UNCHANGED <<outbox, appended, spent, handled, trail>>

-----------------------------------------------------------------------------
Countdown(n) == IF n > 0 THEN n - 1 ELSE n

(* Bound: once its dispatch lost MaxLost + 1 leases, an item keeps the     *)
(* next one until the dispatch ends.                                       *)
Ages(s) == ~(s \in InDispatch /\ lost[s] > MaxLost)

Tick ==
  /\ \E s \in Seqno : Ages(s) /\ (outbox[s].lease_left > 0 \/ outbox[s].delay > 0)
  /\ outbox' = [s \in Seqno |->
       IF Ages(s) THEN [outbox[s] EXCEPT !.lease_left = Countdown(@), !.delay = Countdown(@)]
                  ELSE outbox[s]]
  /\ UNCHANGED <<appended, pump, handled, trail>>

OutboxNext ==
  \/ append_event
  \/ recover_expired_outbox
  \/ claim_outbox
  \/ deliver
  \/ acknowledge_outbox
  \/ reject_outbox
  \/ \E c \in Consumer : start(c)
  \/ stop
  \/ Tick

(* Fairness: the pump and the clock run, and the host is restarted.  The   *)
(* handlers owe nothing: a failing one costs attempts.                     *)
OutboxFairness ==
  /\ WF_outvars(claim_outbox)
  /\ WF_outvars(deliver)
  /\ WF_outvars(acknowledge_outbox)
  /\ WF_outvars(reject_outbox)
  /\ WF_outvars(\E c \in Consumer : start(c))
  /\ WF_outvars(Tick)

OutboxSpec == OutboxInit /\ [][OutboxNext]_outvars /\ OutboxFairness

-----------------------------------------------------------------------------
OutboxTypeOK ==
  /\ outbox \in [Seqno -> Row]
  /\ appended \in 0..MaxEvents
  /\ consumer \in Consumer \cup {NoConsumer} /\ spent \subseteq Consumer
  /\ pc \in {"idle", "delivering", "acking", "rejecting"}
  /\ next \in 1..(Handlers + 1)
  /\ handled \in [Seqno -> 0..Handlers]
  /\ batch \in Seq([seq: Seqno, epoch: Nat])
  /\ lost \in [Seqno -> Nat] /\ claimed \subseteq Seqno

(* An event and its outbox row are written together, and a row has a lease *)
(* exactly while it is leased.                                             *)
RowsMatchLog ==
  \A s \in Seqno :
    /\ outbox[s].status = "absent" <=> s > appended
    /\ outbox[s].status = "leased" <=> outbox[s].lease_owner # NoConsumer
    /\ outbox[s].status = "leased" <=> outbox[s].lease_left # NULL

(* The pump dispatches an item of its claim, acknowledges it only after    *)
(* the last handler, and holds no claim newer than the row.                *)
PumpHoldsClaim ==
  /\ pc = "idle" <=> batch = <<>>
  /\ consumer = NoConsumer => pc = "idle"
  /\ pc = "delivering" => next <= Handlers
  /\ pc = "acking" => handled[Item.seq] = Handlers
  /\ \A i \in 1..Len(batch) : batch[i].epoch <= outbox[batch[i].seq].lease_epoch

(* At-least-once: an event leaves the outbox as delivered only after every *)
(* subscribed handler returned for it, whatever crashed, expired or was    *)
(* claimed again in between.                                               *)
DeliveredWasHandled ==
  \A s \in Seqno : outbox[s].status = "delivered" => handled[s] = Handlers

(* An event is given up only after max_attempts claims. *)
DeadOnlyWhenExhausted ==
  \A s \in Seqno : outbox[s].status = "dead" => outbox[s].attempts >= MaxAttempts

(* Well-typed state; what left the outbox as delivered was handled by all, *)
(* and what was given up had its attempts, because the pump acknowledges   *)
(* only what its own claim dispatched to the end.                          *)
OutboxInv ==
  /\ OutboxTypeOK /\ RowsMatchLog /\ PumpHoldsClaim
  /\ DeliveredWasHandled /\ DeadOnlyWhenExhausted

(* "Do not acknowledge later items after a failed earlier event in the     *)
(* same claim" (dispatch_once): whatever fails, expires or is recovered    *)
(* meanwhile, an event of a claim is delivered only when the claim's       *)
(* earlier events are.                                                     *)
AcknowledgedInOrder ==
  \A s, u \in claimed :
    s < u /\ outbox[u].status = "delivered" => outbox[s].status = "delivered"

(* Every event of the log is eventually delivered or given up, unless the  *)
(* handlers of an event outlive the lease of its claim for more than       *)
(* MaxLost claims: the pump neither renews a lease nor counts such claims  *)
(* against max_attempts (dispatch_once, claim_outbox), so it would claim   *)
(* the same batch again without end.                                       *)
EveryEventSettles ==
  \A s \in Seqno :
    (outbox[s].status # "absent")
      ~> (outbox[s].status \in {"delivered", "dead"} \/ \E u \in Seqno : lost[u] > MaxLost)
=============================================================================
