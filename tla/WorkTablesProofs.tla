-------------------------- MODULE WorkTablesProofs --------------------------
(***************************************************************************)
(* Proofs about the two tables of the work store that are no jobs.  Part I *)
(* is about the event log and its outbox, for any number of events,        *)
(* handlers and processes and any batch limit, retry limit and lease       *)
(* length.  Part II is about questions to the user, for any questions,     *)
(* answers and number of crashes: every step of WorkInteractions rewrites  *)
(* at most one row of its table, and only from absent to open or from open *)
(* to an outcome; its invariant follows from that and from what each step  *)
(* does to the one call it belongs to.                                     *)
(***************************************************************************)
EXTENDS WorkOutbox, WorkInteractions, SequenceTheorems, FiniteSetTheorems, TLAPS

USE DEF Seqno, NULL

Claim == [seq: Seqno, epoch: Nat]

(* What the invariant says of the row r of event s, when the log ends at n *)
(* and h handlers saw the event.                                           *)
GoodRow(s, r, n, h) ==
  /\ r \in Row
  /\ r.status = "absent" <=> s > n
  /\ r.status = "leased" <=> r.lease_owner # NoConsumer
  /\ r.status = "leased" <=> r.lease_left # NULL
  /\ r.status = "delivered" => h = Handlers
  /\ r.status = "dead" => r.attempts >= MaxAttempts

GoodRows(rows) == \A s \in Seqno : GoodRow(s, rows[s], appended, handled[s])

(* What no step may do to a row. *)
RowStep(r, t) ==
  /\ r.status \in {"delivered", "dead"} => t.status = r.status
  /\ t.lease_epoch >= r.lease_epoch

(* Of the last claim, in the order of the log, what is not dispatched any  *)
(* more was delivered, unless the pump gave the claim up.                  *)
ClaimInOrder ==
  /\ \A i \in 1..Len(batch) : batch[i].seq \in claimed
  /\ \A i, k \in 1..Len(batch) : i < k => batch[i].seq < batch[k].seq
  /\ pc # "idle" => \A s \in claimed : outbox[s].status = "delivered" \/ s \in InDispatch

IInv == OutboxInv /\ ClaimInOrder /\ AcknowledgedInOrder

LEMMA InvFacts ==
  ASSUME OutboxInv, NEW s \in Seqno
  PROVE  /\ outbox \in [Seqno -> Row] /\ outbox[s] \in Row
         /\ handled \in [Seqno -> 0..Handlers] /\ handled[s] \in 0..Handlers
         /\ appended \in 0..MaxEvents /\ Handlers \in Nat \ {0}
         /\ GoodRow(s, outbox[s], appended, handled[s])
BY OutboxAssumption
   DEF OutboxInv, OutboxTypeOK, RowsMatchLog, DeliveredWasHandled, DeadOnlyWhenExhausted,
       GoodRow

LEMMA InitInv == OutboxInit => IInv
<1>. SUFFICES ASSUME OutboxInit PROVE IInv
  OBVIOUS
<1>1. Absent \in Row
  BY OutboxAssumption DEF Absent, Row
<1>2. batch \in Seq(Claim) /\ Len(batch) = 0
  BY EmptySeq DEF OutboxInit
<1>3. OutboxTypeOK
  BY <1>1, <1>2, OutboxAssumption DEF OutboxInit, OutboxTypeOK, Claim
<1>4. RowsMatchLog /\ PumpHoldsClaim /\ DeliveredWasHandled /\ DeadOnlyWhenExhausted
  BY <1>2, OutboxAssumption
     DEF OutboxInit, RowsMatchLog, PumpHoldsClaim, DeliveredWasHandled, DeadOnlyWhenExhausted,
         Absent
<1>5. ClaimInOrder /\ AcknowledgedInOrder
  BY <1>2 DEF OutboxInit, ClaimInOrder, AcknowledgedInOrder
<1>. QED
  BY <1>3, <1>4, <1>5 DEF IInv, OutboxInv

(* The invariant of the next state from its parts. *)
LEMMA InvFromParts ==
  ASSUME OutboxTypeOK', PumpHoldsClaim',
         \A s \in Seqno : GoodRow(s, outbox'[s], appended', handled'[s])
  PROVE  OutboxInv'
BY DEF OutboxInv, RowsMatchLog, DeliveredWasHandled, DeadOnlyWhenExhausted, GoodRow

(* The items of the claim. *)
LEMMA ClaimFacts ==
  ASSUME OutboxInv
  PROVE  /\ batch \in Seq(Claim) /\ Len(batch) \in Nat
         /\ \A i \in 1..Len(batch) :
              /\ batch[i].seq \in Seqno /\ batch[i].epoch \in Nat
              /\ batch[i].epoch <= outbox[batch[i].seq].lease_epoch
         /\ pc # "idle" => /\ batch # <<>> /\ Len(batch) > 0 /\ Item = batch[1]
                           /\ Item.seq \in Seqno /\ Item.epoch \in Nat
<1>1. batch \in Seq(Claim)
  BY DEF OutboxInv, OutboxTypeOK, Claim
<1>2. \A i \in 1..Len(batch) : batch[i].seq \in Seqno /\ batch[i].epoch \in Nat
  <2>1. \A i \in 1..Len(batch) : batch[i] \in Claim
    BY <1>1, ElementOfSeq
  <2>. QED
    BY <2>1 DEF Claim
<1>3. Len(batch) \in Nat /\ (batch # <<>> => Len(batch) > 0)
  BY <1>1, EmptySeq, LenProperties
<1>4. pc # "idle" => batch # <<>>
  BY DEF OutboxInv, PumpHoldsClaim
<1>5. Item = batch[1]
  BY DEF Item
<1>. QED
  BY <1>1, <1>2, <1>3, <1>4, <1>5 DEF OutboxInv, PumpHoldsClaim

(* A claim stays older than the rows while epochs only grow. *)
LEMMA ClaimKept ==
  ASSUME OutboxInv, outbox' \in [Seqno -> Row],
         \A s \in Seqno : RowStep(outbox[s], outbox'[s])
  PROVE  \A i \in 1..Len(batch) : batch[i].epoch <= outbox'[batch[i].seq].lease_epoch
<1>. SUFFICES ASSUME NEW i \in 1..Len(batch)
              PROVE  batch[i].epoch <= outbox'[batch[i].seq].lease_epoch
  OBVIOUS
<1>. DEFINE s == batch[i].seq
<1>1. s \in Seqno /\ batch[i].epoch \in Nat /\ batch[i].epoch <= outbox[s].lease_epoch
  BY ClaimFacts
<1>. HIDE DEF s
<1>2. /\ outbox[s].lease_epoch \in Nat /\ outbox'[s].lease_epoch \in Nat
      /\ outbox'[s].lease_epoch >= outbox[s].lease_epoch
  BY <1>1, InvFacts DEF RowStep, Row
<1>. QED
  BY <1>1, <1>2 DEF s

(* A step that only rewrites rows, each to a good one. *)
LEMMA RowsInv ==
  ASSUME OutboxInv, outbox' \in [Seqno -> Row],
         UNCHANGED <<appended, pump, handled, claimed>>, lost' \in [Seqno -> Nat],
         \A s \in Seqno : RowStep(outbox[s], outbox'[s]),
         \A s \in Seqno : GoodRow(s, outbox'[s], appended, handled[s])
  PROVE  OutboxInv'
<1>1. OutboxTypeOK'
  BY DEF OutboxInv, OutboxTypeOK, pump
<1>2. PumpHoldsClaim'
  BY ClaimKept DEF OutboxInv, PumpHoldsClaim, pump, Item
<1>. QED
  BY <1>1, <1>2, InvFromParts

(* Rows that no step touches stay good. *)
LEMMA RowsStay ==
  ASSUME OutboxInv, UNCHANGED <<outbox, appended, handled>>
  PROVE  /\ outbox' \in [Seqno -> Row]
         /\ \A s \in Seqno : RowStep(outbox[s], outbox'[s])
         /\ \A s \in Seqno : GoodRow(s, outbox'[s], appended', handled'[s])
<1>1. ASSUME NEW s \in Seqno PROVE RowStep(outbox[s], outbox'[s])
  <2>1. outbox'[s] = outbox[s] /\ outbox[s].lease_epoch \in Nat
    BY InvFacts DEF Row
  <2>. QED
    BY <2>1 DEF RowStep
<1>2. ASSUME NEW s \in Seqno PROVE GoodRow(s, outbox'[s], appended', handled'[s])
  <2>1. GoodRow(s, outbox[s], appended, handled[s])
    BY InvFacts
  <2>2. outbox'[s] = outbox[s] /\ appended' = appended /\ handled'[s] = handled[s]
    OBVIOUS
  <2>. QED
    BY <2>1, <2>2
<1>3. outbox' \in [Seqno -> Row]
  BY DEF OutboxInv, OutboxTypeOK
<1>. QED
  BY <1>1, <1>2, <1>3

-----------------------------------------------------------------------------
(* Rows. *)

(* A row that is not leased any more. *)
LEMMA UnleasedFields ==
  ASSUME NEW r \in Row, NEW t \in {"pending", "delivered", "dead"}
  PROVE  /\ Unleased(r, t) \in Row /\ Unleased(r, t).status = t
         /\ Unleased(r, t).lease_owner = NoConsumer /\ Unleased(r, t).lease_left = NULL
         /\ Unleased(r, t).lease_epoch = r.lease_epoch
         /\ Unleased(r, t).attempts = r.attempts
BY DEF Unleased, Row

(* Expired leases go back to pending, everything else stays. *)
LEMMA ReclaimedGood ==
  ASSUME OutboxInv
  PROVE  /\ Reclaimed \in [Seqno -> Row]
         /\ \A s \in Seqno : /\ RowStep(outbox[s], Reclaimed[s])
                             /\ GoodRow(s, Reclaimed[s], appended, handled[s])
<1>1. ASSUME NEW s \in Seqno
      PROVE  /\ Reclaimed[s] \in Row /\ RowStep(outbox[s], Reclaimed[s])
             /\ GoodRow(s, Reclaimed[s], appended, handled[s])
  <2>. DEFINE u == Unleased(outbox[s], "pending")
              r == [u EXCEPT !.delay = 0]
  <2>1. Reclaimed[s] = IF LeaseExpired(outbox[s]) THEN r ELSE outbox[s]
    BY DEF Reclaimed
  <2>2. /\ u \in Row /\ u.status = "pending" /\ u.lease_owner = NoConsumer
        /\ u.lease_left = NULL /\ u.lease_epoch = outbox[s].lease_epoch
    BY InvFacts, UnleasedFields
  <2>. HIDE DEF u
  <2>3. /\ r \in Row /\ r.status = "pending" /\ r.lease_owner = NoConsumer
        /\ r.lease_left = NULL /\ r.lease_epoch = outbox[s].lease_epoch
    BY <2>2, OutboxAssumption DEF Row
  <2>. HIDE DEF r
  <2>0. /\ outbox[s] \in Row /\ outbox[s].lease_epoch \in Nat
        /\ GoodRow(s, outbox[s], appended, handled[s])
    BY InvFacts DEF Row
  <2>4. CASE LeaseExpired(outbox[s])
    <3>1. outbox[s].status = "leased"
      BY <2>4 DEF LeaseExpired
    <3>2. RowStep(outbox[s], r)
      BY <2>0, <2>3, <3>1 DEF RowStep
    <3>3. GoodRow(s, r, appended, handled[s])
      BY <2>0, <2>3, <3>1 DEF GoodRow
    <3>. QED
      BY <2>1, <2>3, <2>4, <3>2, <3>3
  <2>5. CASE ~LeaseExpired(outbox[s])
    <3>1. RowStep(outbox[s], outbox[s])
      BY <2>0 DEF RowStep
    <3>. QED
      BY <2>0, <2>1, <2>5, <3>1
  <2>. QED
    BY <2>4, <2>5
<1>2. Reclaimed = [s \in Seqno |-> Reclaimed[s]]
  BY DEF Reclaimed
<1>. QED
  BY <1>1, <1>2

-----------------------------------------------------------------------------
(* The transactions on the table. *)

LEMMA AppendInv ==
  ASSUME IInv, append_event
  PROVE  OutboxInv' /\ \A s \in Seqno : RowStep(outbox[s], outbox'[s])
<1>. DEFINE n == appended + 1
            r == [outbox[n] EXCEPT !.status = "pending"]
<1>0. OutboxInv
  BY DEF IInv
<1>1. /\ appended \in 0..MaxEvents /\ n \in Seqno /\ appended' = n
      /\ UNCHANGED <<pump, handled, trail>>
  BY <1>0, OutboxAssumption DEF append_event, OutboxInv, OutboxTypeOK
<1>2. /\ r \in Row /\ r.status = "pending" /\ r.lease_owner = outbox[n].lease_owner
      /\ r.lease_left = outbox[n].lease_left /\ r.lease_epoch = outbox[n].lease_epoch
  BY <1>0, <1>1, InvFacts DEF Row
<1>3. outbox' = [outbox EXCEPT ![n] = r]
  BY DEF append_event
<1>4. outbox[n].status = "absent"
  BY <1>0, <1>1, InvFacts DEF GoodRow
<1>. HIDE DEF n, r
<1>5. outbox' \in [Seqno -> Row]
  BY <1>0, <1>1, <1>2, <1>3, InvFacts
<1>6. \A s \in Seqno : RowStep(outbox[s], outbox'[s])
  <2>1. ASSUME NEW s \in Seqno, s # n PROVE outbox'[s] = outbox[s]
    BY <1>0, <1>3, <2>1, InvFacts
  <2>2. outbox'[n] = r
    BY <1>0, <1>1, <1>3, InvFacts
  <2>3. RowStep(outbox[n], r)
    BY <1>0, <1>1, <1>2, <1>4, InvFacts DEF RowStep, Row
  <2>4. ASSUME NEW s \in Seqno PROVE RowStep(outbox[s], outbox[s])
    BY <1>0, InvFacts DEF RowStep, Row
  <2>. QED
    BY <2>1, <2>2, <2>3, <2>4
<1>7. ASSUME NEW s \in Seqno PROVE GoodRow(s, outbox'[s], appended', handled'[s])
  <2>1. handled' = handled
    BY <1>1
  <2>2. CASE s = n
    BY <1>0, <1>1, <1>2, <1>3, <1>4, <2>1, <2>2, InvFacts, OutboxAssumption DEF GoodRow
  <2>3. CASE s # n
    BY <1>0, <1>1, <1>3, <2>1, <2>3, InvFacts DEF GoodRow, n
  <2>. QED
    BY <2>2, <2>3
<1>8. OutboxTypeOK'
  BY <1>0, <1>1, <1>5 DEF OutboxInv, OutboxTypeOK, pump, trail, n
<1>9. PumpHoldsClaim'
  BY <1>0, <1>1, <1>5, <1>6, ClaimKept DEF OutboxInv, PumpHoldsClaim, pump, Item
<1>. QED
  BY <1>6, <1>7, <1>8, <1>9, InvFromParts

LEMMA RecoverInv ==
  ASSUME IInv, recover_expired_outbox
  PROVE  OutboxInv' /\ \A s \in Seqno : RowStep(outbox[s], outbox'[s])
<1>0. OutboxInv /\ lost \in [Seqno -> Nat]
  BY DEF IInv, OutboxInv, OutboxTypeOK
<1>1. lost' \in [Seqno -> Nat]
  BY <1>0 DEF recover_expired_outbox
<1>. QED
  BY <1>0, <1>1, ReclaimedGood, RowsInv DEF recover_expired_outbox

LEMMA TickInv ==
  ASSUME IInv, Tick
  PROVE  OutboxInv' /\ \A s \in Seqno : RowStep(outbox[s], outbox'[s])
<1>. DEFINE t(s) == [outbox[s] EXCEPT !.lease_left = Countdown(@), !.delay = Countdown(@)]
            r(s) == IF Ages(s) THEN t(s) ELSE outbox[s]
<1>0. OutboxInv
  BY DEF IInv
<1>1. ASSUME NEW s \in Seqno
      PROVE  r(s) \in Row /\ RowStep(outbox[s], r(s)) /\ GoodRow(s, r(s), appended, handled[s])
  <2>0. /\ outbox[s].lease_left \in {NULL} \cup (0..LeaseTTL)
        /\ outbox[s].delay \in 0..RetryDelay
    BY <1>0, InvFacts DEF Row
  <2>1. /\ Countdown(outbox[s].lease_left) \in {NULL} \cup (0..LeaseTTL)
        /\ Countdown(outbox[s].lease_left) = NULL <=> outbox[s].lease_left = NULL
        /\ Countdown(outbox[s].delay) \in 0..RetryDelay
    BY <2>0, OutboxAssumption DEF Countdown
  <2>2. /\ t(s) \in Row /\ t(s).status = outbox[s].status
        /\ t(s).lease_owner = outbox[s].lease_owner
        /\ t(s).lease_left = Countdown(outbox[s].lease_left)
        /\ t(s).lease_epoch = outbox[s].lease_epoch /\ t(s).attempts = outbox[s].attempts
    BY <1>0, <2>1, InvFacts DEF Row
  <2>. HIDE DEF t
  <2>3. t(s) \in Row /\ RowStep(outbox[s], t(s)) /\ GoodRow(s, t(s), appended, handled[s])
    BY <1>0, <2>1, <2>2, InvFacts DEF GoodRow, RowStep, Row
  <2>4. RowStep(outbox[s], outbox[s])
    BY <1>0, InvFacts DEF RowStep, Row
  <2>. QED
    BY <1>0, <2>3, <2>4, InvFacts
<1>2. /\ outbox' = [s \in Seqno |-> r(s)] /\ lost' \in [Seqno -> Nat]
      /\ UNCHANGED <<appended, pump, handled, claimed>>
  BY <1>0 DEF Tick, trail, OutboxInv, OutboxTypeOK
<1>. HIDE DEF r
<1>3. outbox' \in [Seqno -> Row] /\ \A s \in Seqno : outbox'[s] = r(s)
  BY <1>1, <1>2
<1>. QED
  BY <1>0, <1>1, <1>2, <1>3, RowsInv

(* A finite enumeration is a sequence of its length. *)
LEMMA EnumerationIsSeq ==
  ASSUME NEW S, NEW n \in Nat, NEW f \in [1..n -> S]
  PROVE  f \in Seq(S) /\ Len(f) = n
<1>1. f \in Seq(S)
  BY SeqDef
<1>2. Len(f) \in Nat /\ 1..Len(f) = 1..n
  BY <1>1, LenProperties
<1>3. Len(f) = n
  BY <1>2
<1>. QED
  BY <1>1, <1>3

(* A claim takes some pending items and leases each with a new epoch. *)
LEMMA ClaimInv ==
  ASSUME IInv, claim_outbox
  PROVE  OutboxInv' /\ \A s \in Seqno : RowStep(outbox[s], outbox'[s])
<1>. DEFINE rows == Reclaimed
            taken == Claimable(rows)
            n == Cardinality(taken)
            t(s) == [rows[s] EXCEPT !.status = "leased", !.lease_owner = consumer,
                                    !.lease_epoch = @ + 1, !.lease_left = LeaseTTL,
                                    !.attempts = @ + 1]
<1>0. OutboxInv
  BY DEF IInv
<1>1. PICK q \in Ordered(taken) :
        batch' = [i \in 1..n |-> [seq |-> q[i], epoch |-> rows[q[i]].lease_epoch + 1]]
  BY DEF claim_outbox
<1>2. /\ consumer # NoConsumer /\ taken # {} /\ pc' = "delivering" /\ next' = 1
      /\ outbox' = [s \in Seqno |-> IF s \in taken THEN t(s) ELSE rows[s]]
      /\ UNCHANGED <<appended, consumer, spent, handled, lost>>
  BY DEF claim_outbox
<1>3. taken \subseteq Seqno /\ \A s \in taken : rows[s].status = "pending"
  BY DEF Claimable
<1>4. n \in Nat /\ n > 0 /\ q \in [1..n -> taken]
  <2>1. IsFiniteSet(Seqno)
    BY OutboxAssumption, FS_Interval
  <2>2. IsFiniteSet(taken)
    BY <1>3, <2>1, FS_Subset
  <2>3. n \in Nat /\ (n = 0 <=> taken = {})
    BY <2>2, FS_CardinalityType, FS_EmptySet
  <2>. HIDE DEF taken
  <2>4. q \in [1..n -> taken]
    BY <1>1 DEF Ordered
  <2>5. taken # {}
    BY <1>2
  <2>. HIDE DEF n
  <2>6. n > 0
    BY <2>3, <2>5
  <2>. QED
    BY <2>3, <2>4, <2>6
<1>5. /\ rows \in [Seqno -> Row]
      /\ \A s \in Seqno : /\ RowStep(outbox[s], rows[s])
                          /\ GoodRow(s, rows[s], appended, handled[s])
  BY <1>0, ReclaimedGood
<1>6. consumer \in Consumer
  BY <1>0, <1>2 DEF OutboxInv, OutboxTypeOK
<1>. HIDE DEF rows, taken, n
<1>7. ASSUME NEW s \in taken
      PROVE  /\ t(s) \in Row /\ t(s).lease_epoch = rows[s].lease_epoch + 1
             /\ RowStep(outbox[s], t(s)) /\ GoodRow(s, t(s), appended, handled[s])
  <2>. DEFINE e == rows[s].lease_epoch + 1
              a == rows[s].attempts + 1
  <2>0. rows[s] \in Row /\ s \in Seqno
    BY <1>3, <1>5
  <2>1. /\ e \in Nat /\ a \in Nat
        /\ LeaseTTL \in {NULL} \cup (0..LeaseTTL) /\ LeaseTTL # NULL
    BY <2>0, OutboxAssumption DEF Row
  <2>2. t(s) = [rows[s] EXCEPT !.status = "leased", !.lease_owner = consumer,
                               !.lease_epoch = e, !.lease_left = LeaseTTL, !.attempts = a]
    OBVIOUS
  <2>. HIDE DEF e, a, t
  <2>3. /\ t(s) \in Row /\ t(s).status = "leased" /\ t(s).lease_owner = consumer
        /\ t(s).lease_epoch = e /\ t(s).lease_left = LeaseTTL
    <3>. HIDE DEF NULL
    <3>1. t(s) \in Row
      BY ONLY <1>6, <2>0, <2>1, <2>2 DEF Row
    <3>. QED
      BY ONLY <3>1, <2>0, <2>2 DEF Row
  <2>4. RowStep(outbox[s], t(s))
    <3>1. RowStep(outbox[s], rows[s]) /\ rows[s].status = "pending"
      BY <1>3, <1>5, <2>0
    <3>2. outbox[s].lease_epoch \in Nat /\ rows[s].lease_epoch \in Nat
      BY <1>0, <2>0, InvFacts DEF Row
    <3>. QED
      BY <2>3, <3>1, <3>2 DEF RowStep, e
  <2>5. GoodRow(s, t(s), appended, handled[s])
    <3>1. ~(s > appended)
      BY <1>3, <1>5, <2>0 DEF GoodRow
    <3>. QED
      BY <1>2, <2>1, <2>3, <3>1 DEF GoodRow
  <2>. QED
    BY <2>3, <2>4, <2>5 DEF e
<1>. HIDE DEF t
<1>8. outbox' \in [Seqno -> Row]
  BY <1>2, <1>5, <1>7
<1>9. \A s \in Seqno : RowStep(outbox[s], outbox'[s])
  BY <1>2, <1>5, <1>7
<1>10. \A s \in Seqno : GoodRow(s, outbox'[s], appended', handled'[s])
  BY <1>2, <1>5, <1>7
<1>11. ASSUME NEW i \in 1..n
       PROVE  /\ batch'[i] \in Claim
              /\ batch'[i].epoch <= outbox'[batch'[i].seq].lease_epoch
  <2>1. q[i] \in taken /\ q[i] \in Seqno
    BY <1>3, <1>4
  <2>2. rows[q[i]].lease_epoch + 1 \in Nat
    BY <1>5, <2>1 DEF Row
  <2>3. batch'[i] = [seq |-> q[i], epoch |-> rows[q[i]].lease_epoch + 1]
    BY <1>1
  <2>4. outbox'[q[i]].lease_epoch = rows[q[i]].lease_epoch + 1
    BY <1>2, <1>7, <2>1
  <2>. QED
    BY <2>1, <2>2, <2>3, <2>4 DEF Claim
<1>12. batch' \in Seq(Claim) /\ Len(batch') = n
  <2>1. batch' \in [1..n -> Claim]
    BY <1>1, <1>11
  <2>. QED
    BY <1>4, <2>1, EnumerationIsSeq
<1>13. batch' # <<>>
  BY <1>4, <1>12
<1>16. claimed' \subseteq Seqno
  BY <1>11, <1>12 DEF claim_outbox, Claim
<1>14. OutboxTypeOK'
  BY <1>0, <1>2, <1>8, <1>12, <1>16, OutboxAssumption DEF OutboxInv, OutboxTypeOK, Claim
<1>15. PumpHoldsClaim'
  BY <1>2, <1>11, <1>12, <1>13, OutboxAssumption DEF PumpHoldsClaim
<1>. QED
  BY <1>9, <1>10, <1>14, <1>15, InvFromParts

-----------------------------------------------------------------------------
(* The pump. *)

(* What is left of a claim is as old as it was. *)
LEMMA ContinuesPump ==
  ASSUME OutboxInv, pc # "idle", consumer' = consumer, BatchContinues,
         outbox' \in [Seqno -> Row], \A s \in Seqno : RowStep(outbox[s], outbox'[s])
  PROVE  /\ PumpHoldsClaim' /\ batch' \in Seq(Claim)
         /\ pc' \in {"idle", "delivering"} /\ next' \in 1..(Handlers + 1)
<1>1. batch \in Seq(Claim) /\ batch # <<>>
  BY ClaimFacts
<1>2. /\ Tail(batch) \in Seq(Claim) /\ Len(Tail(batch)) = Len(batch) - 1
      /\ \A i \in 1..Len(Tail(batch)) : Tail(batch)[i] = batch[i+1]
  BY <1>1, HeadTailProperties
<1>3. Len(batch) \in Nat
  BY ClaimFacts
<1>4. ASSUME NEW i \in 1..Len(batch')
      PROVE  batch'[i].epoch <= outbox'[batch'[i].seq].lease_epoch
  <2>1. batch'[i] = batch[i+1] /\ i + 1 \in 1..Len(batch)
    BY <1>2, <1>3 DEF BatchContinues
  <2>. QED
    BY <2>1, ClaimKept
<1>5. consumer # NoConsumer
  BY DEF OutboxInv, PumpHoldsClaim
<1>. QED
  BY <1>2, <1>4, <1>5, OutboxAssumption DEF BatchContinues, PumpHoldsClaim

LEMMA AbandonedPump ==
  ASSUME BatchAbandoned
  PROVE  /\ PumpHoldsClaim' /\ batch' \in Seq(Claim)
         /\ pc' = "idle" /\ next' \in 1..(Handlers + 1)
<1>1. Len(batch') = 0 /\ batch' \in Seq(Claim)
  BY EmptySeq DEF BatchAbandoned
<1>. QED
  BY <1>1, OutboxAssumption DEF BatchAbandoned, PumpHoldsClaim

LEMMA DeliverInv ==
  ASSUME IInv, deliver
  PROVE  OutboxInv' /\ \A s \in Seqno : RowStep(outbox[s], outbox'[s])
<1>0. OutboxInv
  BY DEF IInv
<1>1. /\ pc = "delivering" /\ next \in 1..Handlers /\ Item.seq \in Seqno
      /\ UNCHANGED <<outbox, appended, consumer, spent, batch, trail>>
  BY <1>0, ClaimFacts DEF deliver, OutboxInv, OutboxTypeOK, PumpHoldsClaim
<1>2. /\ handled' \in [Seqno -> 0..Handlers]
      /\ \A s \in Seqno : handled'[s] >= handled[s]
      /\ next' \in 1..(Handlers + 1) /\ pc' \in {"delivering", "acking", "rejecting"}
      /\ pc' = "delivering" => next' <= Handlers
      /\ pc' = "acking" => handled'[Item.seq] = Handlers
  <2>1. CASE /\ handled' = [handled EXCEPT ![Item.seq] = IF @ < next THEN next ELSE @]
             /\ next' = next + 1
             /\ pc' = IF next = Handlers THEN "acking" ELSE "delivering"
    <3>. DEFINE h == IF handled[Item.seq] < next THEN next ELSE handled[Item.seq]
    <3>1. h \in 0..Handlers /\ h >= handled[Item.seq] /\ h >= next
      BY <1>0, <1>1, InvFacts
    <3>2. handled' = [handled EXCEPT ![Item.seq] = h]
      BY <2>1
    <3>. HIDE DEF h
    <3>3. handled \in [Seqno -> 0..Handlers]
      BY <1>0 DEF OutboxInv, OutboxTypeOK
    <3>4. /\ handled' \in [Seqno -> 0..Handlers] /\ handled'[Item.seq] = h
          /\ \A s \in Seqno : handled'[s] >= handled[s]
      BY <1>1, <3>1, <3>2, <3>3
    <3>5. pc' = "acking" => handled'[Item.seq] = Handlers
      BY <1>1, <2>1, <3>1, <3>4, OutboxAssumption
    <3>. QED
      BY <1>1, <2>1, <3>4, <3>5, OutboxAssumption
  <2>2. CASE pc' = "rejecting" /\ UNCHANGED <<handled, next>>
    BY <1>0, <1>1, <2>2, InvFacts
  <2>. QED
    BY <2>1, <2>2 DEF deliver
<1>3. \A s \in Seqno : GoodRow(s, outbox'[s], appended', handled'[s])
  BY <1>0, <1>1, <1>2, InvFacts DEF GoodRow
<1>4. OutboxTypeOK'
  BY <1>0, <1>1, <1>2 DEF OutboxInv, OutboxTypeOK, trail
<1>5. PumpHoldsClaim'
  BY <1>0, <1>1, <1>2 DEF OutboxInv, PumpHoldsClaim, Item
<1>6. \A s \in Seqno : RowStep(outbox[s], outbox'[s])
  BY <1>0, <1>1, InvFacts DEF RowStep, Row
<1>. QED
  BY <1>3, <1>4, <1>5, <1>6, InvFromParts

(* One row of the item in hand is released with a good outcome. *)
LEMMA ItemReleased ==
  ASSUME OutboxInv, pc # "idle", OwnsItem(consumer, Item.seq, Item.epoch),
         NEW r \in Row, outbox' = [outbox EXCEPT ![Item.seq] = r],
         UNCHANGED <<appended, handled>>,
         r.status \in {"pending", "delivered", "dead"},
         r.lease_owner = NoConsumer, r.lease_left = NULL,
         r.lease_epoch = outbox[Item.seq].lease_epoch,
         r.status = "delivered" => handled[Item.seq] = Handlers,
         r.status = "dead" => r.attempts >= MaxAttempts
  PROVE  /\ outbox' \in [Seqno -> Row]
         /\ \A s \in Seqno : RowStep(outbox[s], outbox'[s])
         /\ \A s \in Seqno : GoodRow(s, outbox'[s], appended', handled'[s])
<1>1. Item.seq \in Seqno /\ outbox[Item.seq].status = "leased"
  BY ClaimFacts DEF OwnsItem
<1>2. RowStep(outbox[Item.seq], r)
  BY <1>1, InvFacts DEF RowStep, Row
<1>3. GoodRow(Item.seq, r, appended, handled[Item.seq])
  BY <1>1, InvFacts DEF GoodRow
<1>4. \A s \in Seqno : RowStep(outbox[s], outbox[s])
  BY InvFacts DEF RowStep, Row
<1>. QED
  BY <1>1, <1>2, <1>3, <1>4, InvFacts

LEMMA AckInv ==
  ASSUME IInv, acknowledge_outbox
  PROVE  OutboxInv' /\ \A s \in Seqno : RowStep(outbox[s], outbox'[s])
<1>0. OutboxInv
  BY DEF IInv
<1>1. pc = "acking" /\ UNCHANGED <<appended, consumer, spent, handled, trail>>
  BY DEF acknowledge_outbox
<1>2. Item.seq \in Seqno /\ outbox[Item.seq] \in Row /\ handled[Item.seq] = Handlers
  BY <1>0, <1>1, ClaimFacts, InvFacts DEF OutboxInv, PumpHoldsClaim
<1>3. CASE /\ OwnsItem(consumer, Item.seq, Item.epoch)
           /\ outbox' = [outbox EXCEPT ![Item.seq] = Unleased(@, "delivered")]
           /\ BatchContinues
  <2>. DEFINE r == Unleased(outbox[Item.seq], "delivered")
  <2>1. /\ r \in Row /\ r.status = "delivered" /\ r.lease_owner = NoConsumer
        /\ r.lease_left = NULL /\ r.lease_epoch = outbox[Item.seq].lease_epoch
    BY <1>2, UnleasedFields
  <2>2. outbox' = [outbox EXCEPT ![Item.seq] = r]
    BY <1>3
  <2>. HIDE DEF r
  <2>3. /\ outbox' \in [Seqno -> Row]
        /\ \A s \in Seqno : RowStep(outbox[s], outbox'[s])
        /\ \A s \in Seqno : GoodRow(s, outbox'[s], appended', handled'[s])
    BY <1>0, <1>1, <1>2, <1>3, <2>1, <2>2, ItemReleased
  <2>4. /\ PumpHoldsClaim' /\ batch' \in Seq(Claim)
        /\ pc' \in {"idle", "delivering"} /\ next' \in 1..(Handlers + 1)
    BY <1>0, <1>1, <1>3, <2>3, ContinuesPump
  <2>5. OutboxTypeOK'
    BY <1>0, <1>1, <2>3, <2>4 DEF OutboxInv, OutboxTypeOK, Claim, trail
  <2>. QED
    BY <2>3, <2>4, <2>5, InvFromParts
<1>4. CASE BatchAbandoned /\ UNCHANGED outbox
  <2>1. OutboxTypeOK'
    BY <1>0, <1>1, <1>4, AbandonedPump DEF OutboxInv, OutboxTypeOK, Claim, trail
  <2>2. \A s \in Seqno : RowStep(outbox[s], outbox'[s])
                         /\ GoodRow(s, outbox'[s], appended', handled'[s])
    BY <1>0, <1>1, <1>4, RowsStay
  <2>. QED
    BY <1>4, <2>1, <2>2, AbandonedPump, InvFromParts
<1>. QED
  BY <1>3, <1>4 DEF acknowledge_outbox

LEMMA RejectInv ==
  ASSUME IInv, reject_outbox
  PROVE  OutboxInv' /\ \A s \in Seqno : RowStep(outbox[s], outbox'[s])
<1>0. OutboxInv
  BY DEF IInv
<1>1. /\ pc = "rejecting" /\ BatchAbandoned
      /\ UNCHANGED <<appended, consumer, spent, handled, trail>>
  BY DEF reject_outbox
<1>2. Item.seq \in Seqno /\ outbox[Item.seq] \in Row
  BY <1>0, <1>1, ClaimFacts, InvFacts
<1>3. /\ outbox' \in [Seqno -> Row]
      /\ \A s \in Seqno : RowStep(outbox[s], outbox'[s])
      /\ \A s \in Seqno : GoodRow(s, outbox'[s], appended', handled'[s])
  <2>1. CASE UNCHANGED outbox
    BY <1>0, <1>1, <2>1, RowsStay
  <2>2. CASE ~UNCHANGED outbox
    <3>. DEFINE dead == outbox[Item.seq].attempts >= MaxAttempts
                t == IF dead THEN "dead" ELSE "pending"
                d == IF dead THEN 0 ELSE RetryDelay
                u == Unleased(outbox[Item.seq], t)
                r == [u EXCEPT !.delay = d]
    <3>1. /\ outbox' = [outbox EXCEPT ![Item.seq] = r]
          /\ OwnsItem(consumer, Item.seq, Item.epoch)
      BY <2>2 DEF reject_outbox
    <3>2. t \in {"pending", "delivered", "dead"} /\ t # "delivered" /\ d \in 0..RetryDelay
      BY OutboxAssumption
    <3>3. t = "dead" => outbox[Item.seq].attempts >= MaxAttempts
      OBVIOUS
    <3>. HIDE DEF t, d
    <3>4. /\ u \in Row /\ u.status = t /\ u.lease_owner = NoConsumer /\ u.lease_left = NULL
          /\ u.lease_epoch = outbox[Item.seq].lease_epoch
          /\ u.attempts = outbox[Item.seq].attempts
      BY <1>2, <3>2, UnleasedFields
    <3>. HIDE DEF u
    <3>5. /\ r \in Row /\ r.status = t /\ r.lease_owner = NoConsumer /\ r.lease_left = NULL
          /\ r.lease_epoch = outbox[Item.seq].lease_epoch
          /\ r.attempts = outbox[Item.seq].attempts
      BY <3>2, <3>4 DEF Row
    <3>. HIDE DEF r
    <3>. QED
      BY <1>0, <1>1, <2>2, <3>1, <3>2, <3>3, <3>5, ItemReleased
  <2>. QED
    BY <2>1, <2>2
<1>4. OutboxTypeOK'
  BY <1>0, <1>1, <1>3, AbandonedPump DEF OutboxInv, OutboxTypeOK, Claim, trail
<1>. QED
  BY <1>1, <1>3, <1>4, AbandonedPump, InvFromParts

LEMMA ProcessInv ==
  ASSUME IInv, (\E c \in Consumer : start(c)) \/ stop
  PROVE  OutboxInv' /\ \A s \in Seqno : RowStep(outbox[s], outbox'[s])
<1>0. OutboxInv
  BY DEF IInv
<1>1. UNCHANGED <<outbox, appended, handled, trail>>
  BY DEF start, stop
<1>2. \A s \in Seqno : RowStep(outbox[s], outbox'[s])
                       /\ GoodRow(s, outbox'[s], appended', handled'[s])
  BY <1>0, <1>1, RowsStay
<1>3. ASSUME NEW c \in Consumer, start(c) PROVE OutboxInv'
  <2>1. OutboxTypeOK' /\ PumpHoldsClaim'
    BY <1>0, <1>1, <1>3, OutboxAssumption
       DEF start, OutboxInv, OutboxTypeOK, PumpHoldsClaim, Item, trail
  <2>. QED
    BY <1>2, <2>1, InvFromParts
<1>4. ASSUME stop PROVE OutboxInv'
  <2>1. BatchAbandoned /\ consumer' = NoConsumer /\ spent' = spent
    BY <1>4 DEF stop
  <2>2. OutboxTypeOK'
    BY <1>0, <1>1, <2>1, AbandonedPump DEF OutboxInv, OutboxTypeOK, Claim, trail
  <2>. QED
    BY <1>2, <2>1, <2>2, AbandonedPump, InvFromParts
<1>. QED
  BY <1>2, <1>3, <1>4

(* Nothing happens. *)
LEMMA StutterInv ==
  ASSUME IInv, UNCHANGED outvars
  PROVE  OutboxInv' /\ \A s \in Seqno : RowStep(outbox[s], outbox'[s])
<1>0. OutboxInv
  BY DEF IInv
<1>1. OutboxTypeOK'
  BY DEF IInv, OutboxInv, OutboxTypeOK, outvars, pump, trail
<1>2. PumpHoldsClaim'
  BY <1>0 DEF OutboxInv, PumpHoldsClaim, Item, outvars, pump
<1>3. \A s \in Seqno : RowStep(outbox[s], outbox'[s])
                       /\ GoodRow(s, outbox'[s], appended', handled'[s])
  BY <1>0, RowsStay DEF outvars
<1>. QED
  BY <1>1, <1>2, <1>3, InvFromParts

LEMMA NextOutboxInv ==
  ASSUME IInv, [OutboxNext]_outvars
  PROVE  OutboxInv' /\ \A s \in Seqno : RowStep(outbox[s], outbox'[s])
<1>1. CASE append_event
  BY <1>1, AppendInv
<1>2. CASE recover_expired_outbox
  BY <1>2, RecoverInv
<1>3. CASE claim_outbox
  BY <1>3, ClaimInv
<1>4. CASE deliver
  BY <1>4, DeliverInv
<1>5. CASE acknowledge_outbox
  BY <1>5, AckInv
<1>6. CASE reject_outbox
  BY <1>6, RejectInv
<1>7. CASE (\E c \in Consumer : start(c)) \/ stop
  BY <1>7, ProcessInv
<1>8. CASE Tick
  BY <1>8, TickInv
<1>9. CASE UNCHANGED outvars
  BY <1>9, StutterInv
<1>. QED
  BY <1>1, <1>2, <1>3, <1>4, <1>5, <1>6, <1>7, <1>8, <1>9 DEF OutboxNext

-----------------------------------------------------------------------------
(* The order within a claim. *)

(* A step that delivers nothing and leaves the claim as it is, or gives it *)
(* up.                                                                     *)
LEMMA OrderKept ==
  ASSUME IInv, claimed' = claimed, claimed \subseteq Seqno,
         \A s \in Seqno : outbox'[s].status = "delivered" <=> outbox[s].status = "delivered",
         \/ batch' = batch /\ (pc' # "idle" => pc # "idle")
         \/ BatchAbandoned
  PROVE  ClaimInOrder' /\ AcknowledgedInOrder'
<1>1. AcknowledgedInOrder'
  BY DEF IInv, AcknowledgedInOrder
<1>2. CASE batch' = batch /\ (pc' # "idle" => pc # "idle")
  <2>1. InDispatch' = InDispatch
    BY <1>2 DEF InDispatch
  <2>2. pc' # "idle" =>
          \A s \in claimed : outbox'[s].status = "delivered" \/ s \in InDispatch'
    BY <1>2, <2>1 DEF IInv, ClaimInOrder
  <2>3. /\ \A i \in 1..Len(batch) : batch[i].seq \in claimed
        /\ \A i, k \in 1..Len(batch) : i < k => batch[i].seq < batch[k].seq
    BY DEF IInv, ClaimInOrder
  <2>. QED
    BY <1>1, <1>2, <2>2, <2>3 DEF ClaimInOrder
<1>3. CASE BatchAbandoned
  <2>1. batch' = <<>> /\ pc' = "idle" /\ Len(<<>>) = 0
    BY <1>3 DEF BatchAbandoned
  <2>2. 1..Len(batch') = {}
    BY <2>1
  <2>. QED
    BY <1>1, <2>1, <2>2 DEF ClaimInOrder
<1>. QED
  BY <1>1, <1>2, <1>3

(* A new claim, whose items are all leased. *)
LEMMA ClaimOrder ==
  ASSUME IInv, claim_outbox
  PROVE  ClaimInOrder' /\ AcknowledgedInOrder'
<1>. DEFINE rows == Reclaimed
            taken == Claimable(rows)
            n == Cardinality(taken)
<1>1. PICK q \in Ordered(taken) :
        batch' = [i \in 1..n |-> [seq |-> q[i], epoch |-> rows[q[i]].lease_epoch + 1]]
  BY DEF claim_outbox
<1>2. /\ q \in [1..n -> taken]
      /\ \A i, k \in 1..n : i < k => q[i] < q[k]
  BY DEF Ordered
<1>3. taken \subseteq Seqno
  BY DEF Claimable
<1>4. \A s \in taken : outbox'[s].status = "leased"
  <2>1. rows \in [Seqno -> Row]
    BY ReclaimedGood DEF IInv
  <2>. HIDE DEF rows
  <2>. QED
    BY <1>3, <2>1 DEF claim_outbox, rows, Row
<1>5. Len(batch') = n /\ \A i \in 1..n : batch'[i].seq = q[i]
  <2>1. OutboxInv /\ OutboxInv'
    BY ClaimInv DEF IInv
  <2>2. n \in Nat
    <3>1. IsFiniteSet(Seqno)
      BY OutboxAssumption, FS_Interval
    <3>. QED
      BY <1>3, <3>1, FS_Subset, FS_CardinalityType
  <2>3. \A i \in 1..n : batch'[i] = [seq |-> q[i], epoch |-> rows[q[i]].lease_epoch + 1]
    BY <1>1
  <2>4. batch' \in [1..n -> {batch'[i] : i \in 1..n}]
    BY <1>1
  <2>. HIDE DEF n
  <2>5. Len(batch') = n
    BY <2>2, <2>4, EnumerationIsSeq
  <2>. QED
    BY <2>3, <2>5
<1>. HIDE DEF n, rows, taken
<1>6. claimed' = {batch'[i].seq : i \in 1..Len(batch')}
  BY DEF claim_outbox
<1>7. claimed' \subseteq taken
  BY <1>2, <1>5, <1>6
<1>8. AcknowledgedInOrder'
  BY <1>4, <1>7 DEF AcknowledgedInOrder
<1>9. ClaimInOrder'
  BY <1>2, <1>5, <1>6 DEF ClaimInOrder, InDispatch
<1>. QED
  BY <1>8, <1>9

(* The item acknowledged is the first of those left. *)
LEMMA AckOrder ==
  ASSUME IInv, acknowledge_outbox
  PROVE  ClaimInOrder' /\ AcknowledgedInOrder'
<1>0. OutboxInv /\ ClaimInOrder /\ AcknowledgedInOrder /\ claimed \subseteq Seqno
  BY DEF IInv, OutboxInv, OutboxTypeOK
<1>1. pc = "acking" /\ claimed' = claimed
  BY DEF acknowledge_outbox, trail
<1>2. CASE BatchAbandoned /\ UNCHANGED outbox
  BY <1>0, <1>1, <1>2, OrderKept
<1>3. CASE /\ OwnsItem(consumer, Item.seq, Item.epoch)
           /\ outbox' = [outbox EXCEPT ![Item.seq] = Unleased(@, "delivered")]
           /\ BatchContinues
  <2>1. /\ batch \in Seq(Claim) /\ batch # <<>> /\ Item = batch[1] /\ Item.seq \in Seqno
        /\ Len(batch) \in Nat /\ Len(batch) > 0
        /\ \A i \in 1..Len(batch) : batch[i].seq \in Seqno
    BY <1>0, <1>1, ClaimFacts
  <2>2. /\ Len(batch') = Len(batch) - 1
        /\ \A i \in 1..Len(batch') : batch'[i] = batch[i+1]
    BY <1>3, <2>1, HeadTailProperties DEF BatchContinues
  <2>3. /\ outbox'[Item.seq].status = "delivered"
        /\ \A s \in Seqno : s # Item.seq => outbox'[s] = outbox[s]
    BY <1>0, <1>3, <2>1, InvFacts, UnleasedFields
  <2>4. \A s \in claimed : s < Item.seq => outbox[s].status = "delivered"
    <3>1. \A s \in InDispatch : ~(s < Item.seq)
      BY <1>0, <2>1 DEF InDispatch, ClaimInOrder
    <3>. QED
      BY <1>0, <1>1, <3>1 DEF ClaimInOrder
  <2>5. AcknowledgedInOrder'
    BY <1>0, <1>1, <2>3, <2>4 DEF AcknowledgedInOrder
  <2>6. \A s \in claimed : outbox'[s].status = "delivered" \/ s \in InDispatch'
    <3>1. SUFFICES ASSUME NEW s \in claimed, s # Item.seq, outbox[s].status # "delivered"
                   PROVE  s \in InDispatch'
      BY <1>0, <2>3
    <3>2. PICK i \in 1..Len(batch) : s = batch[i].seq
      BY <1>0, <1>1, <3>1 DEF ClaimInOrder, InDispatch
    <3>3. i # 1 /\ i - 1 \in 1..Len(batch') /\ (i - 1) + 1 = i
      BY <2>1, <2>2, <3>1, <3>2
    <3>4. batch'[i - 1] = batch[i]
      BY <2>2, <3>3
    <3>. QED
      BY <3>2, <3>3, <3>4 DEF InDispatch
  <2>7. \A i \in 1..Len(batch') : i + 1 \in 1..Len(batch)
    BY <2>1, <2>2
  <2>8. \A i \in 1..Len(batch') : batch'[i].seq \in claimed
    BY <1>0, <2>2, <2>7 DEF ClaimInOrder
  <2>9. \A i, k \in 1..Len(batch') : i < k => batch'[i].seq < batch'[k].seq
    <3>. SUFFICES ASSUME NEW i \in 1..Len(batch'), NEW k \in 1..Len(batch'), i < k
                  PROVE  batch'[i].seq < batch'[k].seq
      OBVIOUS
    <3>1. i + 1 \in 1..Len(batch) /\ k + 1 \in 1..Len(batch) /\ i + 1 < k + 1
      BY <2>1, <2>2
    <3>2. batch[i + 1].seq < batch[k + 1].seq
      BY <1>0, <3>1 DEF ClaimInOrder
    <3>. QED
      BY <2>2, <3>2
  <2>. QED
    BY <1>1, <2>5, <2>6, <2>8, <2>9 DEF ClaimInOrder
<1>. QED
  BY <1>2, <1>3 DEF acknowledge_outbox

LEMMA NextOrder ==
  ASSUME IInv, [OutboxNext]_outvars
  PROVE  ClaimInOrder' /\ AcknowledgedInOrder'
<1>0. OutboxInv /\ claimed \subseteq Seqno /\ outbox \in [Seqno -> Row]
  BY DEF IInv, OutboxInv, OutboxTypeOK
<1>1. CASE append_event
  <2>1. appended + 1 \in Seqno /\ outbox[appended + 1].status = "absent"
    <3>1. appended + 1 \in Seqno /\ appended + 1 > appended
      BY <1>0, <1>1, OutboxAssumption DEF append_event, OutboxInv, OutboxTypeOK
    <3>. QED
      BY <1>0, <3>1 DEF OutboxInv, RowsMatchLog
  <2>2. \A s \in Seqno : outbox'[s].status = "delivered" <=> outbox[s].status = "delivered"
    BY <1>0, <1>1, <2>1 DEF append_event, Row
  <2>. QED
    BY <1>0, <1>1, <2>2, OrderKept DEF append_event, pump, trail
<1>2. CASE recover_expired_outbox
  <2>1. \A s \in Seqno : outbox'[s].status = "delivered" <=> outbox[s].status = "delivered"
    BY <1>0, <1>2 DEF recover_expired_outbox, Reclaimed, LeaseExpired, Unleased, Row
  <2>. QED
    BY <1>0, <1>2, <2>1, OrderKept DEF recover_expired_outbox, pump
<1>3. CASE claim_outbox
  BY <1>3, ClaimOrder
<1>4. CASE deliver
  BY <1>0, <1>4, OrderKept DEF deliver, trail
<1>5. CASE acknowledge_outbox
  BY <1>5, AckOrder
<1>6. CASE reject_outbox
  <2>1. Item.seq \in Seqno /\ claimed' = claimed /\ BatchAbandoned
    BY <1>0, <1>6, ClaimFacts DEF reject_outbox, trail
  <2>2. \A s \in Seqno : outbox'[s].status = "delivered" <=> outbox[s].status = "delivered"
    <3>1. CASE UNCHANGED outbox
      BY <3>1
    <3>2. CASE ~UNCHANGED outbox
      <4>. DEFINE r == [Unleased(outbox[Item.seq],
                                 IF outbox[Item.seq].attempts >= MaxAttempts
                                 THEN "dead" ELSE "pending")
                         EXCEPT !.delay = IF outbox[Item.seq].attempts >= MaxAttempts
                                          THEN 0 ELSE RetryDelay]
      <4>1. outbox' = [outbox EXCEPT ![Item.seq] = r] /\ outbox[Item.seq].status = "leased"
        BY <1>6, <3>2 DEF reject_outbox, OwnsItem
      <4>2. r.status # "delivered"
        BY <1>0, <2>1 DEF Unleased, Row
      <4>. HIDE DEF r
      <4>. QED
        BY <1>0, <2>1, <4>1, <4>2
    <3>. QED
      BY <3>1, <3>2
  <2>. QED
    BY <1>0, <2>1, <2>2, OrderKept
<1>7. CASE (\E c \in Consumer : start(c)) \/ stop
  BY <1>0, <1>7, OrderKept DEF start, stop, trail
<1>8. CASE Tick
  <2>1. \A s \in Seqno : outbox'[s].status = "delivered" <=> outbox[s].status = "delivered"
    BY <1>0, <1>8 DEF Tick, Row
  <2>. QED
    BY <1>0, <1>8, <2>1, OrderKept DEF Tick, pump, trail
<1>9. CASE UNCHANGED outvars
  BY <1>0, <1>9, OrderKept DEF outvars, pump, trail
<1>. QED
  BY <1>1, <1>2, <1>3, <1>4, <1>5, <1>6, <1>7, <1>8, <1>9 DEF OutboxNext

LEMMA NextInv ==
  ASSUME IInv, [OutboxNext]_outvars
  PROVE  IInv' /\ \A s \in Seqno : RowStep(outbox[s], outbox'[s])
BY NextOutboxInv, NextOrder DEF IInv

LEMMA Invariance == OutboxSpec => []IInv
<1>1. IInv /\ [OutboxNext]_outvars => IInv'
  BY NextInv
<1>. QED
  BY InitInv, <1>1, PTL DEF OutboxSpec

-----------------------------------------------------------------------------
(* Whatever the order of appends, claims, expiries, failing handlers and   *)
(* restarts: the rows match the log and are leased exactly while they name *)
(* an owner and an expiry, the pump holds no claim newer than its rows, an *)
(* event leaves the outbox as delivered only after every handler returned  *)
(* for it, and is given up only after at least max_attempts claims         *)
(* (append_event, claim_outbox, acknowledge_outbox, reject_outbox).        *)
THEOREM OutboxInvariant == OutboxSpec => []OutboxInv
<1>1. IInv => OutboxInv
  BY DEF IInv
<1>. QED
  BY <1>1, Invariance, PTL

(* For any claims, failures, lost leases and restarts, an event of a claim *)
(* is delivered only when the earlier events of that claim are             *)
(* (dispatch_once's break after a rejection, and LeaseLost leaving it).    *)
THEOREM DeliveryInOrder == OutboxSpec => []AcknowledgedInOrder
<1>1. IInv => AcknowledgedInOrder
  BY DEF IInv
<1>. QED
  BY <1>1, Invariance, PTL

(* An item that was delivered or given up is never claimed, delivered or   *)
(* recovered again, although its claim may live on in a pump whose lease   *)
(* was lost.                                                               *)
SettledStaysSettled ==
  [][\A s \in Seqno : outbox[s].status \in {"delivered", "dead"}
                        => outbox'[s].status = outbox[s].status]_outvars

(* Every step of the model keeps delivered and dead items as they are.     *)
THEOREM SettledFinal == OutboxSpec => SettledStaysSettled
<1>1. IInv /\ [OutboxNext]_outvars
        => [\A s \in Seqno : outbox[s].status \in {"delivered", "dead"}
                               => outbox'[s].status = outbox[s].status]_outvars
  BY NextInv DEF RowStep
<1>. QED
  BY <1>1, Invariance, PTL DEF OutboxSpec, SettledStaysSettled

-----------------------------------------------------------------------------
(* Part II: questions to the user                                            *)

HIDE DEF Seqno, NULL
USE DEF INTERACTION_STATES, INTERACTION_TERMINAL_STATES

(* What everybody was told is true, and only outcomes are told.            *)
ToldInv ==
  /\ EveryoneIsToldTheOutcome
  /\ \A q \in Question : tool[q].result # None => terminal(q)

(* A call that ended left its question resolved.                           *)
EndedIsResolved == \A q \in Question : tool[q].pc = "done" => terminal(q)

QuestionsInv ==
  InteractionsTypeOK /\ WrittenTwice /\ CallKnowsItsRow /\ EndedIsResolved /\ ToldInv

(* A row may be created and resolved, and nothing else.                    *)
QuestionStep(r, s) ==
  \/ s = r
  \/ /\ r.status = "absent" /\ s.status = "open" /\ s.version = 1
  \/ /\ r.status = "open" /\ s.status \in INTERACTION_TERMINAL_STATES
     /\ s.version = r.version + 1

(* What the invariant says of a call t and the row r of its question.      *)
GoodCall(t, r) ==
  /\ t.pc # "idle" => r.status # "absent"
  /\ t.pc \in {"expired", "retiring"} => t.version = 1
  /\ t.pc = "done" => r.status \in INTERACTION_TERMINAL_STATES
  /\ t.result # None => t.result = r /\ r.status \in INTERACTION_TERMINAL_STATES

GoodQuestion(r) ==
  /\ r.status = "absent" => r.version = 0
  /\ r.status = "open" => r.version = 1
  /\ r.status \in INTERACTION_TERMINAL_STATES => r.version = 2

(* A reply r the user was told of is the outcome of its question's row s.  *)
TrueReply(r, s) == s.status = r.status /\ s.response = r.response

LEMMA QuestionsInit == InteractionsInit => QuestionsInv
<1>. SUFFICES ASSUME InteractionsInit PROVE QuestionsInv
  OBVIOUS
<1>1. InteractionsTypeOK
  BY InteractionsAssumption DEF InteractionsInit, InteractionsTypeOK, Interaction, Tool, Idle
<1>2. WrittenTwice /\ CallKnowsItsRow /\ EndedIsResolved /\ ToldInv
  BY DEF InteractionsInit, WrittenTwice, CallKnowsItsRow, EndedIsResolved, ToldInv,
         EveryoneIsToldTheOutcome, Idle, terminal
<1>. QED
  BY <1>1, <1>2 DEF QuestionsInv

(* What the invariant says of one question. *)
LEMMA QuestionFacts ==
  ASSUME QuestionsInv, NEW q \in Question
  PROVE  /\ row[q] \in Interaction /\ tool[q] \in Tool
         /\ row \in [Question -> Interaction] /\ tool \in [Question -> Tool]
         /\ GoodQuestion(row[q]) /\ GoodCall(tool[q], row[q])
BY DEF QuestionsInv, InteractionsTypeOK, WrittenTwice, CallKnowsItsRow,
       EndedIsResolved, ToldInv, EveryoneIsToldTheOutcome, terminal, GoodQuestion, GoodCall

(* The shape of every step: rows move as they may, the calls that changed  *)
(* are good for the new rows, and newly told replies are true.             *)
LEMMA StepInv ==
  ASSUME QuestionsInv, InteractionsTypeOK',
         \A q \in Question : QuestionStep(row[q], row'[q]),
         \A q \in Question : tool'[q] = tool[q] \/ GoodCall(tool'[q], row'[q]),
         \A r \in told' : r \in told \/ TrueReply(r, row'[r.question])
  PROVE  QuestionsInv'
<1>1. ASSUME NEW q \in Question PROVE GoodQuestion(row'[q]) /\ GoodCall(tool'[q], row'[q])
  <2>1. row'[q] \in Interaction
    BY DEF InteractionsTypeOK
  <2>2. GoodQuestion(row'[q])
    BY <2>1, QuestionFacts DEF QuestionStep, GoodQuestion, Interaction
  <2>3. GoodCall(tool[q], row'[q])
    BY <2>1, QuestionFacts DEF QuestionStep, GoodCall, Interaction
  <2>. QED
    BY <2>2, <2>3
<1>2. ASSUME NEW r \in told' PROVE TrueReply(r, row'[r.question])
  <2>. SUFFICES ASSUME r \in told PROVE TrueReply(r, row'[r.question])
    OBVIOUS
  <2>1. r \in Reply /\ TrueReply(r, row[r.question])
    BY DEF QuestionsInv, InteractionsTypeOK, ToldInv, EveryoneIsToldTheOutcome,
           TrueReply
  <2>2. row[r.question].status \in INTERACTION_TERMINAL_STATES /\ r.question \in Question
    BY <2>1 DEF Reply, TrueReply
  <2>3. row'[r.question] = row[r.question]
    BY <2>2 DEF QuestionStep
  <2>. QED
    BY <2>1, <2>3
<1>. QED
  BY <1>1, <1>2
     DEF QuestionsInv, WrittenTwice, CallKnowsItsRow, EndedIsResolved, ToldInv,
         EveryoneIsToldTheOutcome, terminal, GoodQuestion, GoodCall, TrueReply

(* resolve: the row gets its outcome and its second version. *)
LEMMA ResolveStep ==
  ASSUME QuestionsInv, NEW q \in Question, NEW s \in INTERACTION_TERMINAL_STATES,
         NEW a \in Answer \cup {None}, NEW v, resolve(q, s, a, v)
  PROVE  /\ row' \in [Question -> Interaction]
         /\ row[q].status = "open" /\ row'[q].status = s /\ row'[q].response = a
         /\ \A i \in Question : QuestionStep(row[i], row'[i])
<1>. DEFINE n == row[q].version + 1
            r == [status |-> s, version |-> n, response |-> a]
<1>1. n \in Nat
  BY QuestionFacts DEF Interaction
<1>2. row' = [row EXCEPT ![q] = r] /\ row[q].status = "open"
  BY DEF resolve, Resolved, Resolvable
<1>. HIDE DEF n
<1>3. r \in Interaction
  BY <1>1 DEF Interaction
<1>4. QuestionStep(row[q], r)
  BY <1>2 DEF QuestionStep, n
<1>. HIDE DEF r
<1>5. \A i \in Question : QuestionStep(row[i], row'[i])
  BY <1>2, <1>4, QuestionFacts DEF QuestionStep
<1>. QED
  BY <1>2, <1>3, <1>5, QuestionFacts DEF r

(* The next place of a call, by Goes. *)
LEMMA GoesStep ==
  ASSUME QuestionsInv, NEW q \in Question,
         NEW to \in {"idle", "polling", "expired", "closing", "retiring", "done"}, Goes(q, to)
  PROVE  /\ tool' \in [Question -> Tool]
         /\ tool'[q].pc = to /\ tool'[q].version = tool[q].version
         /\ tool'[q].result = tool[q].result
         /\ \A i \in Question \ {q} : tool'[i] = tool[i]
<1>. DEFINE t == [tool[q] EXCEPT !.pc = to]
<1>1. /\ t \in Tool /\ t.pc = to /\ t.version = tool[q].version
      /\ t.result = tool[q].result
  BY QuestionFacts DEF Tool
<1>2. tool' = [tool EXCEPT ![q] = t]
  BY DEF Goes
<1>. HIDE DEF t
<1>. QED
  BY <1>1, <1>2, QuestionFacts

-----------------------------------------------------------------------------
(* The ask_user call. *)

LEMMA AskInv ==
  ASSUME QuestionsInv, NEW q \in Question, tool_ask_user(q)
  PROVE  QuestionsInv' /\ \A i \in Question : QuestionStep(row[i], row'[i])
<1>. DEFINE r == [row[q] EXCEPT !.status = "open", !.version = 1]
<1>1. Goes(q, "polling") /\ UNCHANGED <<reply, told, crashes, late>>
      /\ deserted' = deserted \ {q}
  BY DEF tool_ask_user
<1>2. r \in Interaction /\ r.status = "open" /\ r.version = 1
  BY QuestionFacts DEF Interaction
<1>3. row' = IF row[q].status = "absent" THEN [row EXCEPT ![q] = r] ELSE row
  BY DEF tool_ask_user
<1>. HIDE DEF r
<1>4. /\ row' \in [Question -> Interaction] /\ row'[q].status # "absent"
      /\ \A i \in Question : QuestionStep(row[i], row'[i])
  BY <1>2, <1>3, QuestionFacts DEF QuestionStep
<1>5. InteractionsTypeOK'
  BY <1>1, <1>4, GoesStep DEF QuestionsInv, InteractionsTypeOK
<1>6. tool[q].pc = "idle"
  BY DEF tool_ask_user
<1>7. GoodCall(tool'[q], row'[q])
  BY <1>1, <1>3, <1>4, <1>6, GoesStep, QuestionFacts DEF GoodCall, QuestionStep
<1>. QED
  BY <1>1, <1>4, <1>5, <1>7, GoesStep, StepInv

LEMMA WaitInv ==
  ASSUME QuestionsInv, NEW q \in Question, wait(q)
  PROVE  QuestionsInv' /\ \A i \in Question : QuestionStep(row[i], row'[i])
<1>1. UNCHANGED <<row, reply, told, crashes, deserted, late>> /\ tool[q].pc = "polling"
  BY DEF wait
<1>2. PICK t \in Tool : tool' = [tool EXCEPT ![q] = t] /\ GoodCall(t, row[q])
  <2>1. CASE terminal(q) /\ tool' = [tool EXCEPT ![q].pc = "closing", ![q].result = row[q]]
    <3>. DEFINE x == row[q]
                t == [tool[q] EXCEPT !.pc = "closing", !.result = x]
    <3>1. x \in Interaction \cup {None}
      BY QuestionFacts
    <3>2. tool' = [tool EXCEPT ![q] = t]
      BY <2>1
    <3>. HIDE DEF x
    <3>3. t \in Tool /\ t.pc = "closing" /\ t.result = x
      BY <3>1, QuestionFacts DEF Tool
    <3>. HIDE DEF t
    <3>4. GoodCall(t, row[q])
      BY <1>1, <2>1, <3>3, QuestionFacts DEF GoodCall, terminal, x
    <3>. QED
      BY <3>2, <3>3, <3>4
  <2>2. CASE ~terminal(q) /\ tool' = [tool EXCEPT ![q].pc = "expired", ![q].version = row[q].version]
    <3>. DEFINE v == row[q].version
                t == [tool[q] EXCEPT !.pc = "expired", !.version = v]
    <3>1. v \in Nat /\ v = 1 /\ row[q].status # "absent"
      BY <1>1, <2>2, QuestionFacts DEF Interaction, GoodQuestion, GoodCall, terminal
    <3>2. tool' = [tool EXCEPT ![q] = t]
      BY <2>2
    <3>. HIDE DEF v
    <3>3. t \in Tool /\ t.pc = "expired" /\ t.version = v /\ t.result = tool[q].result
      BY <3>1, QuestionFacts DEF Tool
    <3>. HIDE DEF t
    <3>4. GoodCall(t, row[q])
      BY <3>1, <3>3, QuestionFacts DEF GoodCall
    <3>. QED
      BY <3>2, <3>3, <3>4
  <2>. QED
    BY <2>1, <2>2 DEF wait
<1>3. tool' \in [Question -> Tool] /\ \A i \in Question : tool'[i] = tool[i] \/ GoodCall(tool'[i], row'[i])
  BY <1>1, <1>2, QuestionFacts
<1>4. InteractionsTypeOK'
  BY <1>1, <1>3 DEF QuestionsInv, InteractionsTypeOK
<1>5. \A i \in Question : QuestionStep(row[i], row'[i])
  BY <1>1 DEF QuestionStep
<1>. QED
  BY <1>1, <1>3, <1>4, <1>5, StepInv

LEMMA TimesOutInv ==
  ASSUME QuestionsInv, NEW q \in Question, wait_times_out(q)
  PROVE  QuestionsInv' /\ \A i \in Question : QuestionStep(row[i], row'[i])
<1>1. UNCHANGED <<reply, told, crashes, deserted, late>> /\ tool[q].pc = "expired"
  BY DEF wait_times_out
<1>2. CASE resolve(q, "timed_out", None, tool[q].version)
           /\ tool' = [tool EXCEPT ![q].pc = "closing", ![q].result = row'[q]]
  <2>. DEFINE x == row'[q]
              t == [tool[q] EXCEPT !.pc = "closing", !.result = x]
  <2>1. /\ row' \in [Question -> Interaction] /\ row'[q].status = "timed_out"
        /\ \A i \in Question : QuestionStep(row[i], row'[i])
    BY <1>2, ResolveStep
  <2>2. x \in Interaction \cup {None}
    BY <2>1
  <2>3. tool' = [tool EXCEPT ![q] = t]
    BY <1>2
  <2>. HIDE DEF x
  <2>4. t \in Tool /\ t.pc = "closing" /\ t.result = x
    BY <2>2, QuestionFacts DEF Tool
  <2>. HIDE DEF t
  <2>5. GoodCall(t, row'[q])
    BY <2>1, <2>4 DEF GoodCall, x
  <2>6. /\ tool' \in [Question -> Tool]
        /\ \A i \in Question : tool'[i] = tool[i] \/ GoodCall(tool'[i], row'[i])
    BY <2>3, <2>4, <2>5, QuestionFacts
  <2>7. InteractionsTypeOK'
    BY <1>1, <2>1, <2>6 DEF QuestionsInv, InteractionsTypeOK
  <2>. QED
    BY <1>1, <2>1, <2>6, <2>7, StepInv
<1>3. CASE Goes(q, "polling") /\ UNCHANGED row
  <2>1. InteractionsTypeOK'
    BY <1>1, <1>3, GoesStep DEF QuestionsInv, InteractionsTypeOK
  <2>2. GoodCall(tool'[q], row'[q])
    BY <1>1, <1>3, GoesStep, QuestionFacts DEF GoodCall
  <2>. QED
    BY <1>1, <1>3, <2>1, <2>2, GoesStep, StepInv DEF QuestionStep
<1>. QED
  BY <1>2, <1>3 DEF wait_times_out

LEMMA StopInv ==
  ASSUME QuestionsInv, NEW q \in Question, stop_run(q)
  PROVE  QuestionsInv' /\ \A i \in Question : QuestionStep(row[i], row'[i])
<1>1. /\ tool[q].pc \in {"polling", "expired"} /\ Goes(q, "closing")
      /\ UNCHANGED <<row, reply, told, crashes, deserted>>
  BY DEF stop_run
<1>4. late' \subseteq [question: Question, version: Nat]
  <2>1. tool[q].version \in Nat /\ late \subseteq [question: Question, version: Nat]
    BY QuestionFacts DEF QuestionsInv, InteractionsTypeOK, Tool
  <2>. QED
    BY <2>1 DEF stop_run
<1>2. InteractionsTypeOK'
  BY <1>1, <1>4, GoesStep DEF QuestionsInv, InteractionsTypeOK
<1>3. GoodCall(tool'[q], row'[q])
  BY <1>1, GoesStep, QuestionFacts DEF GoodCall
<1>. QED
  BY <1>1, <1>2, <1>3, GoesStep, StepInv DEF QuestionStep

LEMMA CloseInv ==
  ASSUME QuestionsInv, NEW q \in Question, close(q)
  PROVE  QuestionsInv' /\ \A i \in Question : QuestionStep(row[i], row'[i])
<1>1. UNCHANGED <<row, reply, told, crashes, deserted, late>> /\ tool[q].pc = "closing"
  BY DEF close
<1>2. CASE terminal(q) /\ Goes(q, "done")
  <2>1. InteractionsTypeOK'
    BY <1>1, <1>2, GoesStep DEF QuestionsInv, InteractionsTypeOK
  <2>2. GoodCall(tool'[q], row'[q])
    BY <1>1, <1>2, GoesStep, QuestionFacts DEF GoodCall, terminal
  <2>. QED
    BY <1>1, <1>2, <2>1, <2>2, GoesStep, StepInv DEF QuestionStep
<1>3. CASE ~terminal(q) /\ tool' = [tool EXCEPT ![q].pc = "retiring", ![q].version = row[q].version]
  <2>. DEFINE v == row[q].version
              t == [tool[q] EXCEPT !.pc = "retiring", !.version = v]
  <2>1. v \in Nat /\ v = 1 /\ row[q].status # "absent"
    BY <1>1, <1>3, QuestionFacts DEF Interaction, GoodQuestion, GoodCall, terminal
  <2>2. tool' = [tool EXCEPT ![q] = t]
    BY <1>3
  <2>. HIDE DEF v
  <2>3. t \in Tool /\ t.pc = "retiring" /\ t.version = v /\ t.result = tool[q].result
    BY <2>1, QuestionFacts DEF Tool
  <2>. HIDE DEF t
  <2>4. GoodCall(t, row[q])
    BY <2>1, <2>3, QuestionFacts DEF GoodCall
  <2>5. /\ tool' \in [Question -> Tool]
        /\ \A i \in Question : tool'[i] = tool[i] \/ GoodCall(tool'[i], row'[i])
    BY <1>1, <2>2, <2>3, <2>4, QuestionFacts
  <2>6. InteractionsTypeOK'
    BY <1>1, <2>5 DEF QuestionsInv, InteractionsTypeOK
  <2>. QED
    BY <1>1, <2>5, <2>6, StepInv DEF QuestionStep
<1>. QED
  BY <1>2, <1>3 DEF close

LEMMA RetireInv ==
  ASSUME QuestionsInv, NEW q \in Question, retire(q)
  PROVE  QuestionsInv' /\ \A i \in Question : QuestionStep(row[i], row'[i])
<1>1. /\ tool[q].pc = "retiring" /\ Goes(q, "done") /\ UNCHANGED <<reply, told, crashes, deserted, late>>
      /\ tool[q].version = 1 /\ row[q].status # "absent"
  BY QuestionFacts DEF retire, GoodCall
<1>2. /\ row' \in [Question -> Interaction] /\ row'[q].status \in INTERACTION_TERMINAL_STATES
      /\ \A i \in Question : QuestionStep(row[i], row'[i])
  <2>1. CASE resolve(q, "cancelled", None, tool[q].version)
    BY <2>1, ResolveStep
  <2>2. CASE ~Resolvable(q, tool[q].version) /\ UNCHANGED row
    BY <1>1, <2>2, QuestionFacts DEF Resolvable, GoodQuestion, Interaction, QuestionStep
  <2>. QED
    BY <2>1, <2>2 DEF retire
<1>3. InteractionsTypeOK'
  BY <1>1, <1>2, GoesStep DEF QuestionsInv, InteractionsTypeOK
<1>4. GoodCall(tool'[q], row'[q])
  <2>1. tool[q].result # None => tool[q].result = row'[q]
    BY <1>2, QuestionFacts DEF GoodCall, QuestionStep
  <2>. QED
    BY <1>1, <1>2, <2>1, GoesStep DEF GoodCall
<1>. QED
  BY <1>1, <1>2, <1>3, <1>4, GoesStep, StepInv

LEMMA LateInv ==
  ASSUME QuestionsInv, NEW q \in Question, late_times_out(q)
  PROVE  QuestionsInv' /\ \A i \in Question : QuestionStep(row[i], row'[i])
<1>1. PICK l \in late :
        /\ late' = late \ {l}
        /\ resolve(q, "timed_out", None, l.version) \/ UNCHANGED row
        /\ UNCHANGED <<tool, reply, told, crashes, deserted>>
  BY DEF late_times_out
<1>2. /\ row' \in [Question -> Interaction]
      /\ \A i \in Question : QuestionStep(row[i], row'[i])
  <2>1. CASE resolve(q, "timed_out", None, l.version)
    BY <2>1, ResolveStep
  <2>2. CASE UNCHANGED row
    BY <2>2, QuestionFacts DEF QuestionStep
  <2>. QED
    BY <1>1, <2>1, <2>2
<1>3. InteractionsTypeOK'
  BY <1>1, <1>2 DEF QuestionsInv, InteractionsTypeOK
<1>. QED
  BY <1>1, <1>2, <1>3, StepInv

-----------------------------------------------------------------------------
(* The reply of the user and the crash of the host. *)

LEMMA ReadsInv ==
  ASSUME QuestionsInv, NEW q \in Question, NEW a \in Answer \cup {None}, reply_reads(q, a)
  PROVE  QuestionsInv' /\ \A i \in Question : QuestionStep(row[i], row'[i])
<1>. DEFINE v == row[q].version
            s == IF a = None THEN "skipped" ELSE "answered"
<1>1. v \in Nat /\ s \in {"answered", "skipped"}
  BY QuestionFacts DEF Interaction
<1>2. /\ reply' = [question |-> q, version |-> v, response |-> a, status |-> s]
      /\ UNCHANGED <<row, tool, told, crashes, deserted, late>>
  BY DEF reply_reads
<1>. HIDE DEF v, s
<1>3. InteractionsTypeOK'
  BY <1>1, <1>2 DEF QuestionsInv, InteractionsTypeOK, Reply
<1>. QED
  BY <1>2, <1>3, StepInv DEF QuestionStep

LEMMA WritesInv ==
  ASSUME QuestionsInv, reply_writes
  PROVE  QuestionsInv' /\ \A i \in Question : QuestionStep(row[i], row'[i])
<1>. DEFINE q == reply.question
<1>1. /\ reply \in Reply /\ q \in Question /\ reply' = None /\ UNCHANGED <<tool, crashes, deserted, late>>
      /\ reply.status \in INTERACTION_TERMINAL_STATES /\ reply.response \in Answer \cup {None}
  BY DEF reply_writes, QuestionsInv, InteractionsTypeOK, Reply
<1>2. CASE /\ resolve(q, reply.status, reply.response, reply.version)
           /\ told' = told \cup {reply}
  <2>0. /\ row' \in [Question -> Interaction] /\ \A i \in Question : QuestionStep(row[i], row'[i])
        /\ row'[q].status = reply.status /\ row'[q].response = reply.response
    <3>. HIDE DEF q, INTERACTION_STATES, INTERACTION_TERMINAL_STATES
    <3>. QED
      BY ONLY QuestionsInv, <1>1, <1>2, ResolveStep
  <2>1. TrueReply(reply, row'[q])
    BY <1>1, <2>0 DEF TrueReply
  <2>2. InteractionsTypeOK'
    BY <1>1, <1>2, <2>0 DEF QuestionsInv, InteractionsTypeOK
  <2>. QED
    BY <1>1, <1>2, <2>0, <2>1, <2>2, StepInv
<1>3. CASE UNCHANGED <<row, told>>
  <2>1. InteractionsTypeOK'
    BY <1>1, <1>3 DEF QuestionsInv, InteractionsTypeOK
  <2>. QED
    BY <1>1, <1>3, <2>1, StepInv DEF QuestionStep
<1>. QED
  BY <1>2, <1>3 DEF reply_writes

LEMMA CrashInv ==
  ASSUME QuestionsInv, crash
  PROVE  QuestionsInv' /\ \A i \in Question : QuestionStep(row[i], row'[i])
<1>1. /\ tool' = [q \in Question |-> Idle] /\ reply' = None /\ UNCHANGED <<row, told>>
      /\ crashes' \in 0..MaxCrashes /\ deserted' \subseteq Question /\ late' = {}
  BY InteractionsAssumption DEF crash, QuestionsInv, InteractionsTypeOK
<1>2. Idle \in Tool /\ \A q \in Question : GoodCall(Idle, row[q])
  BY DEF Idle, Tool, GoodCall
<1>3. InteractionsTypeOK'
  BY <1>1, <1>2 DEF QuestionsInv, InteractionsTypeOK
<1>. QED
  BY <1>1, <1>2, <1>3, StepInv DEF QuestionStep

-----------------------------------------------------------------------------
(* Every step keeps the invariant and moves each row as it may. *)
LEMMA QuestionsNext ==
  QuestionsInv /\ [InteractionsNext]_intvars
    => QuestionsInv' /\ \A q \in Question : QuestionStep(row[q], row'[q])
<1>. SUFFICES ASSUME QuestionsInv, [InteractionsNext]_intvars
              PROVE  QuestionsInv' /\ \A q \in Question : QuestionStep(row[q], row'[q])
  OBVIOUS
<1>1. CASE UNCHANGED intvars
  BY <1>1 DEF intvars, QuestionsInv, InteractionsTypeOK, WrittenTwice,
              CallKnowsItsRow, EndedIsResolved, ToldInv, EveryoneIsToldTheOutcome,
              terminal, QuestionStep
<1>2. ASSUME NEW q \in Question, ToolStep(q) \/ stop_run(q) \/ late_times_out(q)
      PROVE  QuestionsInv' /\ \A i \in Question : QuestionStep(row[i], row'[i])
  BY <1>2, AskInv, WaitInv, TimesOutInv, StopInv, LateInv, CloseInv, RetireInv DEF ToolStep
<1>. QED
  BY <1>1, <1>2, ReadsInv, WritesInv, CrashInv DEF InteractionsNext

(* A question that is open and without a call after a step of call i was   *)
(* so before: a call that is asked runs, and one that ends is resolved.    *)
LEMMA CallStep ==
  ASSUME QuestionsInv, QuestionsInv', NEW i \in Question, ToolStep(i) \/ stop_run(i),
         NEW q \in Question, row'[q].status = "open", tool'[q].pc = "idle"
  PROVE  row[q].status = "open" /\ tool[q].pc = "idle" /\ (q \in deserted => q \in deserted')
<1>1. tool'[i].pc # "idle"
  BY QuestionFacts
     DEF ToolStep, tool_ask_user, wait, wait_times_out, close, retire, stop_run, Goes, Tool
<1>2. \A k \in Question \ {i} : tool'[k] = tool[k]
  BY QuestionFacts
     DEF ToolStep, tool_ask_user, wait, wait_times_out, close, retire, stop_run, Goes
<1>3. \A k \in Question \ {i} : row'[k] = row[k]
  BY QuestionFacts
     DEF ToolStep, tool_ask_user, wait, wait_times_out, close, retire, stop_run, resolve, Resolved
<1>4. q # i
  BY <1>1
<1>5. q \in deserted => q \in deserted'
  BY <1>4 DEF ToolStep, tool_ask_user, wait, wait_times_out, close, retire, stop_run
<1>. QED
  BY <1>2, <1>3, <1>4, <1>5

(* An open question was open before or is being asked; its call ends only  *)
(* when it is resolved, or dies in a crash.                                *)
LEMMA OrphanNext ==
  QuestionsInv /\ NoOrphanQuestion /\ [InteractionsNext]_intvars => NoOrphanQuestion'
<1>. SUFFICES ASSUME QuestionsInv, NoOrphanQuestion, [InteractionsNext]_intvars,
                     NEW q \in Question, row'[q].status = "open"
              PROVE  tool'[q].pc \notin {"idle", "done"} \/ q \in deserted'
  BY DEF NoOrphanQuestion
<1>0. QuestionsInv'
  BY QuestionsNext
<1>1. tool'[q].pc # "done"
  BY <1>0 DEF QuestionsInv, EndedIsResolved, terminal
<1>. SUFFICES ASSUME tool'[q].pc = "idle" PROVE q \in deserted'
  BY <1>1
<1>2. CASE crash
  <2>1. row[q].status = "open" /\ tool[q].pc # "done"
    BY <1>2 DEF crash, QuestionsInv, EndedIsResolved, terminal
  <2>. QED
    BY <1>2, <2>1 DEF crash, NoOrphanQuestion
<1>3. ASSUME NEW i \in Question, ToolStep(i) \/ stop_run(i) PROVE q \in deserted'
  BY <1>0, <1>3, CallStep DEF NoOrphanQuestion
<1>4. ASSUME UNCHANGED <<tool, deserted>>, row[q].status = "open" PROVE q \in deserted'
  BY <1>4 DEF NoOrphanQuestion
<1>5. ASSUME NEW i \in Question, late_times_out(i) PROVE q \in deserted'
  <2>1. row[q].status = "open"
    BY <1>5, QuestionFacts DEF late_times_out, resolve, Resolved, Resolvable
  <2>. QED
    BY <1>4, <1>5, <2>1 DEF late_times_out
<1>6. CASE \E i \in Question, a \in Answer \cup {None} : reply_reads(i, a)
  BY <1>4, <1>6 DEF reply_reads
<1>7. CASE reply_writes
  <2>1. reply \in Reply
    BY <1>7 DEF reply_writes, QuestionsInv, InteractionsTypeOK
  <2>2. row[q].status = "open"
    BY <1>7, <2>1, QuestionFacts DEF reply_writes, resolve, Resolved, Resolvable, Reply
  <2>. QED
    BY <1>4, <1>7, <2>2 DEF reply_writes
<1>8. CASE UNCHANGED intvars
  BY <1>4, <1>8 DEF intvars
<1>. QED
  BY <1>2, <1>3, <1>5, <1>6, <1>7, <1>8 DEF InteractionsNext

LEMMA QuestionsInvariance == InteractionsSpec => [](QuestionsInv /\ NoOrphanQuestion)
<1>1. InteractionsInit => NoOrphanQuestion
  BY DEF InteractionsInit, NoOrphanQuestion
<1>. QED
  BY <1>1, QuestionsInit, QuestionsNext, OrphanNext, PTL DEF InteractionsSpec

(* An open question has a call that waits for it or lost it in a crash of  *)
(* the host, every row is written at most twice, and a call that runs      *)
(* always has its row (create, resolve and the finally block of            *)
(* tool_ask_user).                                                         *)
THEOREM InteractionsInvariant == InteractionsSpec => []InteractionsInv
<1>1. QuestionsInv /\ NoOrphanQuestion => InteractionsInv
  BY DEF QuestionsInv, InteractionsInv
<1>. QED
  BY <1>1, QuestionsInvariance, PTL

(* Whatever wins the race of answer, skip, timeout, Stop and crash, the    *)
(* caller and the user are told what the table records.                    *)
THEOREM ToldCorrect == InteractionsSpec => []EveryoneIsToldTheOutcome
<1>1. QuestionsInv => EveryoneIsToldTheOutcome
  BY DEF QuestionsInv, ToldInv
<1>. QED
  BY <1>1, QuestionsInvariance, PTL

(* A recorded outcome of a question is never replaced (resolve).           *)
OutcomeIsFinal == [][\A q \in Question : terminal(q) => row'[q] = row[q]]_intvars

(* resolve is first writer wins: neither a later answer, nor a timeout, nor *)
(* the finally block of the tool, nor a repeated ask_user call after a      *)
(* crash replaces what the table records.                                   *)
THEOREM OutcomeFinal == InteractionsSpec => OutcomeIsFinal
<1>1. QuestionsInv /\ [InteractionsNext]_intvars
        => [\A q \in Question : terminal(q) => row'[q] = row[q]]_intvars
  BY QuestionsNext DEF QuestionStep, terminal
<1>. QED
  BY <1>1, QuestionsInvariance, PTL DEF InteractionsSpec, OutcomeIsFinal
=============================================================================
