------------------------------- MODULE Peers -------------------------------
(***************************************************************************)
(* Delivery of requests to one external peer (a harness session outside    *)
(* the application).  Several bridge processes may hold connections to the *)
(* session; each connection is a lease with an epoch, and a delivery task  *)
(* claims queued requests under the lease before it writes them to the     *)
(* harness.  A claim whose lease ends, is replaced or becomes contested is *)
(* fenced: nobody knows whether the harness saw the request, so it becomes *)
(* "unknown" and is never handed out again.                                *)
(*                                                                         *)
(* Every service method runs without suspending on the event loop and      *)
(* writes in transactions, so a method is one step.  The delivery task     *)
(* suspends while it attaches to the harness and while the harness works;  *)
(* it is a sequence of steps, between which everything else may happen.    *)
(***************************************************************************)
EXTENDS Integers, FiniteSets

CONSTANTS
    Conn,           \* connection identities, one per bridge process
    Runtime,        \* harness runtimes the bridge processes belong to
    NMsg,           \* requests sent to the peer
    MaxEpoch,       \* bound on connection epochs
    MaxCrashes,     \* bound on crashes of the application
    NoOne           \* no connection

ASSUME PeersAssumption ==
    /\ NMsg \in Nat /\ MaxEpoch \in Nat \ {0} /\ MaxCrashes \in Nat
    /\ NoOne \notin Conn /\ IsFiniteSet(Conn)

VARIABLES
    conn,           \* peer_connection rows
    msg,            \* peer_message rows addressed to the peer, in sequence order
    endpoint,       \* status of the peer_endpoint row
    task,           \* the delivery task of the peer (GrokPeers.tasks)
    up,             \* the application runs
    handed,         \* history: how often a request was handed to a delivery task
    crashes

vars == <<conn, msg, endpoint, task, up, handed, crashes>>

Msg == 1..NMsg
Epoch == 0..MaxEpoch

LEASED == {"active", "conflicted"}
CONNECTION_STATES == LEASED \cup {"closed", "expired"}
MESSAGE_STATES == {"persisted", "queued", "transport_written", "observed",
                   "replied", "parked", "failed", "unknown"}
FENCED_FROM == {"queued", "transport_written", "observed"}

\* The parts of the database a transaction rewrites.
db == [conn |-> conn, msg |-> msg, endpoint |-> endpoint]

Commit(d) == conn' = d.conn /\ msg' = d.msg /\ endpoint' = d.endpoint

NoTask == [phase |-> "none", c |-> NoOne, epoch |-> 0, m |-> 0]

Init ==
    /\ conn = [c \in Conn |-> [status |-> "none", epoch |-> 0, runtime |-> "none",
                               live |-> FALSE]]
    /\ msg = [m \in Msg |-> [state |-> "none", owner |-> NoOne, epoch |-> 0]]
    /\ endpoint = "none"
    /\ task = NoTask /\ up = TRUE
    /\ handed = [m \in Msg |-> 0] /\ crashes = 0

-----------------------------------------------------------------------------
(* Pieces of the repository's transactions, as functions of the database.  *)

SetState(d, m, s, release) ==
    [d EXCEPT !.msg[m].state = s,
              !.msg[m].owner = IF release THEN NoOne ELSE @,
              !.msg[m].epoch = IF release THEN 0 ELSE @]

Fenced == [state |-> "unknown", owner |-> NoOne, epoch |-> 0]

_fence_connection_claims_tx(d, C) ==
    [d EXCEPT !.msg = [m \in Msg |->
        IF d.msg[m].owner \in C /\ d.msg[m].state \in FENCED_FROM
        THEN Fenced ELSE d.msg[m]]]

Live(d) == {c \in Conn : d.conn[c].status \in LEASED /\ d.conn[c].live}

_reconcile_connection_group_tx(d) ==
    LET live == Live(d)
        runtimes == {d.conn[c].runtime : c \in live}
        contested == Cardinality(runtimes) > 1
        settled == [d EXCEPT
           !.conn = [c \in Conn |-> IF c \in live
                       THEN [d.conn[c] EXCEPT !.status = IF contested THEN "conflicted"
                                                                      ELSE "active"]
                       ELSE d.conn[c]],
           !.endpoint = IF contested THEN "conflicted"
                        ELSE IF live # {} THEN "connected"
                        ELSE "disconnected"]
    IN  IF contested THEN _fence_connection_claims_tx(settled, live) ELSE settled

Stale(d) == {c \in Conn : d.conn[c].status \in LEASED /\ ~d.conn[c].live}

_expire_connections_tx(d) ==
    LET stale == Stale(d)
        expired == [d EXCEPT !.conn = [c \in Conn |->
                       IF c \in stale THEN [d.conn[c] EXCEPT !.status = "expired"]
                                      ELSE d.conn[c]]]
    IN  IF stale = {} THEN d
        ELSE _reconcile_connection_group_tx(_fence_connection_claims_tx(expired, stale))

-----------------------------------------------------------------------------
(* Connections: the bridge processes register, renew and close them.       *)

registrable(d, c, r, e) ==
    LET prior == d.conn[c] IN
    \/ prior.status = "none"
    \/ e > prior.epoch
    \/ e = prior.epoch /\ prior.status \in LEASED /\ r = prior.runtime

\* Variant: a new epoch of a live connection keeps the claims of the old one.
register_connection_unfenced(c, r, e) ==
    LET d == _expire_connections_tx(db)
        row == [status |-> "active", epoch |-> e, runtime |-> r, live |-> TRUE]
    IN  /\ up /\ registrable(d, c, r, e)
        /\ Commit(_reconcile_connection_group_tx([d EXCEPT !.conn[c] = row]))
        /\ UNCHANGED <<task, up, handed, crashes>>

\* A registration refused here only leaves the expiry that peer_bridge ran before it.
register_connection(c, r, e) ==
    LET d == _expire_connections_tx(db)
        own == IF e > d.conn[c].epoch THEN _fence_connection_claims_tx(d, {c}) ELSE d
        row == [status |-> "active", epoch |-> e, runtime |-> r, live |-> TRUE]
    IN  /\ up /\ registrable(d, c, r, e)
        /\ Commit(_reconcile_connection_group_tx([own EXCEPT !.conn[c] = row]))
        /\ UNCHANGED <<task, up, handed, crashes>>

\* The heartbeat of a bridge process; a lease that has run out is not renewable.
touched(d, c) == _reconcile_connection_group_tx([d EXCEPT !.conn[c].live = TRUE])

touch_connection(c) ==
    LET d == _expire_connections_tx(db)
    IN  /\ up /\ d.conn[c].status \in LEASED
        /\ Commit(touched(d, c))
        /\ UNCHANGED <<task, up, handed, crashes>>

\* A bridge process disconnects, or _monitor finds its process gone.
close_connection(c) ==
    LET d == _expire_connections_tx(db)
        closed == [d EXCEPT !.conn[c].status = "closed"]
    IN  /\ up /\ d.conn[c].status \in LEASED
        /\ Commit(_reconcile_connection_group_tx(_fence_connection_claims_tx(closed, {c})))
        /\ UNCHANGED <<task, up, handed, crashes>>

\* Time passes without a heartbeat.
lease_runs_out(c) ==
    /\ conn[c].status \in LEASED /\ conn[c].live
    /\ conn' = [conn EXCEPT ![c].live = FALSE]
    /\ UNCHANGED <<msg, endpoint, task, up, handed, crashes>>

\* Variant: the sweep waits until no delivery is under way.
expire_connections_idle ==
    /\ up /\ task = NoTask /\ Stale(db) # {}
    /\ Commit(_expire_connections_tx(db))
    /\ UNCHANGED <<task, up, handed, crashes>>

\* _poll_native_receipts sweeps every second; peer_bridge sweeps before every request.
expire_connections ==
    /\ up /\ Stale(db) # {}
    /\ Commit(_expire_connections_tx(db))
    /\ UNCHANGED <<task, up, handed, crashes>>

-----------------------------------------------------------------------------
(* Requests: a chat sends them, the delivery task claims and settles them, *)
(* the harness replies.                                                    *)

next_message(m) ==
    /\ msg[m].state = "none"
    /\ \A k \in Msg : k < m => msg[k].state # "none"

\* The hook that wakes the delivery is called, and may fail, only for a connected peer.
send(m) ==
    /\ up /\ endpoint # "none" /\ next_message(m)
    /\ \E s \in IF endpoint = "connected" THEN {"queued", "unknown"} ELSE {"queued"} :
          Commit(SetState(db, m, s, FALSE))
    /\ UNCHANGED <<task, up, handed, crashes>>

\* The application stops between persist_message and the update to "queued".
send_crashes(m) ==
    /\ up /\ endpoint # "none" /\ next_message(m) /\ crashes < MaxCrashes
    /\ Commit(SetState(db, m, "persisted", FALSE))
    /\ up' = FALSE /\ task' = NoTask /\ crashes' = crashes + 1
    /\ UNCHANGED handed

\* The harness answers through the bridge, which renews the connection first and refuses
\* a contested one.  A request may be answered in any state: the harness may have read it
\* in its inbox.
reply(c, m) ==
    LET d == _expire_connections_tx(db)
        t == touched(d, c)
    IN  /\ up /\ d.conn[c].status \in LEASED /\ t.conn[c].status = "active"
        /\ msg[m].state \notin {"none", "replied"}
        /\ Commit(SetState(t, m, "replied", TRUE))
        /\ UNCHANGED <<task, up, handed, crashes>>

claimable(d) == {m \in Msg : d.msg[m].state = "queued" /\ d.msg[m].owner = NoOne}

\* _deliver picks the active connection; attaching to the harness suspends it.
_deliver(c) ==
    /\ up /\ task = NoTask
    /\ conn[c].status = "active" /\ conn[c].live /\ claimable(db) # {}
    /\ task' = [phase |-> "attaching", c |-> c, epoch |-> conn[c].epoch, m |-> 0]
    /\ UNCHANGED <<conn, msg, endpoint, up, handed, crashes>>

_deliver_gives_up ==
    /\ up /\ task.phase = "attaching" /\ task' = NoTask
    /\ UNCHANGED <<conn, msg, endpoint, up, handed, crashes>>

owns(d, c, e) == d.conn[c].status = "active" /\ d.conn[c].epoch = e

\* The oldest unclaimed request, claimed by the connection picked before the suspension.
claim_connection_delivery ==
    LET d == _expire_connections_tx(db)
        c == task.c
        ok == owns(d, c, task.epoch)
    IN  /\ up /\ task.phase = "attaching"
        /\ \/ /\ ~ok \/ claimable(d) = {}
              /\ Commit(d) /\ task' = NoTask /\ UNCHANGED handed
           \/ /\ ok
              /\ \E m \in claimable(d) :
                    /\ \A k \in claimable(d) : m <= k
                    /\ Commit([d EXCEPT !.msg[m].owner = c, !.msg[m].epoch = task.epoch])
                    /\ task' = [task EXCEPT !.phase = "claimed", !.m = m]
                    /\ handed' = [handed EXCEPT ![m] = @ + 1]
        /\ UNCHANGED <<up, crashes>>

\* Variant: the epoch of the connection is checked, the claim of the message is not.
settle_allowed_unclaimed(before, after, m, c, e) == after.conn[c].epoch = e

\* settle_external_delivery reads the message, then expires leases and checks the epoch of
\* the connection, then checks the claim of the message as it was read.
settle_allowed(before, after, m, c, e) ==
    /\ after.conn[c].epoch = e /\ before.msg[m].state # "replied"
    /\ before.msg[m].owner = c /\ before.msg[m].epoch = e

settle_external_delivery(m, c, e, s) ==
    LET d == _expire_connections_tx(db)
    IN  Commit(IF settle_allowed(db, d, m, c, e)
               THEN SetState(d, m, s, s \in {"parked", "failed", "unknown"})
               ELSE d)

\* The write callback of the harness request.  A refused settlement ends the task; that
\* of an answered request is accepted and changes nothing.
delivery_written ==
    LET d == _expire_connections_tx(db)
        replied == msg[task.m].state = "replied" /\ d.conn[task.c].epoch = task.epoch
        ok == replied \/ settle_allowed(db, d, task.m, task.c, task.epoch)
    IN  /\ up /\ task.phase = "claimed"
        /\ settle_external_delivery(task.m, task.c, task.epoch, "transport_written")
        /\ task' = IF ok THEN [task EXCEPT !.phase = "written"] ELSE NoTask
        /\ UNCHANGED <<up, handed, crashes>>

\* The harness ends its turn, or the request to it fails.
delivery_ends ==
    /\ up /\ task.phase \in {"claimed", "written"}
    /\ IF msg[task.m].state = "replied" THEN Commit(db)
       ELSE \E s \in IF task.phase = "written" THEN {"observed", "parked", "unknown"}
                                               ELSE {"unknown"} :
               settle_external_delivery(task.m, task.c, task.epoch, s)
    /\ task' = NoTask
    /\ UNCHANGED <<up, handed, crashes>>

-----------------------------------------------------------------------------
(* The application stops and starts.                                       *)

crash ==
    /\ up /\ crashes < MaxCrashes
    /\ up' = FALSE /\ task' = NoTask /\ crashes' = crashes + 1
    /\ UNCHANGED <<conn, msg, endpoint, handed>>

reconcile_stale_external_claims(d) ==
    [d EXCEPT !.msg = [m \in Msg |->
        IF d.msg[m].state = "queued" /\ d.msg[m].owner # NoOne
        THEN Fenced ELSE d.msg[m]]]

start ==
    /\ ~up /\ up' = TRUE
    /\ Commit(reconcile_stale_external_claims(db))
    /\ UNCHANGED <<task, handed, crashes>>

ConnectionStep ==
    \E c \in Conn :
       \/ \E r \in Runtime, e \in 1..MaxEpoch : register_connection(c, r, e)
       \/ touch_connection(c)
       \/ close_connection(c)
       \/ lease_runs_out(c)

DeliveryStep ==
    \/ \E c \in Conn : _deliver(c)
    \/ _deliver_gives_up
    \/ claim_connection_delivery
    \/ delivery_written
    \/ delivery_ends

MessageStep ==
    \E m \in Msg :
       \/ send(m)
       \/ send_crashes(m)
       \/ \E c \in Conn : reply(c, m)

Next ==
    \/ ConnectionStep
    \/ MessageStep
    \/ DeliveryStep
    \/ expire_connections
    \/ crash
    \/ start

Spec == Init /\ [][Next]_vars

\* The sweep is a loop of the application that sleeps a quarter of a second between
\* rounds; an application that stopped is started again.
FairSpec == Spec /\ WF_vars(expire_connections) /\ WF_vars(start)

-----------------------------------------------------------------------------
(* Properties.                                                             *)

PeersTypeOK ==
    /\ conn \in [Conn -> [status : CONNECTION_STATES \cup {"none"}, epoch : Epoch,
                          runtime : Runtime \cup {"none"}, live : BOOLEAN]]
    /\ msg \in [Msg -> [state : MESSAGE_STATES \cup {"none"}, owner : Conn \cup {NoOne},
                        epoch : Epoch]]
    /\ endpoint \in {"none", "connected", "conflicted", "disconnected"}
    /\ task \in [phase : {"none", "attaching", "claimed", "written"},
                 c : Conn \cup {NoOne}, epoch : Epoch, m : 0..NMsg]
    /\ task.phase # "none" => task.c \in Conn
    /\ task.phase \in {"claimed", "written"} => task.m \in Msg
    /\ up \in BOOLEAN /\ handed \in [Msg -> Nat]
    /\ crashes \in 0..MaxCrashes

\* A claim belongs to an active connection at the epoch of the claim.
ClaimIsOwned ==
    \A m \in Msg : msg[m].owner # NoOne =>
        /\ msg[m].state \in FENCED_FROM
        /\ conn[msg[m].owner].status = "active"
        /\ conn[msg[m].owner].epoch = msg[m].epoch

\* Active connections belong to one runtime, and never beside a contested one.
OneRuntimeOwns ==
    \A c, k \in Conn : conn[c].status = "active" /\ conn[k].status \in LEASED =>
        conn[k].status = "active" /\ conn[k].runtime = conn[c].runtime

\* The status shown for the peer is that of its leases.
EndpointIsExact ==
    endpoint = IF \A c \in Conn : conn[c].status = "none" THEN "none"
               ELSE IF \E c \in Conn : conn[c].status = "active" THEN "connected"
               ELSE IF \E c \in Conn : conn[c].status = "conflicted" THEN "conflicted"
               ELSE "disconnected"

\* A request is handed to the harness at most once, whatever happens to the connection,
\* to the delivery task or to the application in the meantime: a fenced claim is never
\* replayed (send: "an ambiguous claimed effect is fenced separately and never replayed").
HandedOnce == \A m \in Msg : handed[m] <= 1

\* A request that was handed over is not waiting to be claimed.
HandedIsNotWaiting ==
    \A m \in Msg : handed[m] > 0 =>
        /\ msg[m].state \notin {"none", "persisted"}
        /\ msg[m].state = "queued" => msg[m].owner # NoOne

\* The connection group is consistent after every transaction: state is well typed, each
\* claim is held by an active lease at its own epoch (so whatever ends the lease fences
\* the claim, and a delivery task cannot claim under the lease it picked before it
\* suspended when that lease was replaced or contested since), active leases belong to a
\* single runtime, the endpoint's status says so, and no request was handed over twice
\* (_reconcile_connection_group_tx, _fence_connection_claims_tx, claim_connection).
PeersInv ==
    /\ PeersTypeOK /\ ClaimIsOwned /\ OneRuntimeOwns /\ EndpointIsExact
    /\ HandedOnce /\ HandedIsNotWaiting

\* An answered request stays answered: no late receipt of the delivery, fence or restart
\* takes the answer back (settle_external_delivery, persist_message).
RepliedIsFinal ==
    [][\A m \in Msg : msg[m].state = "replied" => msg'[m].state = "replied"]_vars

\* Claims under a lease that has run out do not last: again and again the sweep leaves none
\* of them, even when the bridge process never comes back (_poll_native_receipts,
\* expire_connections).
LostLeaseReleases ==
    []<>(\A m \in Msg : msg[m].owner # NoOne => conn[msg[m].owner].live)
=============================================================================
