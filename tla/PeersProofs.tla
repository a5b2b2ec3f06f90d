----------------------------- MODULE PeersProofs -----------------------------
(***************************************************************************)
(* Proofs about the delivery of requests to a peer, for any finite set of  *)
(* connections, any runtimes, any number of requests and crashes.          *)
(*                                                                         *)
(* The transactions of Peers are functions of the database, so the proofs  *)
(* are too: GoodDb is what every transaction must leave, Follows what it   *)
(* may do to the requests; the lemmas say both of each piece.              *)
(***************************************************************************)
EXTENDS Peers, FiniteSetTheorems, FunctionTheorems, TLAPS

USE DEF Msg, Epoch, LEASED, FENCED_FROM

ConnRow == [status : CONNECTION_STATES \cup {"none"}, epoch : Epoch,
            runtime : Runtime \cup {"none"}, live : BOOLEAN]

MsgRow == [state : MESSAGE_STATES \cup {"none"}, owner : Conn \cup {NoOne}, epoch : Epoch]

Db == [conn : [Conn -> ConnRow], msg : [Msg -> MsgRow],
       endpoint : {"none", "connected", "conflicted", "disconnected"}]

\* A request whose claim, if it has one, is held by a connection at its epoch.
Owned(d, m) ==
    d.msg[m].owner # NoOne =>
        /\ d.msg[m].state \in FENCED_FROM
        /\ d.conn[d.msg[m].owner].status = "active"
        /\ d.conn[d.msg[m].owner].epoch = d.msg[m].epoch

Claims(d) == \A m \in Msg : Owned(d, m)

OneRuntime(d) ==
    \A c, k \in Conn : d.conn[c].status = "active" /\ d.conn[k].status \in LEASED =>
        d.conn[k].status = "active" /\ d.conn[k].runtime = d.conn[c].runtime

EndpointSays(d) ==
    d.endpoint = IF \A c \in Conn : d.conn[c].status = "none" THEN "none"
                 ELSE IF \E c \in Conn : d.conn[c].status = "active" THEN "connected"
                 ELSE IF \E c \in Conn : d.conn[c].status = "conflicted" THEN "conflicted"
                 ELSE "disconnected"

GoodDb(d) == d \in Db /\ Claims(d) /\ OneRuntime(d) /\ EndpointSays(d)

\* Every lease of the database is live.
AllLive(d) == \A c \in Conn : d.conn[c].status \in LEASED => d.conn[c].live

\* The group transactions touch a request only to fence its claim.
Kept(x, y, m) == y.msg[m] = x.msg[m] \/ (x.msg[m].owner # NoOne /\ y.msg[m] = Fenced)

Follows(x, y) == \A m \in Msg : Kept(x, y, m)

-----------------------------------------------------------------------------
(* The pieces of the transactions. *)

\* The fields of a record that gets a new msg.
LEMMA WithMsg ==
    ASSUME NEW d \in Db, NEW f \in [Msg -> MsgRow]
    PROVE  LET n == [d EXCEPT !.msg = f]
           IN  n \in Db /\ n.conn = d.conn /\ n.msg = f /\ n.endpoint = d.endpoint
BY DEF Db

LEMMA WithConn ==
    ASSUME NEW d \in Db, NEW f \in [Conn -> ConnRow]
    PROVE  LET n == [d EXCEPT !.conn = f]
           IN  n \in Db /\ n.conn = f /\ n.msg = d.msg /\ n.endpoint = d.endpoint
BY DEF Db

LEMMA DbFields ==
    ASSUME NEW d \in Db
    PROVE  /\ d.conn \in [Conn -> ConnRow] /\ d.msg \in [Msg -> MsgRow]
           /\ \A c \in Conn : d.conn[c] \in ConnRow
           /\ \A m \in Msg : d.msg[m] \in MsgRow
BY DEF Db

LEMMA FencedRow == Fenced \in MsgRow /\ Fenced.owner = NoOne
BY PeersAssumption DEF Fenced, MsgRow, MESSAGE_STATES

\* Fencing the claims of C leaves no claim of C.
LEMMA FenceFacts ==
    ASSUME NEW d \in Db, NEW C
    PROVE  LET n == _fence_connection_claims_tx(d, C)
           IN  /\ n \in Db /\ n.conn = d.conn /\ n.endpoint = d.endpoint
               /\ \A m \in Msg : n.msg[m] = IF d.msg[m].owner \in C /\ d.msg[m].state \in FENCED_FROM
                                            THEN Fenced ELSE d.msg[m]
<1>. DEFINE f == [m \in Msg |-> IF d.msg[m].owner \in C /\ d.msg[m].state \in FENCED_FROM
                                THEN Fenced ELSE d.msg[m]]
<1>1. f \in [Msg -> MsgRow]
  BY DbFields, FencedRow
<1>2. _fence_connection_claims_tx(d, C) = [d EXCEPT !.msg = f]
  BY DEF _fence_connection_claims_tx
<1>3. \A m \in Msg : f[m] = IF d.msg[m].owner \in C /\ d.msg[m].state \in FENCED_FROM
                            THEN Fenced ELSE d.msg[m]
  OBVIOUS
<1>. HIDE DEF f
<1>. QED
  BY <1>1, <1>2, <1>3, WithMsg

\* What reconciling leaves of a group whose leases are all live.
LEMMA ReconcileGood ==
    ASSUME NEW d \in Db, Claims(d), AllLive(d), \E c \in Conn : d.conn[c].status # "none"
    PROVE  LET n == _reconcile_connection_group_tx(d)
           IN  /\ GoodDb(n) /\ AllLive(n) /\ Follows(d, n)
               /\ \A c \in Conn : /\ n.conn[c].epoch = d.conn[c].epoch
                                  /\ n.conn[c].status \in LEASED <=> d.conn[c].status \in LEASED
                                  /\ n.conn[c].status = "none" <=> d.conn[c].status = "none"
<1>. DEFINE live == Live(d)
            runtimes == {d.conn[c].runtime : c \in live}
            contested == Cardinality(runtimes) > 1
            s == IF contested THEN "conflicted" ELSE "active"
            row(c) == [d.conn[c] EXCEPT !.status = s]
            f == [c \in Conn |-> IF c \in live THEN row(c) ELSE d.conn[c]]
            e == IF contested THEN "conflicted"
                 ELSE IF live # {} THEN "connected" ELSE "disconnected"
            settled == [d EXCEPT !.conn = f, !.endpoint = e]
            n == _reconcile_connection_group_tx(d)
<1>1. n = IF contested THEN _fence_connection_claims_tx(settled, live) ELSE settled
  BY DEF _reconcile_connection_group_tx
<1>2. live \subseteq Conn /\ \A c \in Conn : c \in live <=> d.conn[c].status \in LEASED
  BY DEF AllLive, Live
<1>3. /\ contested => live # {}
      /\ ~contested => \A c, k \in live : d.conn[c].runtime = d.conn[k].runtime
  <2>1. IsFiniteSet(live)
    BY <1>2, PeersAssumption, FS_Subset
  <2>2. IsFiniteSet(runtimes)
    <3>. DEFINE r == [c \in live |-> d.conn[c].runtime]
    <3>1. r \in [live -> runtimes] /\ \A x \in runtimes : \E c \in live : r[c] = x
      OBVIOUS
    <3>. HIDE DEF r, runtimes
    <3>2. r \in Surjection(live, runtimes)
      BY <3>1, Fun_IsSurj
    <3>. QED
      BY <2>1, <3>2, FS_Surjection
  <2>3. Cardinality(runtimes) \in Nat /\ (Cardinality(runtimes) = 0 <=> runtimes = {})
    BY <2>2, FS_CardinalityType, FS_EmptySet
  <2>4. contested => live # {}
    BY <2>3
  <2>5. ASSUME ~contested, NEW c \in live, NEW k \in live
        PROVE  d.conn[c].runtime = d.conn[k].runtime
    <3>1. d.conn[c].runtime \in runtimes /\ d.conn[k].runtime \in runtimes
      OBVIOUS
    <3>. HIDE DEF runtimes
    <3>2. Cardinality(runtimes) = 1
      BY <2>3, <2>5, <3>1
    <3>3. \E x : runtimes = {x}
      BY <2>2, <3>2, FS_Singleton
    <3>. QED
      BY <3>1, <3>3
  <2>. QED
    BY <2>4, <2>5
<1>. HIDE DEF live, contested
<1>4. ASSUME NEW c \in Conn
      PROVE  /\ row(c) \in ConnRow /\ row(c).status = s /\ row(c).epoch = d.conn[c].epoch
             /\ row(c).runtime = d.conn[c].runtime /\ row(c).live = d.conn[c].live
  <2>1. d.conn[c] \in ConnRow /\ s \in CONNECTION_STATES
    BY DbFields DEF CONNECTION_STATES
  <2>. HIDE DEF s
  <2>. QED
    BY <2>1 DEF ConnRow
<1>5. f \in [Conn -> ConnRow] /\ \A c \in Conn : f[c] = IF c \in live THEN row(c) ELSE d.conn[c]
  BY <1>4, DbFields
<1>6. settled \in Db /\ settled.conn = f /\ settled.msg = d.msg /\ settled.endpoint = e
  <2>1. e \in {"none", "connected", "conflicted", "disconnected"}
    OBVIOUS
  <2>. HIDE DEF e, f
  <2>. QED
    BY <1>5, <2>1 DEF Db
<1>. HIDE DEF f, row, settled
<1>7. /\ n \in Db /\ n.conn = f /\ n.endpoint = e
      /\ \A m \in Msg : n.msg[m] = IF contested /\ d.msg[m].owner \in live
                                      /\ d.msg[m].state \in FENCED_FROM
                                   THEN Fenced ELSE d.msg[m]
  BY <1>1, <1>6, FenceFacts
<1>. HIDE DEF n
<1>8. ASSUME NEW c \in Conn
      PROVE  /\ n.conn[c].epoch = d.conn[c].epoch /\ n.conn[c].live = d.conn[c].live
             /\ n.conn[c].runtime = d.conn[c].runtime
             /\ c \in live => n.conn[c].status = s
             /\ c \notin live => n.conn[c].status = d.conn[c].status
  BY <1>4, <1>5, <1>7
<1>9. Follows(d, n)
  BY <1>7, PeersAssumption, <1>2 DEF Follows, Kept
<1>10. AllLive(n) /\ \A c \in Conn :
          /\ n.conn[c].status \in LEASED <=> d.conn[c].status \in LEASED
          /\ n.conn[c].status = "none" <=> d.conn[c].status = "none"
  BY <1>2, <1>8 DEF AllLive
<1>11. Claims(n)
  <2>. SUFFICES ASSUME NEW m \in Msg, n.msg[m].owner # NoOne
                PROVE  /\ n.msg[m].state \in FENCED_FROM
                       /\ n.conn[n.msg[m].owner].status = "active"
                       /\ n.conn[n.msg[m].owner].epoch = n.msg[m].epoch
    BY DEF Claims, Owned
  <2>1. n.msg[m] = d.msg[m]
    BY <1>9, FencedRow DEF Follows, Kept
  <2>2. /\ d.msg[m].state \in FENCED_FROM /\ d.msg[m].owner \in Conn
        /\ d.conn[d.msg[m].owner].status = "active"
        /\ d.conn[d.msg[m].owner].epoch = d.msg[m].epoch
    BY <2>1, DbFields DEF Claims, Owned, MsgRow
  <2>3. d.msg[m].owner \in live
    BY <1>2, <2>2
  <2>4. ~contested
    BY <1>7, <2>2, <2>3, <2>1, FencedRow
  <2>. QED
    BY <1>8, <2>1, <2>2, <2>3, <2>4
<1>12. OneRuntime(n)
  BY <1>2, <1>3, <1>8 DEF OneRuntime
<1>13. EndpointSays(n)
  <2>1. \E c \in Conn : n.conn[c].status # "none"
    BY <1>10
  <2>2. CASE contested
    BY <1>2, <1>3, <1>7, <1>8, <2>1, <2>2 DEF EndpointSays
  <2>3. CASE ~contested /\ live # {}
    BY <1>2, <1>7, <1>8, <2>1, <2>3 DEF EndpointSays
  <2>4. CASE ~contested /\ live = {}
    BY <1>2, <1>7, <1>8, <2>1, <2>4 DEF EndpointSays
  <2>. QED
    BY <2>2, <2>3, <2>4
<1>. QED
  BY <1>7, <1>8, <1>9, <1>10, <1>11, <1>12, <1>13 DEF GoodDb, n

\* Expiring ends every lease that ran out and fences its claims.
LEMMA ExpireGood ==
    ASSUME NEW d, GoodDb(d)
    PROVE  LET n == _expire_connections_tx(d)
           IN  /\ GoodDb(n) /\ AllLive(n) /\ Follows(d, n)
               /\ \A c \in Conn : /\ n.conn[c].epoch = d.conn[c].epoch
                                  /\ n.conn[c].status = "none" <=> d.conn[c].status = "none"
<1>. DEFINE stale == Stale(d)
            row(c) == [d.conn[c] EXCEPT !.status = "expired"]
            f == [c \in Conn |-> IF c \in stale THEN row(c) ELSE d.conn[c]]
            expired == [d EXCEPT !.conn = f]
            x == _fence_connection_claims_tx(expired, stale)
            n == _expire_connections_tx(d)
<1>0. d \in Db /\ Claims(d)
  BY DEF GoodDb
<1>1. n = IF stale = {} THEN d ELSE _reconcile_connection_group_tx(x)
  BY DEF _expire_connections_tx
<1>2. /\ stale \subseteq Conn
      /\ \A c \in Conn : c \in stale <=> d.conn[c].status \in LEASED /\ ~d.conn[c].live
  BY DEF Stale
<1>. HIDE DEF stale
<1>3. ASSUME NEW c \in Conn
      PROVE  /\ row(c) \in ConnRow /\ row(c).status = "expired"
             /\ row(c).epoch = d.conn[c].epoch
  BY <1>0, DbFields DEF ConnRow, CONNECTION_STATES
<1>4. f \in [Conn -> ConnRow] /\ \A c \in Conn : f[c] = IF c \in stale THEN row(c) ELSE d.conn[c]
  BY <1>0, <1>3, DbFields
<1>. HIDE DEF row, f
<1>5. expired \in Db /\ expired.conn = f /\ expired.msg = d.msg
  BY <1>0, <1>4, WithConn
<1>. HIDE DEF expired
<1>6. /\ x \in Db /\ x.conn = f
      /\ \A m \in Msg : x.msg[m] = IF d.msg[m].owner \in stale /\ d.msg[m].state \in FENCED_FROM
                                    THEN Fenced ELSE d.msg[m]
  BY <1>5, FenceFacts
<1>. HIDE DEF x
<1>7. Follows(d, x)
  BY <1>2, <1>6, PeersAssumption DEF Follows, Kept
<1>8. Claims(x)
  <2>. SUFFICES ASSUME NEW m \in Msg, x.msg[m].owner # NoOne
                PROVE  /\ x.msg[m].state \in FENCED_FROM
                       /\ x.conn[x.msg[m].owner].status = "active"
                       /\ x.conn[x.msg[m].owner].epoch = x.msg[m].epoch
    BY DEF Claims, Owned
  <2>1. x.msg[m] = d.msg[m]
    BY <1>7, FencedRow DEF Follows, Kept
  <2>2. /\ d.msg[m].state \in FENCED_FROM /\ d.msg[m].owner \in Conn
        /\ d.conn[d.msg[m].owner].status = "active"
        /\ d.conn[d.msg[m].owner].epoch = d.msg[m].epoch
    BY <1>0, <2>1, DbFields DEF Claims, Owned, MsgRow
  <2>3. d.msg[m].owner \notin stale
    BY <1>6, <2>1, <2>2, FencedRow
  <2>. QED
    BY <1>4, <1>6, <2>1, <2>2, <2>3
<1>9. AllLive(x)
  BY <1>2, <1>3, <1>4, <1>6 DEF AllLive
<1>10. \A c \in Conn : /\ x.conn[c].epoch = d.conn[c].epoch
                       /\ x.conn[c].status = "none" <=> d.conn[c].status = "none"
  BY <1>2, <1>3, <1>4, <1>6
<1>11. CASE stale = {}
  <2>1. n = d
    BY <1>1, <1>11
  <2>. HIDE DEF n
  <2>. QED
    BY <1>2, <1>11, <2>1 DEF AllLive, Follows, Kept, n
<1>12. CASE stale # {}
  <2>1. n = _reconcile_connection_group_tx(x)
    BY <1>1, <1>12
  <2>. HIDE DEF n
  <2>2. \E c \in Conn : x.conn[c].status # "none"
    BY <1>2, <1>10, <1>12
  <2>3. /\ GoodDb(n) /\ AllLive(n) /\ Follows(x, n)
        /\ \A c \in Conn : /\ n.conn[c].epoch = x.conn[c].epoch
                           /\ n.conn[c].status = "none" <=> x.conn[c].status = "none"
    BY <1>6, <1>8, <1>9, <2>1, <2>2, ReconcileGood
  <2>4. Follows(d, n)
    BY <1>7, <2>3, FencedRow DEF Follows, Kept
  <2>. QED
    BY <1>10, <2>3, <2>4 DEF n
<1>. QED
  BY <1>11, <1>12

-----------------------------------------------------------------------------
(* Transactions. *)

LEMMA FollowsTrans ==
    ASSUME NEW x, NEW y, NEW z, Follows(x, y), Follows(y, z)
    PROVE  Follows(x, z)
BY FencedRow DEF Follows, Kept

\* Rewriting the row of one connection and reconciling its group.
LEMMA Regroup ==
    ASSUME NEW d, GoodDb(d), AllLive(d), NEW c \in Conn, NEW x \in Db, Follows(d, x),
           \A k \in Conn : k # c => x.conn[k] = d.conn[k],
           x.conn[c].status # "none", x.conn[c].status \in LEASED => x.conn[c].live,
           \A m \in Msg : x.msg[m].owner = c /\ x.msg[m].state \in FENCED_FROM =>
              x.conn[c].status = "active" /\ x.conn[c].epoch = x.msg[m].epoch
    PROVE  LET n == _reconcile_connection_group_tx(x)
           IN  GoodDb(n) /\ AllLive(n) /\ Follows(d, n)
<1>. DEFINE n == _reconcile_connection_group_tx(x)
<1>1. AllLive(x)
  BY DEF AllLive
<1>2. Claims(x)
  <2>. SUFFICES ASSUME NEW m \in Msg, x.msg[m].owner # NoOne
                PROVE  /\ x.msg[m].state \in FENCED_FROM
                       /\ x.conn[x.msg[m].owner].status = "active"
                       /\ x.conn[x.msg[m].owner].epoch = x.msg[m].epoch
    BY DEF Claims, Owned
  <2>1. x.msg[m] = d.msg[m]
    BY FencedRow DEF Follows, Kept
  <2>2. /\ d.msg[m].state \in FENCED_FROM /\ d.msg[m].owner \in Conn
        /\ d.conn[d.msg[m].owner].status = "active"
        /\ d.conn[d.msg[m].owner].epoch = d.msg[m].epoch
    BY <2>1, DbFields DEF GoodDb, Claims, Owned, MsgRow
  <2>3. CASE d.msg[m].owner = c
    BY <2>1, <2>2, <2>3
  <2>4. CASE d.msg[m].owner # c
    BY <2>1, <2>2, <2>4
  <2>. QED
    BY <2>3, <2>4
<1>3. GoodDb(n) /\ AllLive(n) /\ Follows(x, n)
  BY <1>1, <1>2, ReconcileGood
<1>. HIDE DEF n
<1>4. Follows(d, n)
  BY <1>3, FollowsTrans
<1>. QED
  BY <1>3, <1>4 DEF n

\* The table after one connection row was rewritten.
LEMMA WithRow ==
    ASSUME NEW d \in Db, NEW c \in Conn, NEW r \in ConnRow
    PROVE  LET f == [d.conn EXCEPT ![c] = r]
           IN  f \in [Conn -> ConnRow] /\ f[c] = r /\ \A k \in Conn : k # c => f[k] = d.conn[k]
BY DbFields

LEMMA TouchedGood ==
    ASSUME NEW d, GoodDb(d), AllLive(d), NEW c \in Conn, d.conn[c].status \in LEASED
    PROVE  GoodDb(touched(d, c)) /\ AllLive(touched(d, c)) /\ Follows(d, touched(d, c))
<1>. DEFINE r == [d.conn[c] EXCEPT !.live = TRUE]
            f == [d.conn EXCEPT ![c] = r]
            x == [d EXCEPT !.conn = f]
<1>0. d \in Db /\ Claims(d)
  BY DEF GoodDb
<1>1. /\ r \in ConnRow /\ r.live /\ r.status = d.conn[c].status
      /\ r.epoch = d.conn[c].epoch
  BY <1>0, DbFields DEF ConnRow
<1>2. touched(d, c) = _reconcile_connection_group_tx(x)
  BY DEF touched
<1>. HIDE DEF r
<1>2a. f \in [Conn -> ConnRow] /\ f[c] = r /\ \A k \in Conn : k # c => f[k] = d.conn[k]
  BY <1>0, <1>1, WithRow
<1>. HIDE DEF f
<1>2b. x \in Db /\ x.conn = f /\ x.msg = d.msg
  BY <1>0, <1>2a, WithConn
<1>. HIDE DEF x
<1>3. /\ x.conn[c] = r /\ \A k \in Conn : k # c => x.conn[k] = d.conn[k]
      /\ x \in Db /\ x.msg = d.msg
  BY <1>2a, <1>2b
<1>4. Follows(d, x)
  BY <1>3 DEF Follows, Kept
<1>5. \A m \in Msg : x.msg[m].owner = c /\ x.msg[m].state \in FENCED_FROM =>
        x.conn[c].status = "active" /\ x.conn[c].epoch = x.msg[m].epoch
  BY <1>0, <1>1, <1>3, PeersAssumption DEF Claims, Owned
<1>6. x.conn[c].status # "none" /\ x.conn[c].live
  BY <1>1, <1>3
<1>. HIDE DEF LEASED, FENCED_FROM
<1>7. LET n == _reconcile_connection_group_tx(x)
      IN  GoodDb(n) /\ AllLive(n) /\ Follows(d, n)
  BY <1>3, <1>4, <1>5, <1>6, Regroup
<1>. QED
  BY <1>2, <1>7

\* What a settlement or an answer leaves of the request m.
LEMMA SetStateFacts ==
    ASSUME NEW d \in Db, NEW m \in Msg, NEW s \in MESSAGE_STATES, NEW release \in BOOLEAN
    PROVE  LET n == SetState(d, m, s, release)
           IN  /\ n \in Db /\ n.conn = d.conn /\ n.endpoint = d.endpoint
               /\ \A k \in Msg : k # m => n.msg[k] = d.msg[k]
               /\ n.msg[m].state = s
               /\ n.msg[m].owner = IF release THEN NoOne ELSE d.msg[m].owner
               /\ n.msg[m].epoch = IF release THEN 0 ELSE d.msg[m].epoch
<1>. DEFINE o == IF release THEN NoOne ELSE d.msg[m].owner
            e == IF release THEN 0 ELSE d.msg[m].epoch
            r == [d.msg[m] EXCEPT !.state = s, !.owner = o, !.epoch = e]
            f == [d.msg EXCEPT ![m] = r]
<1>0. d.msg[m] \in MsgRow
  BY DbFields
<1>2. SetState(d, m, s, release) = [d EXCEPT !.msg = f]
  BY DEF SetState
<1>3a. o \in Conn \cup {NoOne} /\ e \in Epoch
  BY <1>0, PeersAssumption DEF MsgRow
<1>. HIDE DEF o, e
<1>1. r \in MsgRow /\ r.state = s /\ r.owner = o /\ r.epoch = e
  BY <1>0, <1>3a DEF MsgRow
<1>. HIDE DEF r
<1>3. f \in [Msg -> MsgRow] /\ f[m] = r /\ \A k \in Msg : k # m => f[k] = d.msg[k]
  BY <1>1, DbFields
<1>. DEFINE n == SetState(d, m, s, release)
<1>. HIDE DEF f
<1>4. n \in Db /\ n.conn = d.conn /\ n.msg = f /\ n.endpoint = d.endpoint
  BY <1>2, <1>3, WithMsg
<1>. HIDE DEF n
<1>5. n.msg[m] = r /\ \A k \in Msg : k # m => n.msg[k] = d.msg[k]
  BY <1>3, <1>4
<1>. QED
  BY <1>1, <1>4, <1>5 DEF n, o, e

\* A change of requests that leaves their claims owned.
LEMMA GoodByMsg ==
    ASSUME NEW d, GoodDb(d), NEW n \in Db, n.conn = d.conn, n.endpoint = d.endpoint, Claims(n)
    PROVE  GoodDb(n)
BY DEF GoodDb, OneRuntime, EndpointSays

\* A request without a claim, or one that loses it, or one whose state keeps it.
LEMMA SetStateGood ==
    ASSUME NEW d, GoodDb(d), NEW m \in Msg, NEW s \in MESSAGE_STATES, NEW release \in BOOLEAN,
           release \/ s \in FENCED_FROM \/ d.msg[m].owner = NoOne
    PROVE  GoodDb(SetState(d, m, s, release))
<1>. DEFINE n == SetState(d, m, s, release)
<1>0. d \in Db /\ Claims(d)
  BY DEF GoodDb
<1>1. /\ n \in Db /\ n.conn = d.conn /\ n.endpoint = d.endpoint
      /\ \A k \in Msg : k # m => n.msg[k] = d.msg[k]
      /\ n.msg[m].state = s
      /\ n.msg[m].owner = IF release THEN NoOne ELSE d.msg[m].owner
      /\ n.msg[m].epoch = IF release THEN 0 ELSE d.msg[m].epoch
  BY <1>0, SetStateFacts
<1>. HIDE DEF n
<1>2. Claims(n)
  BY <1>0, <1>1 DEF Claims, Owned
<1>3. GoodDb(n)
  BY <1>1, <1>2, GoodByMsg
<1>. QED
  BY <1>3 DEF n

-----------------------------------------------------------------------------
(* Steps. *)

Task == [phase : {"none", "attaching", "claimed", "written"},
         c : Conn \cup {NoOne}, epoch : Epoch, m : 0..NMsg]

GoodTask(t) ==
    /\ t \in Task
    /\ t.phase # "none" => t.c \in Conn
    /\ t.phase \in {"claimed", "written"} => t.m \in Msg

\* h counts the requests of d handed to a delivery task.
Handed(d, h) ==
    /\ h \in [Msg -> Nat]
    /\ \A m \in Msg : /\ h[m] <= 1
                      /\ h[m] > 0 => /\ d.msg[m].state \notin {"none", "persisted"}
                                     /\ d.msg[m].state = "queued" => d.msg[m].owner # NoOne

\* No answer is taken back.
Answers(x, y) == \A m \in Msg : x.msg[m].state = "replied" => y.msg[m].state = "replied"

LEMMA DbIs == db.conn = conn /\ db.msg = msg /\ db.endpoint = endpoint
BY DEF db

LEMMA InvFacts ==
    ASSUME PeersInv
    PROVE  /\ GoodDb(db) /\ Handed(db, handed) /\ GoodTask(task)
           /\ up \in BOOLEAN /\ crashes \in 0..MaxCrashes
<1>1. db \in Db
  BY DEF PeersInv, PeersTypeOK, db, Db, ConnRow, MsgRow
<1>2. Claims(db) /\ OneRuntime(db) /\ EndpointSays(db)
  BY DbIs DEF PeersInv, ClaimIsOwned, OneRuntimeOwns, EndpointIsExact, Claims, Owned,
     OneRuntime, EndpointSays
<1>3. Handed(db, handed)
  BY DbIs DEF PeersInv, PeersTypeOK, HandedOnce, HandedIsNotWaiting, Handed
<1>. QED
  BY <1>1, <1>2, <1>3 DEF GoodDb, GoodTask, Task, PeersInv, PeersTypeOK

\* The invariant of the next state from its parts.
LEMMA InvFromDb ==
    ASSUME NEW d, Commit(d), GoodDb(d), Handed(d, handed'), GoodTask(task'),
           up' \in BOOLEAN, crashes' \in 0..MaxCrashes
    PROVE  PeersInv'
<1>1. conn' = d.conn /\ msg' = d.msg /\ endpoint' = d.endpoint
  BY DEF Commit
<1>2. PeersTypeOK'
  BY <1>1 DEF PeersTypeOK, GoodDb, Db, ConnRow, MsgRow, GoodTask, Task, Handed
<1>3. ClaimIsOwned' /\ OneRuntimeOwns' /\ EndpointIsExact'
  BY <1>1 DEF GoodDb, ClaimIsOwned, OneRuntimeOwns, EndpointIsExact, Claims, Owned,
     OneRuntime, EndpointSays
<1>4. HandedOnce' /\ HandedIsNotWaiting'
  BY <1>1 DEF HandedOnce, HandedIsNotWaiting, Handed
<1>. QED
  BY <1>2, <1>3, <1>4 DEF PeersInv

AnswersKept == \A m \in Msg : msg[m].state = "replied" => msg'[m].state = "replied"

LEMMA AnswersKeptBy ==
    ASSUME NEW d, Commit(d), Answers(db, d)
    PROVE  AnswersKept
BY DbIs DEF Commit, Answers, AnswersKept

\* A transaction that only fences keeps answers and the count.
LEMMA FollowsKeeps ==
    ASSUME NEW x, GoodDb(x), NEW y, Follows(x, y), NEW h, Handed(x, h)
    PROVE  Answers(x, y) /\ Handed(y, h)
<1>1. \A m \in Msg : x.msg[m].owner # NoOne => x.msg[m].state \in FENCED_FROM
  BY DEF GoodDb, Claims, Owned
<1>2. Fenced.state = "unknown"
  BY DEF Fenced
<1>3. Answers(x, y)
  BY <1>1 DEF Follows, Kept, Answers
<1>4. Handed(y, h)
  BY <1>2 DEF Follows, Kept, Handed
<1>. QED
  BY <1>3, <1>4

\* A step that commits such a transaction and nothing else of the requests.
LEMMA FollowingStep ==
    ASSUME PeersInv, NEW d, Commit(d), GoodDb(d), Follows(db, d), handed' = handed,
           GoodTask(task'), up' \in BOOLEAN, crashes' \in 0..MaxCrashes
    PROVE  PeersInv' /\ AnswersKept
BY InvFacts, FollowsKeeps, InvFromDb, AnswersKeptBy

\* The database as every service method finds it.
LEMMA Expired ==
    ASSUME PeersInv
    PROVE  LET d == _expire_connections_tx(db)
           IN  /\ GoodDb(d) /\ AllLive(d) /\ Follows(db, d) /\ d \in Db
               /\ Answers(db, d) /\ Handed(d, handed)
               /\ \A c \in Conn : d.conn[c].status = "none" <=> db.conn[c].status = "none"
<1>. DEFINE d == _expire_connections_tx(db)
<1>1. GoodDb(db) /\ Handed(db, handed)
  BY InvFacts
<1>2. /\ GoodDb(d) /\ AllLive(d) /\ Follows(db, d)
      /\ \A c \in Conn : d.conn[c].status = "none" <=> db.conn[c].status = "none"
  BY <1>1, ExpireGood
<1>. HIDE DEF d
<1>3. Answers(db, d) /\ Handed(d, handed)
  BY <1>1, <1>2, FollowsKeeps
<1>. QED
  BY <1>2, <1>3 DEF d, GoodDb

LEMMA InitInv == Init => PeersInv
<1>. SUFFICES ASSUME Init PROVE PeersInv
  OBVIOUS
<1>1. PeersTypeOK
  BY PeersAssumption DEF Init, PeersTypeOK, NoTask
<1>2. ClaimIsOwned /\ OneRuntimeOwns /\ EndpointIsExact /\ HandedOnce /\ HandedIsNotWaiting
  BY DEF Init, ClaimIsOwned, OneRuntimeOwns, EndpointIsExact, HandedOnce, HandedIsNotWaiting
<1>. QED
  BY <1>1, <1>2 DEF PeersInv

-----------------------------------------------------------------------------
(* Connections. *)

LEMMA RegisterInv ==
    ASSUME PeersInv, NEW c \in Conn, NEW r \in Runtime, NEW e \in 1..MaxEpoch,
           register_connection(c, r, e)
    PROVE  PeersInv' /\ AnswersKept
<1>. DEFINE d == _expire_connections_tx(db)
            own == IF e > d.conn[c].epoch THEN _fence_connection_claims_tx(d, {c}) ELSE d
            row == [status |-> "active", epoch |-> e, runtime |-> r, live |-> TRUE]
            f == [own.conn EXCEPT ![c] = row]
            x == [own EXCEPT !.conn = f]
            n == _reconcile_connection_group_tx(x)
<1>1. registrable(d, c, r, e) /\ Commit(n) /\ UNCHANGED <<task, up, handed, crashes>>
  BY DEF register_connection
<1>2. GoodDb(d) /\ AllLive(d) /\ Follows(db, d) /\ d \in Db
  BY Expired
<1>. HIDE DEF d
<1>3. /\ own \in Db /\ own.conn = d.conn
      /\ \A m \in Msg : own.msg[m] = IF /\ e > d.conn[c].epoch /\ d.msg[m].owner = c
                                         /\ d.msg[m].state \in FENCED_FROM
                                      THEN Fenced ELSE d.msg[m]
  BY <1>2, FenceFacts
<1>. HIDE DEF own
<1>4. Follows(d, own)
  BY <1>3, PeersAssumption DEF Follows, Kept
<1>5. /\ row \in ConnRow /\ row.status = "active" /\ row.epoch = e /\ row.live
  BY PeersAssumption DEF ConnRow, CONNECTION_STATES
<1>. HIDE DEF row
<1>6. f \in [Conn -> ConnRow] /\ f[c] = row /\ \A k \in Conn : k # c => f[k] = own.conn[k]
  BY <1>3, <1>5, WithRow
<1>. HIDE DEF f
<1>7. x \in Db /\ x.conn = f /\ x.msg = own.msg
  BY <1>3, <1>6, WithConn
<1>. HIDE DEF x
<1>8. Follows(d, x)
  BY <1>4, <1>7 DEF Follows, Kept
<1>9. ASSUME NEW m \in Msg, x.msg[m].owner = c, x.msg[m].state \in FENCED_FROM
      PROVE  x.conn[c].epoch = x.msg[m].epoch
  <2>1. x.msg[m] = d.msg[m] /\ ~(e > d.conn[c].epoch)
    BY <1>3, <1>7, <1>9, FencedRow, PeersAssumption
  <2>2. d.conn[c].status = "active" /\ d.conn[c].epoch = d.msg[m].epoch
    BY <1>2, <1>9, <2>1, PeersAssumption DEF GoodDb, Claims, Owned
  <2>3. e = d.conn[c].epoch
    BY <1>1, <2>1, <2>2 DEF registrable
  <2>. QED
    BY <1>5, <1>6, <1>7, <2>1, <2>2, <2>3
<1>10. /\ \A k \in Conn : k # c => x.conn[k] = d.conn[k]
       /\ x.conn[c].status = "active" /\ x.conn[c].live
  BY <1>3, <1>5, <1>6, <1>7
<1>11. GoodDb(n) /\ Follows(d, n)
  BY <1>2, <1>7, <1>8, <1>9, <1>10, Regroup
<1>. HIDE DEF n
<1>12. Follows(db, n)
  BY <1>2, <1>11, FollowsTrans
<1>. QED
  BY <1>1, <1>11, <1>12, InvFacts, FollowingStep

LEMMA TouchInv ==
    ASSUME PeersInv, NEW c \in Conn, touch_connection(c)
    PROVE  PeersInv' /\ AnswersKept
<1>. DEFINE d == _expire_connections_tx(db)
            n == touched(d, c)
<1>1. d.conn[c].status \in LEASED /\ Commit(n) /\ UNCHANGED <<task, up, handed, crashes>>
  BY DEF touch_connection
<1>2. GoodDb(d) /\ AllLive(d) /\ Follows(db, d)
  BY Expired
<1>. HIDE DEF d
<1>3. GoodDb(n) /\ Follows(d, n)
  BY <1>1, <1>2, TouchedGood
<1>. HIDE DEF n
<1>4. Follows(db, n)
  BY <1>2, <1>3, FollowsTrans
<1>. QED
  BY <1>1, <1>3, <1>4, InvFacts, FollowingStep

LEMMA CloseInv ==
    ASSUME PeersInv, NEW c \in Conn, close_connection(c)
    PROVE  PeersInv' /\ AnswersKept
<1>. DEFINE d == _expire_connections_tx(db)
            row == [d.conn[c] EXCEPT !.status = "closed"]
            f == [d.conn EXCEPT ![c] = row]
            closed == [d EXCEPT !.conn = f]
            x == _fence_connection_claims_tx(closed, {c})
            n == _reconcile_connection_group_tx(x)
<1>1. Commit(n) /\ UNCHANGED <<task, up, handed, crashes>>
  BY DEF close_connection
<1>2. GoodDb(d) /\ AllLive(d) /\ Follows(db, d) /\ d \in Db
  BY Expired
<1>. HIDE DEF d
<1>3. row \in ConnRow /\ row.status = "closed"
  BY <1>2, DbFields DEF ConnRow, CONNECTION_STATES
<1>. HIDE DEF row
<1>4. f \in [Conn -> ConnRow] /\ f[c] = row /\ \A k \in Conn : k # c => f[k] = d.conn[k]
  BY <1>2, <1>3, WithRow
<1>. HIDE DEF f
<1>5. closed \in Db /\ closed.conn = f /\ closed.msg = d.msg
  BY <1>2, <1>4, WithConn
<1>. HIDE DEF closed
<1>6. /\ x \in Db /\ x.conn = f
      /\ \A m \in Msg : x.msg[m] = IF d.msg[m].owner = c /\ d.msg[m].state \in FENCED_FROM
                                    THEN Fenced ELSE d.msg[m]
  BY <1>5, FenceFacts
<1>. HIDE DEF x
<1>7. Follows(d, x)
  BY <1>6, PeersAssumption DEF Follows, Kept
<1>8. ASSUME NEW m \in Msg, x.msg[m].owner = c, x.msg[m].state \in FENCED_FROM PROVE FALSE
  BY <1>6, <1>8, FencedRow, PeersAssumption
<1>9. /\ \A k \in Conn : k # c => x.conn[k] = d.conn[k]
      /\ x.conn[c].status = "closed"
  BY <1>3, <1>4, <1>6
<1>10. GoodDb(n) /\ Follows(d, n)
  BY <1>2, <1>6, <1>7, <1>8, <1>9, Regroup
<1>. HIDE DEF n
<1>11. Follows(db, n)
  BY <1>2, <1>10, FollowsTrans
<1>. QED
  BY <1>1, <1>10, <1>11, InvFacts, FollowingStep

LEMMA RunsOutInv ==
    ASSUME PeersInv, NEW c \in Conn, lease_runs_out(c)
    PROVE  PeersInv' /\ AnswersKept
<1>. DEFINE row == [conn[c] EXCEPT !.live = FALSE]
            f == [db.conn EXCEPT ![c] = row]
            n == [db EXCEPT !.conn = f]
<1>0. GoodDb(db) /\ db \in Db
  BY InvFacts DEF GoodDb
<1>1. conn' = f /\ UNCHANGED <<msg, endpoint, task, up, handed, crashes>>
  BY DbIs DEF lease_runs_out
<1>2. /\ row \in ConnRow /\ row.status = conn[c].status /\ row.epoch = conn[c].epoch
      /\ row.runtime = conn[c].runtime
  <2>1. conn[c] \in ConnRow
    BY <1>0, DbIs, DbFields
  <2>. QED
    BY ONLY <2>1 DEF ConnRow
<1>. HIDE DEF row
<1>3. f \in [Conn -> ConnRow] /\ f[c] = row /\ \A k \in Conn : k # c => f[k] = conn[k]
  BY <1>0, <1>2, DbIs, WithRow
<1>. HIDE DEF f
<1>4. n \in Db /\ n.conn = f /\ n.msg = db.msg /\ n.endpoint = db.endpoint
  BY <1>0, <1>3, WithConn
<1>. HIDE DEF n
<1>5. Commit(n) /\ Follows(db, n)
  BY <1>1, <1>4, DbIs DEF Commit, Follows, Kept
<1>6. \A k \in Conn : /\ n.conn[k].status = db.conn[k].status
                      /\ n.conn[k].epoch = db.conn[k].epoch
                      /\ n.conn[k].runtime = db.conn[k].runtime
  BY <1>2, <1>3, <1>4, DbIs
<1>7. Claims(n)
  <2>1. \A m \in Msg : db.msg[m].owner \in Conn \cup {NoOne}
    BY <1>0, DbFields DEF MsgRow
  <2>. QED
    BY <1>0, <1>4, <1>6, <2>1 DEF GoodDb, Claims, Owned
<1>8. OneRuntime(n) /\ EndpointSays(n)
  BY <1>0, <1>4, <1>6 DEF GoodDb, OneRuntime, EndpointSays
<1>9. GoodDb(n)
  BY <1>4, <1>7, <1>8 DEF GoodDb
<1>. QED
  BY <1>1, <1>5, <1>9, InvFacts, FollowingStep

LEMMA ExpireInv ==
    ASSUME PeersInv, expire_connections
    PROVE  PeersInv' /\ AnswersKept
<1>. DEFINE d == _expire_connections_tx(db)
<1>1. Commit(d) /\ UNCHANGED <<task, up, handed, crashes>>
  BY DEF expire_connections
<1>2. GoodDb(d) /\ Follows(db, d)
  BY Expired
<1>. HIDE DEF d
<1>. QED
  BY <1>1, <1>2, InvFacts, FollowingStep

-----------------------------------------------------------------------------
(* Requests. *)

LEMMA SendInv ==
    ASSUME PeersInv, NEW m \in Msg, NEW s \in {"queued", "unknown", "persisted"},
           msg[m].state = "none", Commit(SetState(db, m, s, FALSE)),
           handed' = handed, GoodTask(task'), up' \in BOOLEAN, crashes' \in 0..MaxCrashes
    PROVE  PeersInv' /\ AnswersKept
<1>. DEFINE n == SetState(db, m, s, FALSE)
<1>0. GoodDb(db) /\ db \in Db /\ Handed(db, handed) /\ db.msg[m].state = "none"
  BY InvFacts, DbIs DEF GoodDb
<1>1. db.msg[m].owner = NoOne
  BY <1>0 DEF GoodDb, Claims, Owned
<1>2. s \in MESSAGE_STATES
  BY DEF MESSAGE_STATES
<1>3. GoodDb(n)
  BY <1>0, <1>1, <1>2, SetStateGood
<1>4. n.msg[m].state = s /\ \A k \in Msg : k # m => n.msg[k] = db.msg[k]
  <2>1. db \in Db /\ m \in Msg /\ s \in MESSAGE_STATES /\ FALSE \in BOOLEAN
    BY <1>0, <1>2
  <2>2. SetState(db, m, s, FALSE).msg[m].state = s
    BY ONLY <2>1, SetStateFacts
  <2>. QED
    BY ONLY <2>1, <2>2, SetStateFacts
<1>. HIDE DEF n
<1>5. Answers(db, n)
  BY <1>0, <1>4 DEF Answers
<1>6. Handed(n, handed)
  BY <1>0, <1>4 DEF Handed
<1>. QED
  BY <1>3, <1>5, <1>6, InvFromDb, AnswersKeptBy DEF n

\* An answer, or a receipt of the delivery, for a request that was sent.
LEMMA SettleGood ==
    ASSUME NEW d, GoodDb(d), NEW m \in Msg, NEW h, Handed(d, h), NEW release \in BOOLEAN,
           NEW s \in MESSAGE_STATES \ {"persisted", "queued"},
           release \/ s \in FENCED_FROM
    PROVE  LET n == SetState(d, m, s, release)
           IN  /\ GoodDb(n) /\ Handed(n, h)
               /\ d.msg[m].state # "replied" \/ s = "replied" => Answers(d, n)
<1>. DEFINE n == SetState(d, m, s, release)
<1>0. d \in Db
  BY DEF GoodDb
<1>1. GoodDb(n)
  BY SetStateGood
<1>2. n.msg[m].state = s /\ \A k \in Msg : k # m => n.msg[k] = d.msg[k]
  BY <1>0, SetStateFacts
<1>. HIDE DEF n
<1>3. s \notin {"none", "persisted", "queued"}
  BY DEF MESSAGE_STATES
<1>4. Handed(n, h)
  BY <1>2, <1>3 DEF Handed
<1>5. d.msg[m].state # "replied" \/ s = "replied" => Answers(d, n)
  BY <1>2 DEF Answers
<1>. QED
  BY <1>1, <1>4, <1>5 DEF n

LEMMA AnswersTrans ==
    ASSUME NEW x, NEW y, NEW z, Answers(x, y), Answers(y, z)
    PROVE  Answers(x, z)
BY DEF Answers

LEMMA ReplyInv ==
    ASSUME PeersInv, NEW c \in Conn, NEW m \in Msg, reply(c, m)
    PROVE  PeersInv' /\ AnswersKept
<1>. DEFINE d == _expire_connections_tx(db)
            t == touched(d, c)
            n == SetState(t, m, "replied", TRUE)
<1>1. d.conn[c].status \in LEASED /\ Commit(n) /\ UNCHANGED <<task, up, handed, crashes>>
  BY DEF reply
<1>2. GoodDb(d) /\ AllLive(d) /\ Answers(db, d) /\ Handed(d, handed)
  BY Expired
<1>. HIDE DEF d
<1>3. GoodDb(t) /\ Follows(d, t)
  BY <1>1, <1>2, TouchedGood
<1>. HIDE DEF t
<1>4. Answers(d, t) /\ Handed(t, handed)
  BY <1>2, <1>3, FollowsKeeps
<1>5. "replied" \in MESSAGE_STATES \ {"persisted", "queued"}
  BY DEF MESSAGE_STATES
<1>6. GoodDb(n) /\ Handed(n, handed) /\ Answers(t, n)
  BY <1>3, <1>4, <1>5, SettleGood
<1>. HIDE DEF n
<1>7. Answers(db, n)
  BY <1>2, <1>4, <1>6, AnswersTrans
<1>. QED
  BY <1>1, <1>6, <1>7, InvFacts, InvFromDb, AnswersKeptBy

\* The database after a request was claimed.
Claimed(d, m, c, e) == [d EXCEPT !.msg[m].owner = c, !.msg[m].epoch = e]

LEMMA ClaimedGood ==
    ASSUME NEW d, GoodDb(d), NEW h, Handed(d, h), NEW c \in Conn, NEW e \in Epoch,
           owns(d, c, e), NEW m \in claimable(d)
    PROVE  /\ GoodDb(Claimed(d, m, c, e)) /\ Answers(d, Claimed(d, m, c, e))
           /\ Handed(Claimed(d, m, c, e), [h EXCEPT ![m] = @ + 1])
<1>. DEFINE r == [d.msg[m] EXCEPT !.owner = c, !.epoch = e]
            f == [d.msg EXCEPT ![m] = r]
            n == Claimed(d, m, c, e)
<1>0. /\ d \in Db /\ Claims(d) /\ m \in Msg /\ d.msg[m] \in MsgRow
      /\ d.msg[m].state = "queued" /\ d.msg[m].owner = NoOne
  BY DbFields DEF GoodDb, claimable
<1>1. r \in MsgRow /\ r.state = "queued" /\ r.owner = c /\ r.epoch = e
  BY <1>0 DEF MsgRow
<1>2. n = [d EXCEPT !.msg = f]
  BY DEF Claimed
<1>. HIDE DEF r
<1>3. f \in [Msg -> MsgRow] /\ f[m] = r /\ \A k \in Msg : k # m => f[k] = d.msg[k]
  BY <1>0, <1>1, DbFields
<1>. HIDE DEF f, n
<1>4. n \in Db /\ n.conn = d.conn /\ n.endpoint = d.endpoint /\ n.msg = f
  BY <1>0, <1>2, <1>3, WithMsg
<1>5. Claims(n)
  BY <1>0, <1>1, <1>3, <1>4 DEF Claims, Owned, owns
<1>6. GoodDb(n)
  BY <1>4, <1>5, GoodByMsg
<1>7. Answers(d, n)
  BY <1>0, <1>3, <1>4 DEF Answers
<1>8. Handed(n, [h EXCEPT ![m] = @ + 1])
  <2>. DEFINE g == [h EXCEPT ![m] = @ + 1]
  <2>1. h \in [Msg -> Nat] /\ h[m] = 0
    BY <1>0 DEF Handed
  <2>2. g \in [Msg -> Nat] /\ g[m] = 1 /\ \A k \in Msg : k # m => g[k] = h[k]
    BY <1>0, <2>1
  <2>. HIDE DEF g
  <2>3. ASSUME NEW k \in Msg
        PROVE  /\ g[k] <= 1
               /\ g[k] > 0 => /\ n.msg[k].state \notin {"none", "persisted"}
                              /\ n.msg[k].state = "queued" => n.msg[k].owner # NoOne
    <3>1. CASE k = m
      BY <1>1, <1>3, <1>4, <2>2, <3>1, PeersAssumption
    <3>2. CASE k # m
      BY <1>3, <1>4, <2>2, <3>2 DEF Handed
    <3>. QED
      BY <3>1, <3>2
  <2>4. Handed(n, g)
    BY <2>2, <2>3 DEF Handed
  <2>. QED
    BY <2>4 DEF g
<1>. QED
  BY <1>6, <1>7, <1>8 DEF n

LEMMA ClaimInv ==
    ASSUME PeersInv, claim_connection_delivery
    PROVE  PeersInv' /\ AnswersKept
<1>. DEFINE d == _expire_connections_tx(db)
<1>0. UNCHANGED <<up, crashes>> /\ up \in BOOLEAN /\ crashes \in 0..MaxCrashes
  BY InvFacts DEF claim_connection_delivery
<1>1. GoodTask(task) /\ task.phase = "attaching" /\ task.c \in Conn /\ task.epoch \in Epoch
  BY InvFacts DEF claim_connection_delivery, GoodTask, Task
<1>2. GoodDb(d) /\ Follows(db, d) /\ Answers(db, d) /\ Handed(d, handed)
  BY Expired
<1>3. CASE Commit(d) /\ task' = NoTask /\ UNCHANGED handed
  <2>1. GoodTask(task')
    BY <1>3, PeersAssumption DEF NoTask, GoodTask, Task
  <2>. HIDE DEF d
  <2>. QED
    BY <1>0, <1>2, <1>3, <2>1, FollowingStep
<1>4. CASE /\ owns(d, task.c, task.epoch)
           /\ \E m \in claimable(d) :
                /\ \A k \in claimable(d) : m <= k
                /\ Commit([d EXCEPT !.msg[m].owner = task.c, !.msg[m].epoch = task.epoch])
                /\ task' = [task EXCEPT !.phase = "claimed", !.m = m]
                /\ handed' = [handed EXCEPT ![m] = @ + 1]
  <2>. HIDE DEF d
  <2>1. PICK m \in claimable(d) :
                /\ Commit([d EXCEPT !.msg[m].owner = task.c, !.msg[m].epoch = task.epoch])
                /\ task' = [task EXCEPT !.phase = "claimed", !.m = m]
                /\ handed' = [handed EXCEPT ![m] = @ + 1]
    BY <1>4
  <2>. DEFINE n == Claimed(d, m, task.c, task.epoch)
  <2>2. GoodDb(n) /\ Answers(d, n) /\ Handed(n, handed')
    <3>1. owns(d, task.c, task.epoch) /\ handed' = [handed EXCEPT ![m] = @ + 1]
      BY <1>4, <2>1
    <3>. QED
      BY <1>1, <1>2, <3>1, ClaimedGood
  <2>3. Commit(n)
    BY <2>1 DEF Claimed
  <2>. HIDE DEF n
  <2>4. m \in Msg
    BY DEF claimable
  <2>5. GoodTask(task')
    <3>1. task \in Task /\ m \in 0..NMsg
      BY <1>1, <2>4, PeersAssumption DEF GoodTask
    <3>2. task' \in Task
      BY <2>1, <3>1 DEF Task
    <3>3. task'.c = task.c /\ task'.m = m
      BY <2>1, <3>1 DEF Task
    <3>. QED
      BY <1>1, <2>4, <3>2, <3>3 DEF GoodTask
  <2>6. Answers(db, n)
    BY <1>2, <2>2, AnswersTrans
  <2>. QED
    BY <1>0, <2>2, <2>3, <2>5, <2>6, InvFromDb, AnswersKeptBy
<1>. QED
  BY <1>3, <1>4 DEF claim_connection_delivery

\* A receipt of the delivery settles a request that was not answered, or nothing.
LEMMA SettleInv ==
    ASSUME PeersInv, NEW m \in Msg, NEW c \in Conn, NEW e,
           NEW s \in {"transport_written", "observed", "parked", "unknown"},
           settle_external_delivery(m, c, e, s), handed' = handed,
           GoodTask(task'), up' = up, crashes' = crashes
    PROVE  PeersInv' /\ AnswersKept
<1>. DEFINE d == _expire_connections_tx(db)
            release == s \in {"parked", "failed", "unknown"}
            n == SetState(d, m, s, release)
            ok == settle_allowed(db, d, m, c, e)
<1>1. Commit(IF ok THEN n ELSE d)
  BY DEF settle_external_delivery
<1>2. GoodDb(d) /\ Follows(db, d) /\ Answers(db, d) /\ Handed(d, handed)
  BY Expired
<1>3. CASE ~ok
  <2>. HIDE DEF d
  <2>. QED
    BY <1>1, <1>2, <1>3, InvFacts, FollowingStep
<1>4. CASE ok
  <2>1. db.msg[m].state # "replied"
    BY <1>4 DEF settle_allowed
  <2>2. d.msg[m].state # "replied"
    <3>1. d.msg[m] = db.msg[m] \/ d.msg[m] = Fenced
      BY <1>2 DEF Follows, Kept
    <3>. QED
      BY <2>1, <3>1 DEF Fenced
  <2>. HIDE DEF d, ok
  <2>3. /\ s \in MESSAGE_STATES \ {"persisted", "queued"} /\ release \in BOOLEAN
        /\ release \/ s \in FENCED_FROM
    BY DEF MESSAGE_STATES
  <2>. HIDE DEF release
  <2>4. GoodDb(n) /\ Handed(n, handed) /\ Answers(d, n)
    BY <1>2, <2>2, <2>3, SettleGood
  <2>. HIDE DEF n
  <2>5. Answers(db, n) /\ Commit(n)
    BY <1>1, <1>2, <1>4, <2>4, AnswersTrans
  <2>. QED
    BY <2>4, <2>5, InvFacts, InvFromDb, AnswersKeptBy
<1>. QED
  BY <1>3, <1>4

LEMMA UnchangedDb ==
    ASSUME PeersInv, UNCHANGED <<conn, msg, endpoint, handed>>,
           GoodTask(task'), up' \in BOOLEAN, crashes' \in 0..MaxCrashes
    PROVE  PeersInv' /\ AnswersKept
<1>1. Commit(db) /\ Follows(db, db)
  BY DbIs DEF Commit, Follows, Kept
<1>. QED
  BY <1>1, InvFacts, FollowingStep

LEMMA NoTaskGood == GoodTask(NoTask)
BY PeersAssumption DEF NoTask, GoodTask, Task

LEMMA WrittenInv ==
    ASSUME PeersInv, delivery_written
    PROVE  PeersInv' /\ AnswersKept
<1>1. GoodTask(task) /\ task.phase = "claimed" /\ task.c \in Conn /\ task.m \in Msg
  BY InvFacts DEF delivery_written, GoodTask
<1>2. /\ settle_external_delivery(task.m, task.c, task.epoch, "transport_written")
      /\ task' = [task EXCEPT !.phase = "written"] \/ task' = NoTask
      /\ UNCHANGED <<up, handed, crashes>>
  BY DEF delivery_written
<1>3. GoodTask([task EXCEPT !.phase = "written"])
  BY <1>1 DEF GoodTask, Task
<1>. QED
  BY <1>1, <1>2, <1>3, NoTaskGood, SettleInv

LEMMA EndsInv ==
    ASSUME PeersInv, delivery_ends
    PROVE  PeersInv' /\ AnswersKept
<1>1. task.c \in Conn /\ task.m \in Msg
  BY InvFacts DEF delivery_ends, GoodTask
<1>2. /\ task' = NoTask /\ UNCHANGED <<up, handed, crashes>>
      /\ \/ Commit(db)
         \/ \E s \in {"observed", "parked", "unknown"} :
               settle_external_delivery(task.m, task.c, task.epoch, s)
  BY DEF delivery_ends
<1>3. CASE Commit(db)
  <2>1. UNCHANGED <<conn, msg, endpoint>>
    BY <1>3, DbIs DEF Commit
  <2>. QED
    BY <1>2, <2>1, InvFacts, NoTaskGood, UnchangedDb
<1>4. CASE ~Commit(db)
  BY <1>1, <1>2, <1>4, NoTaskGood, SettleInv
<1>. QED
  BY <1>3, <1>4

LEMMA DeliverInv ==
    ASSUME PeersInv, (\E c \in Conn : _deliver(c)) \/ _deliver_gives_up
    PROVE  PeersInv' /\ AnswersKept
<1>1. /\ UNCHANGED <<conn, msg, endpoint, up, handed, crashes>>
  BY DEF _deliver, _deliver_gives_up
<1>2. ASSUME NEW c \in Conn, _deliver(c) PROVE GoodTask(task')
  <2>1. conn[c].epoch \in Epoch
    BY InvFacts, DbIs, DbFields DEF GoodDb, ConnRow
  <2>. QED
    BY <1>2, <2>1, PeersAssumption DEF _deliver, GoodTask, Task
<1>3. CASE _deliver_gives_up
  BY <1>1, <1>3, NoTaskGood, InvFacts, UnchangedDb DEF _deliver_gives_up
<1>. QED
  BY <1>1, <1>2, <1>3, InvFacts, UnchangedDb

-----------------------------------------------------------------------------
(* Restarts. *)

LEMMA CrashInv ==
    ASSUME PeersInv, crash
    PROVE  PeersInv' /\ AnswersKept
<1>1. crashes + 1 \in 0..MaxCrashes
  BY InvFacts, PeersAssumption DEF crash
<1>. QED
  BY <1>1, NoTaskGood, UnchangedDb DEF crash

LEMMA StartInv ==
    ASSUME PeersInv, start
    PROVE  PeersInv' /\ AnswersKept
<1>. DEFINE f == [m \in Msg |-> IF db.msg[m].state = "queued" /\ db.msg[m].owner # NoOne
                                THEN Fenced ELSE db.msg[m]]
            n == reconcile_stale_external_claims(db)
<1>0. GoodDb(db) /\ db \in Db
  BY InvFacts DEF GoodDb
<1>1. Commit(n) /\ up' = TRUE /\ UNCHANGED <<task, handed, crashes>>
  BY DEF start
<1>2. n = [db EXCEPT !.msg = f]
  BY DEF reconcile_stale_external_claims
<1>3. f \in [Msg -> MsgRow] /\ \A m \in Msg :
        f[m] = db.msg[m] \/ (db.msg[m].owner # NoOne /\ f[m] = Fenced)
  BY <1>0, DbFields, FencedRow
<1>. HIDE DEF f, n
<1>4. n \in Db /\ n.conn = db.conn /\ n.endpoint = db.endpoint /\ n.msg = f
  BY <1>0, <1>2, <1>3, WithMsg
<1>5. Follows(db, n)
  BY <1>3, <1>4 DEF Follows, Kept
<1>6. Claims(n)
  BY <1>0, <1>3, <1>4, FencedRow DEF GoodDb, Claims, Owned
<1>7. GoodDb(n)
  BY <1>0, <1>4, <1>6, GoodByMsg
<1>. QED
  BY <1>1, <1>5, <1>7, InvFacts, FollowingStep

LEMMA SendsInv ==
    ASSUME PeersInv, NEW m \in Msg, send(m) \/ send_crashes(m)
    PROVE  PeersInv' /\ AnswersKept
<1>1. CASE send(m)
  <2>1. PICK s \in {"queued", "unknown"} : Commit(SetState(db, m, s, FALSE))
    BY <1>1 DEF send
  <2>2. msg[m].state = "none" /\ UNCHANGED <<task, up, handed, crashes>>
    BY <1>1 DEF send, next_message
  <2>. QED
    BY <2>1, <2>2, InvFacts, SendInv
<1>2. CASE send_crashes(m)
  <2>1. crashes + 1 \in 0..MaxCrashes
    BY <1>2, InvFacts, PeersAssumption DEF send_crashes
  <2>. QED
    BY <1>2, <2>1, NoTaskGood, SendInv DEF send_crashes, next_message
<1>. QED
  BY <1>1, <1>2

LEMMA NextInv ==
    ASSUME PeersInv, [Next]_vars
    PROVE  PeersInv' /\ AnswersKept
<1>1. CASE UNCHANGED vars
  BY <1>1, InvFacts, UnchangedDb DEF vars
<1>2. CASE ConnectionStep
  BY <1>2, RegisterInv, TouchInv, CloseInv, RunsOutInv DEF ConnectionStep
<1>3. CASE MessageStep
  BY <1>3, SendsInv, ReplyInv DEF MessageStep
<1>4. CASE DeliveryStep
  BY <1>4, DeliverInv, ClaimInv, WrittenInv, EndsInv DEF DeliveryStep
<1>5. CASE expire_connections \/ crash \/ start
  BY <1>5, ExpireInv, CrashInv, StartInv
<1>. QED
  BY <1>1, <1>2, <1>3, <1>4, <1>5 DEF Next

-----------------------------------------------------------------------------
\* Whatever the order of registrations, heartbeats, expiries, answers, receipts of the
\* delivery and restarts: claims belong to the active lease of their epoch, active leases
\* to one runtime, and no request is handed to the harness twice
\* (_reconcile_connection_group_tx, _fence_connection_claims_tx, claim_connection).
THEOREM PeersInvariant == Spec => []PeersInv
<1>1. PeersInv /\ [Next]_vars => PeersInv'
  BY NextInv
<1>. QED
  BY InitInv, <1>1, PTL DEF Spec

\* No late receipt, fence or restart takes an answer back (settle_external_delivery).
THEOREM AnswersFinal == Spec => RepliedIsFinal
<1>1. PeersInv /\ [Next]_vars
        => [\A m \in Msg : msg[m].state = "replied" => msg'[m].state = "replied"]_vars
  BY NextInv DEF AnswersKept
<1>. QED
  BY <1>1, PeersInvariant, PTL DEF Spec, RepliedIsFinal
=============================================================================
