-------------------------- MODULE NodeConn_proofs ---------------------------
(***************************************************************************)
(* Proofs about NodeConn and the transactions of ApertureDB below it, for  *)
(* any callers, nodes, operations, retries and crashes: the transactions   *)
(* implement AtomicStore, there is one onion key at most, and a connection *)
(* uses the session that is stored.                                        *)
(***************************************************************************)
EXTENDS NodeConn, TLAPS

(***************************************************************************)
(* The inductive invariant.  Granted: the rows a transaction saw allow its *)
(* operation, which is still true at the commit since the rows are still   *)
(* the same.  Rows: what the tables keep to.  Known: what a node has read  *)
(* of its session is still there.                                          *)
(***************************************************************************)
Sessions == [local : Values \union {None}, remote : {None, Remote}, expiry : {None, Expiry}]
DBs == [secret : [Hashes -> Values \union {None}], onion : SUBSET Values, session : Sessions]
Places == {"down", "get", "add", "dial", "remote", "expiry", "open"}
NodeStates == [at : Places, local : Values \union {None}, remote : {None, Remote},
               expiry : {None, Expiry}]

StoreTypes ==
    /\ pc \in [Callers -> {"idle", "begin", "body", "commit"}]
    /\ op \in [Callers -> Ops \union {NoOp}]
    /\ \A c \in Callers : pc[c] # "idle" => op[c] \in Ops
    /\ tries \in [Callers -> 0..(NumRetries - 1)]
    /\ DOMAIN snap = Callers /\ DOMAIN res = Callers

Types ==
    /\ db \in DBs /\ StoreTypes
    /\ active \in Deployments
    /\ node \in [Nodes -> NodeStates]

Granted(o, rows) ==
    /\ o.kind = "NewSecret" => rows = <<None>>
    /\ o.kind = "StorePrivateKey" => rows[1] \subseteq {o.val}
    /\ o.kind = "AddSession" => rows = <<NoSession>>

Isolated ==
    \A c \in Callers : pc[c] = "commit" /\ op[c].kind \notin Reads => Granted(op[c], snap[c])

Exists == db.session.local \in Values
Rows == SingleOnionKey /\ (db.session # NoSession => Exists)

Known(s) ==
    /\ s \in Sessions /\ s.local = db.session.local /\ Exists
    /\ s.remote # None => db.session.remote = Remote

NodeOp(n) ==
    /\ node[n].at = "get" => op[n] = Op("GetSession", None, None)
    /\ node[n].at = "add" => op[n] = Op("AddSession", None, node[n].local)
    /\ node[n].at = "remote" => op[n] = Op("SetRemotePubKey", None, Remote)
    /\ node[n].at = "expiry" => op[n] = Op("SetExpiry", None, Expiry)

NodeOK(n) ==
    /\ pc[n] # "idle" => node[n].at \in {"get", "add", "remote", "expiry"} /\ NodeOp(n)
    /\ node[n].at \in {"dial", "remote", "expiry", "open"} =>
         node[n].local = db.session.local /\ Exists
    /\ node[n].at \in {"dial", "expiry", "open"} /\ node[n].remote # None =>
         db.session.remote = Remote
    /\ node[n].at \in {"expiry", "open"} => node[n].remote # None
    /\ node[n].at = "get" /\ (pc[n] = "commit" \/ (pc[n] = "idle" /\ res[n].st = "ok")) =>
         Known(res[n].val)
    /\ node[n].at = "add" => node[n].local \in Values /\ node[n].remote = None
    /\ node[n].at = "add" /\ pc[n] = "idle" /\ res[n].st = "ok" =>
         node[n].local = db.session.local
    /\ node[n].at = "remote" /\ pc[n] = "idle" /\ res[n].st = "ok" =>
         db.session.remote = Remote

IInv == Types /\ Isolated /\ Rows /\ \A n \in Nodes : NodeOK(n)

(***************************************************************************)
(* The operations.                                                         *)
(***************************************************************************)
\* Whether a write is refused depends on its rows alone.
LEMMA AnswerRows ==
    ASSUME NEW o, NEW d, o.kind \notin Reads
    PROVE  /\ Answer(o, d).st = "ok" <=> Granted(o, Footprint(o, d))
           /\ Answer(o, d).st \in {"ok", "refused"}
<1> USE DEF Granted, Footprint, Answer, Reads, Secrets, Onions, Result, Ok
<1>1. CASE o.kind = "NewSecret"
  BY Zenon, <1>1 DEF SecretAnswer
<1>2. CASE o.kind = "RevokeSecret"
  BY Zenon, <1>2 DEF SecretAnswer
<1>3. CASE o.kind = "StorePrivateKey"
  BY Zenon, <1>3 DEF OnionAnswer
<1>4. CASE o.kind = "DeletePrivateKey"
  BY Zenon, <1>4 DEF OnionAnswer
<1>5. CASE o.kind = "AddSession"
  BY Zenon, <1>5 DEF SessionAnswer
<1>6. CASE o.kind \notin {"NewSecret", "RevokeSecret", "StorePrivateKey", "DeletePrivateKey",
                          "AddSession"}
  BY Zenon, <1>6 DEF SessionAnswer
<1> QED  BY Zenon, <1>1, <1>2, <1>3, <1>4, <1>5, <1>6

\* A session read is the row itself.
LEMMA SessionRead ==
    ASSUME NEW d
    PROVE  LET r == Answer(Op("GetSession", None, None), d)
           IN  /\ r.st \in {"ok", "missing"}
               /\ r.st = "ok" => d.session # NoSession /\ r.val = d.session
BY Zenon DEF Answer, SessionAnswer, Secrets, Onions, Op, Result, Ok

\* What a granted operation does to the tables.
LEMMA EffectRows ==
    ASSUME NEW o \in Ops, NEW d \in DBs, Granted(o, Footprint(o, d)),
           \A k, l \in d.onion : k = l, d.session # NoSession => d.session.local \in Values
    PROVE  LET e == Effect(o, d)
           IN  /\ e \in DBs
               /\ \A k, l \in e.onion : k = l
               /\ e.session # NoSession => e.session.local \in Values
               /\ d.session # NoSession => e.session.local = d.session.local
               /\ d.session.remote = Remote => e.session.remote = Remote
               /\ o = Op("AddSession", None, o.val) => e.session.local = o.val
               /\ o.kind = "SetRemotePubKey" /\ d.session # NoSession => e.session.remote = Remote
<1> USE DBAssumption, NodeAssumption DEF DBs, Sessions
<1>1. CASE o.kind \in Secrets
  BY <1>1 DEF Effect, SecretEffect, Secrets, Op
<1>2. CASE o.kind \in Onions
  BY <1>2 DEF Effect, OnionEffect, Secrets, Onions, Op, Granted, Footprint
<1>3. CASE o = Op("GetSession", None, None)
  BY Zenon, <1>3 DEF Effect, SessionEffect, Secrets, Onions, Op
<1>4. CASE o = Op("SetRemotePubKey", None, Remote)
  BY Zenon, <1>4 DEF Effect, SessionEffect, Secrets, Onions, Op, NoSession, Session
<1>5. CASE o = Op("SetExpiry", None, Expiry)
  BY Zenon, <1>5 DEF Effect, SessionEffect, WithExpiry, Secrets, Onions, Op, NoSession, Session
<1>6. ASSUME NEW k \in Values, o = Op("AddSession", None, k)
      PROVE  LET e == Effect(o, d)
             IN  /\ e \in DBs
                 /\ \A j, l \in e.onion : j = l
                 /\ e.session # NoSession => e.session.local \in Values
                 /\ d.session # NoSession => e.session.local = d.session.local
                 /\ d.session.remote = Remote => e.session.remote = Remote
                 /\ o = Op("AddSession", None, o.val) => e.session.local = o.val
                 /\ o.kind = "SetRemotePubKey" /\ d.session # NoSession => e.session.remote = Remote
  <2>1. d.session = NoSession
    BY Zenon, <1>6 DEF Granted, Footprint, Secrets, Onions, Op
  <2> QED
    BY <1>6, <2>1 DEF Effect, SessionEffect, Secrets, Onions, Op, NoSession, Session
<1>7. o.kind \notin Secrets \union Onions => o \in SessionOps
  BY Zenon
<1> QED  BY Zenon, <1>1, <1>2, <1>3, <1>4, <1>5, <1>6, <1>7 DEF SessionOps

\* A caller enters ExecTx.
LEMMA CallTypes ==
    ASSUME StoreTypes, NEW c \in Callers, NEW o \in Ops, Call(c, o)
    PROVE  StoreTypes'
BY Zenon DEF StoreTypes, Call

\* A caller leaves ExecTx.
LEMMA ReturnTypes ==
    ASSUME StoreTypes, NEW c \in Callers, NEW r, Return(c, r)
    PROVE  StoreTypes'
BY DBAssumption DEF StoreTypes, Return

\* The operations of a node.
LEMMA NodeOps ==
    /\ Op("GetSession", None, None) \in Ops /\ Op("SetRemotePubKey", None, Remote) \in Ops
    /\ Op("SetExpiry", None, Expiry) \in Ops
    /\ \A k \in Values : Op("AddSession", None, k) \in Ops
BY Zenon, NodeAssumption DEF SessionOps

\* A session that exists stays, with its local key; so does the remote key.
Kept ==
    /\ db.session # NoSession => db'.session.local = db.session.local
    /\ db.session.remote = Remote => db'.session.remote = Remote

\* No step breaks the tables: a commit finds its rows as its transaction saw them.
LEMMA TablesStep ==
    ASSUME Types, Isolated, Rows, [Next]_vars
    PROVE  db' \in DBs /\ Rows' /\ Kept
<1> USE DEF Rows, Exists, SingleOnionKey, Kept
<1>1. ASSUME NEW c \in Callers, OtherCall(c) PROVE db' \in DBs /\ Rows' /\ Kept
  BY Zenon, <1>1 DEF Types, OtherCall, Call
<1>2. ASSUME NEW c \in Callers, Begin(c), UNCHANGED <<active, node>>
      PROVE db' \in DBs /\ Rows' /\ Kept
  BY Zenon, <1>2 DEF Types, Begin
<1>3. ASSUME NEW c \in Callers, Body(c), UNCHANGED <<active, node>>
      PROVE db' \in DBs /\ Rows' /\ Kept
  BY Zenon, <1>3 DEF Types, Body
<1>4. ASSUME NEW c \in Callers, BodyRefuses(c), UNCHANGED <<active, node>>
      PROVE db' \in DBs /\ Rows' /\ Kept
  BY Zenon, <1>4 DEF Types, BodyRefuses, Return
<1>5. ASSUME NEW c \in Callers, BodyNotSerializable(c), UNCHANGED <<active, node>>
      PROVE db' \in DBs /\ Rows' /\ Kept
  BY Zenon, <1>5 DEF Types, BodyNotSerializable, Return
<1>6. ASSUME NEW c \in Callers, TxError(c), UNCHANGED <<active, node>>
      PROVE db' \in DBs /\ Rows' /\ Kept
  BY Zenon, <1>6 DEF Types, TxError, Return
<1>7. ASSUME NEW c \in Callers, Commit(c), UNCHANGED <<active, node>>
      PROVE db' \in DBs /\ Rows' /\ Kept
  <2>1. CASE op[c].kind \in Reads
    BY Zenon, <1>7, <2>1 DEF Types, Commit
  <2>2. CASE op[c].kind \notin Reads
    <3>1. op[c] \in Ops /\ Granted(op[c], Footprint(op[c], db)) /\ db' = Effect(op[c], db)
      BY Zenon, <1>7, <2>2 DEF Isolated, Types, StoreTypes, Commit
    <3> QED  BY <3>1, EffectRows DEF Types
  <2> QED  BY Zenon, <2>1, <2>2
<1>8. ASSUME NEW c \in Callers, CommitLost(c), UNCHANGED <<active, node>>
      PROVE db' \in DBs /\ Rows' /\ Kept
  <2>1. CASE op[c].kind \in Reads
    BY Zenon, <1>8, <2>1 DEF Types, CommitLost
  <2>2. CASE op[c].kind \notin Reads
    <3>1. op[c] \in Ops /\ Granted(op[c], Footprint(op[c], db)) /\ db' = Effect(op[c], db)
      BY Zenon, <1>8, <2>2 DEF Isolated, Types, StoreTypes, CommitLost
    <3> QED  BY <3>1, EffectRows DEF Types
  <2> QED  BY Zenon, <2>1, <2>2
<1>9. ASSUME NEW c \in Callers, CommitFails(c), UNCHANGED <<active, node>>
      PROVE db' \in DBs /\ Rows' /\ Kept
  BY Zenon, <1>9 DEF Types, CommitFails, Return
<1>10. ASSUME NEW n \in Nodes, NewNodeConn(n) PROVE db' \in DBs /\ Rows' /\ Kept
  BY Zenon, <1>10 DEF Types, NewNodeConn, Call, Returned, Goto
<1>11. ASSUME NEW n \in Nodes, GotNoSession(n) PROVE db' \in DBs /\ Rows' /\ Kept
  BY Zenon, <1>11 DEF Types, GotNoSession, Call, Returned, Down
<1>12. ASSUME NEW n \in Nodes, GotSession(n) PROVE db' \in DBs /\ Rows' /\ Kept
  BY Zenon, <1>12 DEF Types, GotSession, Returned, dbvars
<1>13. ASSUME NEW n \in Nodes, AddedSession(n) PROVE db' \in DBs /\ Rows' /\ Kept
  BY Zenon, <1>13 DEF Types, AddedSession, Returned, Goto, dbvars
<1>14. ASSUME NEW n \in Nodes, StartFails(n) PROVE db' \in DBs /\ Rows' /\ Kept
  BY Zenon, <1>14 DEF Types, StartFails, Returned, Down, dbvars
<1>15. ASSUME NEW n \in Nodes, OnRemoteStatic(n) PROVE db' \in DBs /\ Rows' /\ Kept
  BY Zenon, <1>15 DEF Types, OnRemoteStatic, Call, Returned, Goto
<1>16. ASSUME NEW n \in Nodes, RemoteStored(n) PROVE db' \in DBs /\ Rows' /\ Kept
  BY Zenon, <1>16 DEF Types, RemoteStored, Returned, dbvars
<1>17. ASSUME NEW n \in Nodes, OnAuthData(n) PROVE db' \in DBs /\ Rows' /\ Kept
  BY Zenon, <1>17 DEF Types, OnAuthData, Call, Returned
<1>18. ASSUME NEW n \in Nodes, ExpiryStored(n) PROVE db' \in DBs /\ Rows' /\ Kept
  BY Zenon, <1>18 DEF Types, ExpiryStored, Returned, Goto, dbvars
<1>19. ASSUME NEW n \in Nodes, OnAuthDataNoExpiry(n) PROVE db' \in DBs /\ Rows' /\ Kept
  BY Zenon, <1>19 DEF Types, OnAuthDataNoExpiry, Returned, Goto, dbvars
<1>20. ASSUME NEW n \in Nodes, Disconnect(n) PROVE db' \in DBs /\ Rows' /\ Kept
  BY Zenon, <1>20 DEF Types, Disconnect, Returned, Goto, dbvars
<1>21. ASSUME NEW n \in Nodes, DialFails(n) PROVE db' \in DBs /\ Rows' /\ Kept
  BY Zenon, <1>21 DEF Types, DialFails, Returned, Down, dbvars
<1>22. ASSUME NEW n \in Nodes, CloseConn(n) PROVE db' \in DBs /\ Rows' /\ Kept
  BY Zenon, <1>22 DEF Types, CloseConn, Returned, Down, dbvars
<1>23. CASE Crash
  BY Zenon, <1>23 DEF Types, Crash, DBCrash
<1>24. CASE UNCHANGED vars
  BY Zenon, <1>24 DEF Types, vars
<1> QED
  BY Zenon, <1>1, <1>2, <1>3, <1>4, <1>5, <1>6, <1>7, <1>8, <1>9, <1>10, <1>11,
     <1>12, <1>13, <1>14, <1>15, <1>16, <1>17, <1>18, <1>19, <1>20, <1>21,
     <1>22, <1>23, <1>24 DEF Next, Tx, ExecTx

\* Every step keeps the types.
LEMMA TypesStep ==
    ASSUME IInv, [Next]_vars
    PROVE  Types'
<1> USE TablesStep DEF IInv, Types, NodeStates, Places
<1>1. ASSUME NEW c \in Callers, OtherCall(c) PROVE Types'
  <2>1. PICK o \in active.ops : Call(c, o)
    BY Zenon, <1>1 DEF OtherCall
  <2>2. o \in Ops
    BY Zenon, NodeAssumption
  <2> QED  BY Zenon, <1>1, <2>1, <2>2, CallTypes DEF OtherCall
<1>2. ASSUME NEW c \in Callers, Begin(c), UNCHANGED <<active, node>> PROVE Types'
  BY Zenon, <1>2 DEF StoreTypes, Begin
<1>3. ASSUME NEW c \in Callers, Body(c), UNCHANGED <<active, node>> PROVE Types'
  BY Zenon, <1>3 DEF StoreTypes, Body
<1>4. ASSUME NEW c \in Callers, BodyRefuses(c), UNCHANGED <<active, node>> PROVE Types'
  BY Zenon, <1>4, ReturnTypes DEF BodyRefuses
<1>5. ASSUME NEW c \in Callers, BodyNotSerializable(c), UNCHANGED <<active, node>>
      PROVE Types'
  <2>1. StoreTypes'
    <3>1. CASE tries[c] + 1 < NumRetries
      BY <1>5, <3>1, DBAssumption DEF StoreTypes, BodyNotSerializable
    <3>2. CASE ~(tries[c] + 1 < NumRetries)
      BY Zenon, <1>5, <3>2, ReturnTypes DEF BodyNotSerializable
    <3> QED  BY Zenon, <3>1, <3>2
  <2> QED  BY Zenon, <1>5, <2>1
<1>6. ASSUME NEW c \in Callers, TxError(c), UNCHANGED <<active, node>> PROVE Types'
  BY Zenon, <1>6, ReturnTypes DEF TxError
<1>7. ASSUME NEW c \in Callers, Commit(c), UNCHANGED <<active, node>> PROVE Types'
  BY Zenon, <1>7, ReturnTypes DEF Commit
<1>8. ASSUME NEW c \in Callers, CommitLost(c), UNCHANGED <<active, node>> PROVE Types'
  BY Zenon, <1>8, ReturnTypes DEF CommitLost
<1>9. ASSUME NEW c \in Callers, CommitFails(c), UNCHANGED <<active, node>> PROVE Types'
  BY Zenon, <1>9, ReturnTypes DEF CommitFails
<1>10. ASSUME NEW n \in Nodes, NewNodeConn(n) PROVE Types'
  <2>1. StoreTypes'
    BY Zenon, <1>10, NodeOps, NodeAssumption, CallTypes DEF NewNodeConn
  <2> QED  BY Zenon, <1>10, <2>1 DEF NewNodeConn, Goto
<1>11. ASSUME NEW n \in Nodes, GotNoSession(n) PROVE Types'
  <2>1. PICK k \in Values : /\ Call(n, Op("AddSession", None, k))
                           /\ node' = [node EXCEPT ![n] = [Down EXCEPT !.at = "add", !.local = k]]
    BY Zenon, <1>11 DEF GotNoSession
  <2>2. StoreTypes'
    BY Zenon, <2>1, NodeOps, NodeAssumption, CallTypes
  <2> QED  BY Zenon, <1>11, <2>1, <2>2 DEF GotNoSession, Down
<1>12. ASSUME NEW n \in Nodes, GotSession(n) PROVE Types'
  <2>1. res[n].val \in Sessions
    BY Zenon, <1>12 DEF NodeOK, Known, Returned, GotSession
  <2> QED
    BY Zenon, <1>12, <2>1 DEF StoreTypes, Sessions, GotSession, Returned, dbvars
<1>13. ASSUME NEW n \in Nodes, AddedSession(n) PROVE Types'
  BY <1>13 DEF StoreTypes, AddedSession, Returned, Goto, dbvars
<1>14. ASSUME NEW n \in Nodes, StartFails(n) PROVE Types'
  BY Zenon, <1>14 DEF StoreTypes, StartFails, Returned, Down, dbvars
<1>15. ASSUME NEW n \in Nodes, OnRemoteStatic(n) PROVE Types'
  <2>1. StoreTypes'
    BY Zenon, <1>15, NodeOps, NodeAssumption, CallTypes DEF OnRemoteStatic
  <2> QED  BY <1>15, <2>1 DEF OnRemoteStatic, Goto
<1>16. ASSUME NEW n \in Nodes, RemoteStored(n) PROVE Types'
  <2>1. PICK r \in {None, Remote} : node' = [node EXCEPT ![n].at = "dial", ![n].remote = r]
    BY Zenon, <1>16 DEF RemoteStored
  <2>2. \A s \in NodeStates : [s EXCEPT !.at = "dial", !.remote = r] \in NodeStates
    BY ZenonT(30)
  <2>3. node' \in [Nodes -> NodeStates]
    BY ZenonT(30), <2>1, <2>2
  <2> QED  BY Zenon, <1>16, <2>3 DEF StoreTypes, RemoteStored, dbvars
<1>17. ASSUME NEW n \in Nodes, OnAuthData(n) PROVE Types'
  <2>1. StoreTypes'
    BY Zenon, <1>17, NodeOps, NodeAssumption, CallTypes DEF OnAuthData
  <2>2. \A s \in NodeStates : [s EXCEPT !.at = "expiry", !.expiry = Expiry] \in NodeStates
    BY Zenon
  <2>3. node' \in [Nodes -> NodeStates]
    BY ZenonT(30), <1>17, <2>2 DEF OnAuthData
  <2> QED  BY Zenon, <1>17, <2>1, <2>3 DEF OnAuthData
<1>18. ASSUME NEW n \in Nodes, ExpiryStored(n) PROVE Types'
  BY Zenon, <1>18 DEF StoreTypes, ExpiryStored, Returned, Goto, dbvars
<1>19. ASSUME NEW n \in Nodes, OnAuthDataNoExpiry(n) PROVE Types'
  BY <1>19 DEF StoreTypes, OnAuthDataNoExpiry, Returned, Goto, dbvars
<1>20. ASSUME NEW n \in Nodes, Disconnect(n) PROVE Types'
  BY <1>20 DEF StoreTypes, Disconnect, Returned, Goto, dbvars
<1>21. ASSUME NEW n \in Nodes, DialFails(n) PROVE Types'
  BY Zenon, <1>21 DEF StoreTypes, DialFails, Returned, Down, dbvars
<1>22. ASSUME NEW n \in Nodes, CloseConn(n) PROVE Types'
  BY Zenon, <1>22 DEF StoreTypes, CloseConn, Returned, Down, dbvars
<1>23. CASE Crash
  BY <1>23, DBAssumption DEF StoreTypes, Crash, DBCrash, Down
<1>24. CASE UNCHANGED vars
  BY Zenon, <1>24 DEF StoreTypes, vars
<1> QED
  BY Zenon, <1>1, <1>2, <1>3, <1>4, <1>5, <1>6, <1>7, <1>8, <1>9, <1>10, <1>11,
     <1>12, <1>13, <1>14, <1>15, <1>16, <1>17, <1>18, <1>19, <1>20, <1>21,
     <1>22, <1>23, <1>24 DEF Next, Tx, ExecTx

\* A transaction that reaches its commit was allowed by what it saw.
LEMMA IsolatedStep ==
    ASSUME Types, Isolated, [Next]_vars
    PROVE  Isolated'
<1> USE DEF Types, StoreTypes, Isolated
<1>1. ASSUME NEW c \in Callers, OtherCall(c) PROVE Isolated'
  BY Zenon, <1>1 DEF OtherCall, Call
<1>2. ASSUME NEW c \in Callers, Begin(c), UNCHANGED <<active, node>> PROVE Isolated'
  BY Zenon, <1>2 DEF Begin
<1>3. ASSUME NEW c \in Callers, Body(c), UNCHANGED <<active, node>> PROVE Isolated'
  <2>1. op[c].kind \notin Reads => Granted(op[c], Footprint(op[c], db))
    BY Zenon, <1>3, AnswerRows DEF Body
  <2> QED  BY Zenon, <1>3, <2>1 DEF Body
<1>4. ASSUME NEW c \in Callers, BodyRefuses(c), UNCHANGED <<active, node>> PROVE Isolated'
  BY Zenon, <1>4 DEF BodyRefuses, Return
<1>5. ASSUME NEW c \in Callers, BodyNotSerializable(c), UNCHANGED <<active, node>>
      PROVE Isolated'
  BY <1>5 DEF BodyNotSerializable, Return
<1>6. ASSUME NEW c \in Callers, TxError(c), UNCHANGED <<active, node>> PROVE Isolated'
  BY Zenon, <1>6 DEF TxError, Return
<1>7. ASSUME NEW c \in Callers, Commit(c), UNCHANGED <<active, node>> PROVE Isolated'
  BY Zenon, <1>7 DEF Commit, Return
<1>8. ASSUME NEW c \in Callers, CommitLost(c), UNCHANGED <<active, node>> PROVE Isolated'
  BY Zenon, <1>8 DEF CommitLost, Return
<1>9. ASSUME NEW c \in Callers, CommitFails(c), UNCHANGED <<active, node>> PROVE Isolated'
  BY Zenon, <1>9 DEF CommitFails, Return
<1>10. ASSUME NEW n \in Nodes, NewNodeConn(n) PROVE Isolated'
  BY Zenon, <1>10 DEF NewNodeConn, Call, Returned, Goto
<1>11. ASSUME NEW n \in Nodes, GotNoSession(n) PROVE Isolated'
  BY Zenon, <1>11 DEF GotNoSession, Call, Returned, Down
<1>12. ASSUME NEW n \in Nodes, GotSession(n) PROVE Isolated'
  BY Zenon, <1>12 DEF GotSession, Returned, dbvars
<1>13. ASSUME NEW n \in Nodes, AddedSession(n) PROVE Isolated'
  BY Zenon, <1>13 DEF AddedSession, Returned, Goto, dbvars
<1>14. ASSUME NEW n \in Nodes, StartFails(n) PROVE Isolated'
  BY Zenon, <1>14 DEF StartFails, Returned, Down, dbvars
<1>15. ASSUME NEW n \in Nodes, OnRemoteStatic(n) PROVE Isolated'
  BY Zenon, <1>15 DEF OnRemoteStatic, Call, Returned, Goto
<1>16. ASSUME NEW n \in Nodes, RemoteStored(n) PROVE Isolated'
  BY Zenon, <1>16 DEF RemoteStored, Returned, dbvars
<1>17. ASSUME NEW n \in Nodes, OnAuthData(n) PROVE Isolated'
  BY Zenon, <1>17 DEF OnAuthData, Call, Returned
<1>18. ASSUME NEW n \in Nodes, ExpiryStored(n) PROVE Isolated'
  BY Zenon, <1>18 DEF ExpiryStored, Returned, Goto, dbvars
<1>19. ASSUME NEW n \in Nodes, OnAuthDataNoExpiry(n) PROVE Isolated'
  BY Zenon, <1>19 DEF OnAuthDataNoExpiry, Returned, Goto, dbvars
<1>20. ASSUME NEW n \in Nodes, Disconnect(n) PROVE Isolated'
  BY Zenon, <1>20 DEF Disconnect, Returned, Goto, dbvars
<1>21. ASSUME NEW n \in Nodes, DialFails(n) PROVE Isolated'
  BY Zenon, <1>21 DEF DialFails, Returned, Down, dbvars
<1>22. ASSUME NEW n \in Nodes, CloseConn(n) PROVE Isolated'
  BY Zenon, <1>22 DEF CloseConn, Returned, Down, dbvars
<1>23. CASE Crash
  BY Zenon, <1>23 DEF Crash, DBCrash
<1>24. CASE UNCHANGED vars
  BY Zenon, <1>24 DEF vars
<1> QED
  BY Zenon, <1>1, <1>2, <1>3, <1>4, <1>5, <1>6, <1>7, <1>8, <1>9, <1>10, <1>11,
     <1>12, <1>13, <1>14, <1>15, <1>16, <1>17, <1>18, <1>19, <1>20, <1>21,
     <1>22, <1>23, <1>24 DEF Next, Tx, ExecTx

\* What a step of others leaves to a node.
LEMMA NodeStays ==
    ASSUME Types, Kept, NEW m \in Nodes, NodeOK(m),
           pc'[m] = pc[m], op'[m] = op[m], res'[m] = res[m], node'[m] = node[m]
    PROVE  NodeOK(m)'
<1>1. Exists => Exists' /\ db'.session.local = db.session.local
  BY DBAssumption DEF Exists, Kept, NoSession, Session
<1>2. node[m].at \in {"dial", "remote", "expiry", "open"} =>
        node[m].local = db'.session.local /\ Exists'
  BY Zenon, <1>1 DEF NodeOK
<1>3. ASSUME Known(res[m].val) PROVE Known(res[m].val)'
  BY Zenon, <1>1, <1>3 DEF Known, Kept
<1>4. NodeOp(m) => NodeOp(m)'
  BY Zenon DEF NodeOp
<1>5. node[m].at = "add" /\ pc[m] = "idle" /\ res[m].st = "ok" =>
        node[m].local = db'.session.local
  BY Zenon, <1>1 DEF NodeOK, Exists
<1> QED
  BY Zenon, <1>2, <1>3, <1>4, <1>5 DEF NodeOK, Kept

\* A node whose operation has failed or was refused.
LEMMA NodeFails ==
    ASSUME Types, Kept, NEW m \in Nodes, NodeOK(m),
           pc'[m] = "idle", res'[m].st # "ok", node'[m] = node[m]
    PROVE  NodeOK(m)'
<1>1. Exists => Exists' /\ db'.session.local = db.session.local
  BY DBAssumption DEF Exists, Kept, NoSession, Session
<1>2. node[m].at \in {"dial", "remote", "expiry", "open"} =>
        node[m].local = db'.session.local /\ Exists'
  BY Zenon, <1>1 DEF NodeOK
<1>3. node[m].at \in {"dial", "expiry", "open"} /\ node[m].remote # None =>
        db'.session.remote = Remote
  BY Zenon DEF NodeOK, Kept
<1>4. /\ node[m].at \in {"expiry", "open"} => node[m].remote # None
      /\ node[m].at = "add" => node[m].local \in Values /\ node[m].remote = None
  BY Zenon DEF NodeOK
<1> QED
  BY Zenon, <1>2, <1>3, <1>4 DEF NodeOK

\* What a node knows of its session stays true, whoever commits what.
LEMMA NodesStep ==
    ASSUME IInv, [Next]_vars
    PROVE  \A m \in Nodes : NodeOK(m)'
<1> USE TablesStep, NodeAssumption DEF IInv, Types
<1>1. ASSUME NEW c \in Callers, OtherCall(c) PROVE \A m \in Nodes : NodeOK(m)'
  BY Zenon, <1>1, NodeStays DEF StoreTypes, OtherCall, Call
<1>2. ASSUME NEW c \in Callers, Begin(c), UNCHANGED <<active, node>>
      PROVE \A m \in Nodes : NodeOK(m)'
  <2> TAKE m \in Nodes
  <2>1. CASE m # c
    BY Zenon, <1>2, <2>1, NodeStays DEF StoreTypes, Begin
  <2>2. CASE m = c
    BY Zenon, <1>2, <2>2, NodeAssumption
      DEF StoreTypes, NodeOK, NodeOp, Known, Exists, Rows, NodeStates, Begin
  <2> QED  BY Zenon, <2>1, <2>2
<1>3. ASSUME NEW c \in Callers, Body(c), UNCHANGED <<active, node>>
      PROVE \A m \in Nodes : NodeOK(m)'
  <2> TAKE m \in Nodes
  <2>1. CASE m # c
    BY Zenon, <1>3, <2>1, NodeStays DEF StoreTypes, Body
  <2>2. CASE m = c
    <3>1. /\ pc[m] = "body" /\ pc'[m] = "commit" /\ node' = node /\ op' = op /\ db' = db
          /\ Answer(op[m], db).st = "ok"
          /\ op[m].kind \in Reads => res'[m] = Answer(op[m], db)
      BY Zenon, <1>3, <2>2 DEF StoreTypes, Body
    <3>2. node[m].at \in {"get", "add", "remote", "expiry"} /\ NodeOp(m)
      BY Zenon, <3>1 DEF NodeOK
    <3>3. ASSUME node[m].at = "get" PROVE Known(res[m].val)'
      <4>1. op[m] = Op("GetSession", None, None) /\ op[m].kind \in Reads
        BY <3>2, <3>3 DEF NodeOp, Reads, Op
      <4>2. db.session # NoSession /\ res'[m].val = db.session
        BY Zenon, <3>1, <4>1, SessionRead
      <4> QED  BY Zenon, <3>1, <4>2 DEF Known, Rows, DBs, Sessions, Exists
    <3> QED  BY Zenon, <3>1, <3>2, <3>3 DEF NodeOK, NodeOp, Exists
  <2> QED  BY Zenon, <2>1, <2>2
<1>4. ASSUME NEW c \in Callers, BodyRefuses(c), UNCHANGED <<active, node>>
      PROVE \A m \in Nodes : NodeOK(m)'
  <2> TAKE m \in Nodes
  <2>1. CASE m # c
    BY Zenon, <1>4, <2>1, NodeStays DEF StoreTypes, BodyRefuses, Return
  <2>2. CASE m = c
    BY Zenon, <1>4, <2>2, NodeFails DEF StoreTypes, Failed, Result, BodyRefuses, Return
  <2> QED  BY Zenon, <2>1, <2>2
<1>5. ASSUME NEW c \in Callers, BodyNotSerializable(c), UNCHANGED <<active, node>>
      PROVE \A m \in Nodes : NodeOK(m)'
  <2> TAKE m \in Nodes
  <2>1. CASE m # c
    BY Zenon, <1>5, <2>1, NodeStays DEF StoreTypes, BodyNotSerializable, Return
  <2>2. CASE m = c
    <3>1. CASE tries[c] + 1 < NumRetries
      BY Zenon, <1>5, <2>2, <3>1
        DEF StoreTypes, NodeOK, NodeOp, Known, Exists, BodyNotSerializable
    <3>2. CASE ~(tries[c] + 1 < NumRetries)
      BY <1>5, <2>2, <3>2, NodeFails
        DEF StoreTypes, Failed, Result, BodyNotSerializable, Return
    <3> QED  BY Zenon, <3>1, <3>2
  <2> QED  BY Zenon, <2>1, <2>2
<1>6. ASSUME NEW c \in Callers, TxError(c), UNCHANGED <<active, node>>
      PROVE \A m \in Nodes : NodeOK(m)'
  <2> TAKE m \in Nodes
  <2>1. CASE m # c
    BY Zenon, <1>6, <2>1, NodeStays DEF StoreTypes, TxError, Return
  <2>2. CASE m = c
    BY Zenon, <1>6, <2>2, NodeFails DEF StoreTypes, Failed, Result, TxError, Return
  <2> QED  BY Zenon, <2>1, <2>2
<1>7. ASSUME NEW c \in Callers, Commit(c), UNCHANGED <<active, node>>
      PROVE \A m \in Nodes : NodeOK(m)'
  <2> TAKE m \in Nodes
  <2>1. CASE m # c
    BY Zenon, <1>7, <2>1, NodeStays DEF StoreTypes, Commit, Return
  <2>2. CASE m = c
    <3>0. /\ pc[m] = "commit" /\ pc'[m] = "idle" /\ node' = node
          /\ op[m].kind \in Reads => db' = db /\ res'[m] = res[m]
          /\ op[m].kind \notin Reads => snap[m] = Footprint(op[m], db) /\ db' = Effect(op[m], db)
      BY Zenon, <1>7, <2>2 DEF StoreTypes, Commit, Return
    <3>a. node[m].at \in {"get", "add", "remote", "expiry"} /\ NodeOp(m)
      BY Zenon, <3>0 DEF NodeOK
    <3>1. CASE node[m].at = "get"
      <4>1. op[m].kind \in Reads
        BY <3>1, <3>a DEF NodeOp, Reads, Op
      <4>2. Known(res[m].val)
        BY Zenon, <3>0, <3>1 DEF NodeOK
      <4> QED  BY Zenon, <3>0, <3>1, <4>1, <4>2 DEF NodeOK, Known, Exists
    <3>2. CASE node[m].at # "get"
      <4>1. op[m].kind \notin Reads /\ op[m] \in Ops
        BY <3>0, <3>2, <3>a DEF StoreTypes, NodeOp, Reads, Op
      <4>2. Granted(op[m], Footprint(op[m], db)) /\ db' = Effect(op[m], db)
        BY Zenon, <3>0, <4>1 DEF Isolated
      <4>3. /\ op[m] = Op("AddSession", None, op[m].val) => db'.session.local = op[m].val
            /\ op[m].kind = "SetRemotePubKey" /\ db.session # NoSession => db'.session.remote = Remote
        BY Zenon, <4>1, <4>2, EffectRows DEF Rows, SingleOnionKey, Exists
      <4>4. Exists => /\ Exists' /\ db'.session.local = db.session.local
                      /\ db.session # NoSession
        BY DBAssumption DEF Exists, Kept, NoSession, Session
      <4>6. CASE node[m].at = "add"
        <5>1. db'.session.local = node[m].local
          BY <3>a, <4>3, <4>6 DEF NodeOp, Op
        <5> QED  BY Zenon, <3>0, <4>6, <5>1 DEF NodeOK
      <4>7. CASE node[m].at = "remote"
        <5>1. Exists /\ node[m].local = db.session.local
          BY Zenon, <4>7 DEF NodeOK
        <5>2. db'.session.remote = Remote
          BY <3>a, <4>3, <4>4, <4>7, <5>1 DEF NodeOp, Op
        <5> QED  BY Zenon, <3>0, <4>4, <4>7, <5>1, <5>2 DEF NodeOK
      <4>8. CASE node[m].at = "expiry"
        BY Zenon, <3>0, <4>4, <4>8 DEF NodeOK, Kept
      <4> QED  BY Zenon, <3>2, <3>a, <4>6, <4>7, <4>8
    <3> QED  BY Zenon, <3>1, <3>2
  <2> QED  BY Zenon, <2>1, <2>2
<1>8. ASSUME NEW c \in Callers, CommitLost(c), UNCHANGED <<active, node>>
      PROVE \A m \in Nodes : NodeOK(m)'
  <2> TAKE m \in Nodes
  <2>1. CASE m # c
    BY Zenon, <1>8, <2>1, NodeStays DEF StoreTypes, CommitLost, Return
  <2>2. CASE m = c
    BY Zenon, <1>8, <2>2, NodeFails DEF StoreTypes, Failed, Result, CommitLost, Return
  <2> QED  BY Zenon, <2>1, <2>2
<1>9. ASSUME NEW c \in Callers, CommitFails(c), UNCHANGED <<active, node>>
      PROVE \A m \in Nodes : NodeOK(m)'
  <2> TAKE m \in Nodes
  <2>1. CASE m # c
    BY Zenon, <1>9, <2>1, NodeStays DEF StoreTypes, CommitFails, Return
  <2>2. CASE m = c
    BY Zenon, <1>9, <2>2, NodeFails DEF StoreTypes, Failed, Result, CommitFails, Return
  <2> QED  BY Zenon, <2>1, <2>2
<1>10. ASSUME NEW n \in Nodes, NewNodeConn(n) PROVE \A m \in Nodes : NodeOK(m)'
  <2> TAKE m \in Nodes
  <2>1. CASE m # n
    BY Zenon, <1>10, <2>1, NodeStays DEF StoreTypes, NewNodeConn, Call, Returned, Goto
  <2>2. CASE m = n
    BY <1>10, <2>2, NodeAssumption
      DEF StoreTypes, NodeOK, NodeOp, Known, Exists, Rows, NodeStates, NewNodeConn, Call,
          Returned, Goto
  <2> QED  BY Zenon, <2>1, <2>2
<1>11. ASSUME NEW n \in Nodes, GotNoSession(n) PROVE \A m \in Nodes : NodeOK(m)'
  <2> TAKE m \in Nodes
  <2>1. CASE m # n
    BY Zenon, <1>11, <2>1, NodeStays DEF StoreTypes, GotNoSession, Call, Returned, Down
  <2>2. CASE m = n
    BY <1>11, <2>2, NodeAssumption
      DEF StoreTypes, NodeOK, NodeOp, Known, Exists, Rows, NodeStates, GotNoSession,
          Call, Returned, Down
  <2> QED  BY Zenon, <2>1, <2>2
<1>12. ASSUME NEW n \in Nodes, GotSession(n) PROVE \A m \in Nodes : NodeOK(m)'
  <2> TAKE m \in Nodes
  <2>1. CASE m # n
    BY Zenon, <1>12, <2>1, NodeStays DEF StoreTypes, GotSession, Returned, dbvars
  <2>2. CASE m = n
    BY Zenon, <1>12, <2>2, NodeAssumption
      DEF StoreTypes, NodeOK, NodeOp, Known, Exists, Rows, NodeStates, GotSession,
          Returned, dbvars
  <2> QED  BY Zenon, <2>1, <2>2
<1>13. ASSUME NEW n \in Nodes, AddedSession(n) PROVE \A m \in Nodes : NodeOK(m)'
  <2> TAKE m \in Nodes
  <2>1. CASE m # n
    BY Zenon, <1>13, <2>1, NodeStays DEF StoreTypes, AddedSession, Returned, Goto, dbvars
  <2>2. CASE m = n
    BY <1>13, <2>2, NodeAssumption
      DEF StoreTypes, NodeOK, NodeOp, Known, Exists, Rows, NodeStates, AddedSession,
          Returned, Goto, dbvars
  <2> QED  BY Zenon, <2>1, <2>2
<1>14. ASSUME NEW n \in Nodes, StartFails(n) PROVE \A m \in Nodes : NodeOK(m)'
  <2> TAKE m \in Nodes
  <2>1. CASE m # n
    BY Zenon, <1>14, <2>1, NodeStays DEF StoreTypes, StartFails, Returned, Down, dbvars
  <2>2. CASE m = n
    BY Zenon, <1>14, <2>2, NodeAssumption
      DEF StoreTypes, NodeOK, NodeOp, Known, Exists, Rows, NodeStates, StartFails,
          Returned, Down, dbvars
  <2> QED  BY Zenon, <2>1, <2>2
<1>15. ASSUME NEW n \in Nodes, OnRemoteStatic(n) PROVE \A m \in Nodes : NodeOK(m)'
  <2> TAKE m \in Nodes
  <2>1. CASE m # n
    BY Zenon, <1>15, <2>1, NodeStays DEF StoreTypes, OnRemoteStatic, Call, Returned, Goto
  <2>2. CASE m = n
    BY <1>15, <2>2, NodeAssumption
      DEF StoreTypes, NodeOK, NodeOp, Known, Exists, Rows, NodeStates, OnRemoteStatic,
          Call, Returned, Goto
  <2> QED  BY Zenon, <2>1, <2>2
<1>16. ASSUME NEW n \in Nodes, RemoteStored(n) PROVE \A m \in Nodes : NodeOK(m)'
  <2> TAKE m \in Nodes
  <2>1. CASE m # n
    BY Zenon, <1>16, <2>1, NodeStays DEF StoreTypes, RemoteStored, Returned, dbvars
  <2>2. CASE m = n
    BY <1>16, <2>2, NodeAssumption
      DEF StoreTypes, NodeOK, NodeOp, Known, Exists, Rows, NodeStates, RemoteStored,
          Returned, dbvars
  <2> QED  BY Zenon, <2>1, <2>2
<1>17. ASSUME NEW n \in Nodes, OnAuthData(n) PROVE \A m \in Nodes : NodeOK(m)'
  <2> TAKE m \in Nodes
  <2>1. CASE m # n
    BY Zenon, <1>17, <2>1, NodeStays DEF StoreTypes, OnAuthData, Call, Returned
  <2>2. CASE m = n
    BY <1>17, <2>2, NodeAssumption
      DEF StoreTypes, NodeOK, NodeOp, Known, Exists, Rows, NodeStates, OnAuthData, Call,
          Returned
  <2> QED  BY Zenon, <2>1, <2>2
<1>18. ASSUME NEW n \in Nodes, ExpiryStored(n) PROVE \A m \in Nodes : NodeOK(m)'
  <2> TAKE m \in Nodes
  <2>1. CASE m # n
    BY Zenon, <1>18, <2>1, NodeStays DEF StoreTypes, ExpiryStored, Returned, Goto, dbvars
  <2>2. CASE m = n
    BY <1>18, <2>2, NodeAssumption
      DEF StoreTypes, NodeOK, NodeOp, Known, Exists, Rows, NodeStates, ExpiryStored,
          Returned, Goto, dbvars
  <2> QED  BY Zenon, <2>1, <2>2
<1>19. ASSUME NEW n \in Nodes, OnAuthDataNoExpiry(n) PROVE \A m \in Nodes : NodeOK(m)'
  <2> TAKE m \in Nodes
  <2>1. CASE m # n
    BY Zenon, <1>19, <2>1, NodeStays DEF StoreTypes, OnAuthDataNoExpiry, Returned, Goto, dbvars
  <2>2. CASE m = n
    BY <1>19, <2>2, NodeAssumption
      DEF StoreTypes, NodeOK, NodeOp, Known, Exists, Rows, NodeStates,
          OnAuthDataNoExpiry, Returned, Goto, dbvars
  <2> QED  BY Zenon, <2>1, <2>2
<1>20. ASSUME NEW n \in Nodes, Disconnect(n) PROVE \A m \in Nodes : NodeOK(m)'
  <2> TAKE m \in Nodes
  <2>1. CASE m # n
    BY Zenon, <1>20, <2>1, NodeStays DEF StoreTypes, Disconnect, Returned, Goto, dbvars
  <2>2. CASE m = n
    BY <1>20, <2>2, NodeAssumption
      DEF StoreTypes, NodeOK, NodeOp, Known, Exists, Rows, NodeStates, Disconnect,
          Returned, Goto, dbvars
  <2> QED  BY Zenon, <2>1, <2>2
<1>21. ASSUME NEW n \in Nodes, DialFails(n) PROVE \A m \in Nodes : NodeOK(m)'
  <2> TAKE m \in Nodes
  <2>1. CASE m # n
    BY Zenon, <1>21, <2>1, NodeStays DEF StoreTypes, DialFails, Returned, Down, dbvars
  <2>2. CASE m = n
    BY Zenon, <1>21, <2>2, NodeAssumption
      DEF StoreTypes, NodeOK, NodeOp, Known, Exists, Rows, NodeStates, DialFails,
          Returned, Down, dbvars
  <2> QED  BY Zenon, <2>1, <2>2
<1>22. ASSUME NEW n \in Nodes, CloseConn(n) PROVE \A m \in Nodes : NodeOK(m)'
  <2> TAKE m \in Nodes
  <2>1. CASE m # n
    BY Zenon, <1>22, <2>1, NodeStays DEF StoreTypes, CloseConn, Returned, Down, dbvars
  <2>2. CASE m = n
    BY Zenon, <1>22, <2>2, NodeAssumption
      DEF StoreTypes, NodeOK, NodeOp, Known, Exists, Rows, NodeStates, CloseConn,
          Returned, Down, dbvars
  <2> QED  BY Zenon, <2>1, <2>2
<1>23. CASE Crash
  BY Zenon, <1>23 DEF NodeOK, NodeOp, Crash, DBCrash, Down
<1>24. CASE UNCHANGED vars
  BY Zenon, <1>24, NodeStays DEF vars
<1> QED
  BY Zenon, <1>1, <1>2, <1>3, <1>4, <1>5, <1>6, <1>7, <1>8, <1>9, <1>10, <1>11,
     <1>12, <1>13, <1>14, <1>15, <1>16, <1>17, <1>18, <1>19, <1>20, <1>21,
     <1>22, <1>23, <1>24 DEF Next, Tx, ExecTx

\* The invariant holds in the empty database.
LEMMA InitIInv == Init => IInv
<1> SUFFICES ASSUME Init PROVE IInv
  BY Zenon
<1>1. Types
  <2>1. db \in DBs
    BY Zenon DEF Init, DBInit, Empty, DBs, Sessions, NoSession, Session
  <2>2. StoreTypes
    BY DBAssumption DEF Init, DBInit, StoreTypes
  <2>3. node \in [Nodes -> NodeStates]
    BY Zenon DEF Init, Down, NodeStates, Places
  <2> QED  BY Zenon, <2>1, <2>2, <2>3 DEF Init, Types
<1>2. Isolated /\ Rows
  BY Zenon DEF Init, DBInit, Empty, Isolated, Rows, SingleOnionKey
<1>3. ASSUME NEW n \in Nodes PROVE NodeOK(n)
  BY Zenon, NodeAssumption DEF Init, DBInit, Down, NodeOK
<1> QED  BY Zenon, <1>1, <1>2, <1>3 DEF IInv

\* Every step preserves the invariant.
LEMMA NextIInv ==
    ASSUME IInv, [Next]_vars
    PROVE  IInv'
<1>1. Types' /\ Isolated' /\ Rows'
  BY Zenon, TypesStep, IsolatedStep, TablesStep DEF IInv
<1>2. \A n \in Nodes : NodeOK(n)'
  BY Zenon, NodesStep
<1> QED  BY Zenon, <1>1, <1>2 DEF IInv

\* The invariant holds in every reachable state.
LEMMA Invariance == Spec => []IInv
BY InitIInv, NextIInv, PTL DEF Spec

-----------------------------------------------------------------------------
(***************************************************************************)
(* The theorems.                                                           *)
(***************************************************************************)
\* The types of the tables, callers and nodes, for any constants: no operation
\* is tried more than numRetries times, and a node waits for the store only in
\* one of its four store operations (ExecTx, NewNodeConn).
THEOREM TypeCorrect == Spec => []TypeOK
<1>1. IInv => TypeOK
  BY Zenon, NodeAssumption DEF IInv, Types, StoreTypes, DBs, NodeOK, TypeOK, DBTypeOK
<1> QED  BY <1>1, Invariance, PTL

\* There is one onion key at most, however many callers store theirs at once
\* and however often they retry (StorePrivateKey).
THEOREM OneOnionKey == Spec => []SingleOnionKey
<1>1. IInv => SingleOnionKey
  BY Zenon DEF IInv, Rows
<1> QED  BY <1>1, Invariance, PTL

\* Any number of instances that share a passphrase connect with the key that is
\* stored, and have stored the key of the remote node before they are open
\* (NewNodeConn, onRemoteStatic).
THEOREM StoredSession == Spec => []UsesStoredSession
<1>1. IInv => UsesStoredSession
  BY Zenon DEF IInv, NodeOK, UsesStoredSession
<1> QED  BY <1>1, Invariance, PTL

-----------------------------------------------------------------------------
(***************************************************************************)
(* The refinement.                                                         *)
(***************************************************************************)
St == [c \in Callers |-> Progress(c)]

\* AtomicStore speaks of the same operations.
LEMMA SameWords ==
    /\ Atomic!NoOp = NoOp /\ Atomic!Ok = Ok /\ Atomic!Failed = Failed
    /\ Atomic!Reads = Reads /\ Atomic!Empty = Empty
BY Zenon DEF Atomic!NoOp, NoOp, Atomic!Op, Op, Atomic!Ok, Ok, Atomic!Failed, Failed,
       Atomic!Result, Result, Atomic!Reads, Reads, Atomic!Empty, Empty,
       Atomic!NoSession, NoSession, Atomic!Session, Session

\* The results of an operation are the same.
LEMMA SameAnswer ==
    ASSUME NEW o, NEW d
    PROVE  Atomic!Answer(o, d) = Answer(o, d)
<1>1. Atomic!SecretAnswer(o, d) = SecretAnswer(o, d)
  BY Zenon DEF Atomic!SecretAnswer, SecretAnswer, Atomic!Result, Result, Atomic!Ok, Ok
<1>2. Atomic!OnionAnswer(o, d) = OnionAnswer(o, d)
  BY Zenon DEF Atomic!OnionAnswer, OnionAnswer, Atomic!Result, Result, Atomic!Ok, Ok
<1>3. Atomic!SessionAnswer(o, d) = SessionAnswer(o, d)
  BY Zenon DEF Atomic!SessionAnswer, SessionAnswer, Atomic!Result, Result, Atomic!Ok, Ok,
         Atomic!NoSession, NoSession, Atomic!Session, Session
<1> QED
  BY Zenon, <1>1, <1>2, <1>3
    DEF Atomic!Answer, Answer, Atomic!Secrets, Secrets, Atomic!Onions, Onions

\* So are its effects.
LEMMA SameEffect ==
    ASSUME NEW o, NEW d
    PROVE  Atomic!Effect(o, d) = Effect(o, d)
<1>1. Atomic!SecretEffect(o, d) = SecretEffect(o, d)
  BY Zenon DEF Atomic!SecretEffect, SecretEffect
<1>2. Atomic!OnionEffect(o, d) = OnionEffect(o, d)
  BY Zenon DEF Atomic!OnionEffect, OnionEffect
<1>3. Atomic!SessionEffect(o, d) = SessionEffect(o, d)
  BY Zenon DEF Atomic!SessionEffect, SessionEffect, Atomic!WithExpiry, WithExpiry,
         Atomic!NoSession, NoSession, Atomic!Session, Session
<1> QED
  BY Zenon, <1>1, <1>2, <1>3
    DEF Atomic!Effect, Effect, Atomic!Secrets, Secrets, Atomic!Onions, Onions

\* Only the caller that moves makes progress.
LEMMA OneMoves ==
    ASSUME StoreTypes, NEW c \in Callers, NEW p,
           \A d \in Callers \ {c} : pc'[d] = pc[d] /\ op'[d] = op[d],
           Progress(c)' = p
    PROVE  St' = [St EXCEPT ![c] = p]
<1>1. \A d \in Callers \ {c} : Progress(d)' = Progress(d)
  BY Zenon DEF Progress
<1> QED  BY Zenon, <1>1 DEF St

\* Nobody makes progress.
LEMMA NobodyMoves ==
    ASSUME \A d \in Callers : Progress(d)' = Progress(d)
    PROVE  St' = St
BY Zenon DEF St

\* A caller enters ExecTx.
LEMMA CallRefines ==
    ASSUME StoreTypes, NEW c \in Callers, NEW o \in Ops, Call(c, o)
    PROVE  Atomic!Next
<1>1. Progress(c) = "idle" /\ Progress(c)' = "called"
  BY Zenon DEF Call, Progress, StoreTypes
<1>2. St' = [St EXCEPT ![c] = "called"]
  BY Zenon, <1>1, OneMoves DEF Call, StoreTypes
<1>3. Atomic!Call(c, o)
  BY Zenon, <1>1, <1>2, SameWords DEF Call, Atomic!Call, St
<1> QED  BY Zenon, <1>3 DEF Atomic!Next

\* A caller leaves ExecTx.
LEMMA ReturnRefines ==
    ASSUME StoreTypes, NEW c \in Callers, NEW r, Return(c, r)
    PROVE  Atomic!Return(c, r)
<1>1. Progress(c)' = "idle"
  BY Zenon DEF Return, Progress, StoreTypes
<1>2. St' = [St EXCEPT ![c] = "idle"]
  BY Zenon, <1>1, OneMoves DEF Return, StoreTypes
<1> QED  BY Zenon, <1>2, SameWords DEF Return, Atomic!Return, St

\* An operation that ends with an error of the database.
LEMMA FailRefines ==
    ASSUME StoreTypes, NEW c \in Callers, pc[c] # "idle", Return(c, Failed), db' = db
    PROVE  Atomic!Next
<1>1. St[c] # "idle"
  BY Zenon DEF St, Progress
<1>2. Atomic!Fail(c)
  BY Zenon, <1>1, ReturnRefines, SameWords DEF Atomic!Fail, St
<1> QED  BY Zenon, <1>2 DEF Atomic!Next

\* Every step is a step of the atomic store, or leaves it alone.
LEMMA StoreStep ==
    ASSUME IInv, [Next]_vars
    PROVE  [Atomic!Next]_<<db, St, op, res>>
<1> USE DEF IInv, Types
<1>1. ASSUME NEW c \in Callers, OtherCall(c) PROVE [Atomic!Next]_<<db, St, op, res>>
  <2>1. PICK o \in active.ops : Call(c, o)
    BY Zenon, <1>1 DEF OtherCall
  <2>2. o \in Ops
    BY Zenon, NodeAssumption
  <2> QED  BY Zenon, <2>1, <2>2, CallRefines
<1>2. ASSUME NEW c \in Callers, Begin(c), UNCHANGED <<active, node>>
      PROVE [Atomic!Next]_<<db, St, op, res>>
  <2>1. \A d \in Callers : Progress(d)' = Progress(d)
    BY Zenon, <1>2 DEF StoreTypes, Begin, Progress
  <2> QED  BY Zenon, <1>2, <2>1, NobodyMoves DEF Begin
<1>3. ASSUME NEW c \in Callers, Body(c), UNCHANGED <<active, node>>
      PROVE [Atomic!Next]_<<db, St, op, res>>
  <2>1. CASE op[c].kind \in Reads
    <3>1. Progress(c) = "called" /\ Progress(c)' = "read"
      BY Zenon, <1>3, <2>1 DEF StoreTypes, Body, Progress
    <3>2. St' = [St EXCEPT ![c] = "read"]
      BY Zenon, <1>3, <3>1, OneMoves DEF StoreTypes, Body
    <3>3. Atomic!Read(c)
      BY Zenon, <1>3, <2>1, <3>1, <3>2, SameWords, SameAnswer
        DEF StoreTypes, Body, Atomic!Read, St
    <3> QED  BY Zenon, <3>3 DEF Atomic!Next
  <2>2. CASE op[c].kind \notin Reads
    <3>1. \A d \in Callers : Progress(d)' = Progress(d)
      BY Zenon, <1>3, <2>2 DEF StoreTypes, Body, Progress
    <3> QED  BY Zenon, <1>3, <2>2, <3>1, NobodyMoves DEF Body
  <2> QED  BY Zenon, <2>1, <2>2
<1>4. ASSUME NEW c \in Callers, BodyRefuses(c), UNCHANGED <<active, node>>
      PROVE [Atomic!Next]_<<db, St, op, res>>
  <2>1. St[c] = "called"
    BY Zenon, <1>4 DEF BodyRefuses, St, Progress
  <2>2. Atomic!Return(c, Answer(op[c], db))
    BY Zenon, <1>4, ReturnRefines DEF BodyRefuses
  <2>3. Atomic!Refuse(c)
    BY Zenon, <1>4, <2>1, <2>2, SameAnswer DEF BodyRefuses, Atomic!Refuse, St
  <2> QED  BY Zenon, <2>3 DEF Atomic!Next
<1>5. ASSUME NEW c \in Callers, BodyNotSerializable(c), UNCHANGED <<active, node>>
      PROVE [Atomic!Next]_<<db, St, op, res>>
  <2>1. CASE tries[c] + 1 < NumRetries
    <3>1. \A d \in Callers : Progress(d)' = Progress(d)
      BY Zenon, <1>5, <2>1 DEF StoreTypes, BodyNotSerializable, Progress
    <3> QED  BY Zenon, <1>5, <2>1, <3>1, NobodyMoves DEF BodyNotSerializable
  <2>2. CASE ~(tries[c] + 1 < NumRetries)
    BY Zenon, <1>5, <2>2, FailRefines DEF BodyNotSerializable
  <2> QED  BY Zenon, <2>1, <2>2
<1>6. ASSUME NEW c \in Callers, TxError(c), UNCHANGED <<active, node>>
      PROVE [Atomic!Next]_<<db, St, op, res>>
  BY Zenon, <1>6, FailRefines DEF TxError
<1>7. ASSUME NEW c \in Callers, Commit(c), UNCHANGED <<active, node>>
      PROVE [Atomic!Next]_<<db, St, op, res>>
  <2>1. CASE op[c].kind \in Reads
    <3>0. Return(c, res[c]) /\ db' = db /\ St[c] = "read"
      BY Zenon, <1>7, <2>1 DEF Commit, St, Progress
    <3>1. St[c] = "read" /\ Atomic!Return(c, res[c]) /\ db' = db
      BY Zenon, <3>0, ReturnRefines
    <3>2. Atomic!ReadReturns(c)
      BY Zenon, <3>1 DEF Atomic!ReadReturns, St
    <3> QED  BY Zenon, <3>2 DEF Atomic!Next
  <2>2. CASE op[c].kind \notin Reads
    <3>0. Return(c, Answer(op[c], db)) /\ db' = Effect(op[c], db) /\ St[c] = "called"
      BY Zenon, <1>7, <2>2 DEF Commit, St, Progress
    <3>1. St[c] = "called" /\ db' = Effect(op[c], db) /\ Atomic!Return(c, Answer(op[c], db))
      BY Zenon, <3>0, ReturnRefines
    <3>2. Answer(op[c], db).st = "ok"
      BY Zenon, <1>7, <2>2, AnswerRows DEF Commit, IInv, Isolated
    <3>3. Atomic!Write(c)
      BY Zenon, <2>2, <3>1, <3>2, SameWords, SameAnswer, SameEffect DEF Atomic!Write, St
    <3> QED  BY Zenon, <3>3 DEF Atomic!Next
  <2> QED  BY Zenon, <2>1, <2>2
<1>8. ASSUME NEW c \in Callers, CommitLost(c), UNCHANGED <<active, node>>
      PROVE [Atomic!Next]_<<db, St, op, res>>
  <2>1. St[c] = "called" /\ db' = Effect(op[c], db) /\ Atomic!Return(c, Failed)
    BY Zenon, <1>8, ReturnRefines DEF CommitLost, St, Progress
  <2>2. Answer(op[c], db).st = "ok" /\ op[c].kind \notin Reads
    BY Zenon, <1>8, AnswerRows DEF CommitLost, IInv, Isolated
  <2>3. Atomic!Write(c)
    BY Zenon, <2>1, <2>2, SameWords, SameAnswer, SameEffect DEF Atomic!Write, St
  <2> QED  BY Zenon, <2>3 DEF Atomic!Next
<1>9. ASSUME NEW c \in Callers, CommitFails(c), UNCHANGED <<active, node>>
      PROVE [Atomic!Next]_<<db, St, op, res>>
  BY Zenon, <1>9, FailRefines DEF CommitFails
<1>10. ASSUME NEW n \in Nodes, NewNodeConn(n) PROVE [Atomic!Next]_<<db, St, op, res>>
  BY Zenon, <1>10, NodeOps, NodeAssumption, CallRefines DEF NewNodeConn
<1>11. ASSUME NEW n \in Nodes, GotNoSession(n) PROVE [Atomic!Next]_<<db, St, op, res>>
  <2>1. PICK k \in Values : Call(n, Op("AddSession", None, k))
    BY Zenon, <1>11 DEF GotNoSession
  <2> QED  BY Zenon, <2>1, NodeOps, NodeAssumption, CallRefines
<1>12. ASSUME NEW n \in Nodes, GotSession(n) PROVE [Atomic!Next]_<<db, St, op, res>>
  BY Zenon, <1>12, NobodyMoves DEF dbvars, Progress, GotSession
<1>13. ASSUME NEW n \in Nodes, AddedSession(n) PROVE [Atomic!Next]_<<db, St, op, res>>
  BY Zenon, <1>13, NobodyMoves DEF dbvars, Progress, AddedSession
<1>14. ASSUME NEW n \in Nodes, StartFails(n) PROVE [Atomic!Next]_<<db, St, op, res>>
  BY Zenon, <1>14, NobodyMoves DEF dbvars, Progress, StartFails
<1>15. ASSUME NEW n \in Nodes, OnRemoteStatic(n) PROVE [Atomic!Next]_<<db, St, op, res>>
  BY Zenon, <1>15, NodeOps, NodeAssumption, CallRefines DEF OnRemoteStatic
<1>16. ASSUME NEW n \in Nodes, RemoteStored(n) PROVE [Atomic!Next]_<<db, St, op, res>>
  BY Zenon, <1>16, NobodyMoves DEF dbvars, Progress, RemoteStored
<1>17. ASSUME NEW n \in Nodes, OnAuthData(n) PROVE [Atomic!Next]_<<db, St, op, res>>
  BY Zenon, <1>17, NodeOps, NodeAssumption, CallRefines DEF OnAuthData
<1>18. ASSUME NEW n \in Nodes, ExpiryStored(n) PROVE [Atomic!Next]_<<db, St, op, res>>
  BY Zenon, <1>18, NobodyMoves DEF dbvars, Progress, ExpiryStored
<1>19. ASSUME NEW n \in Nodes, OnAuthDataNoExpiry(n)
       PROVE [Atomic!Next]_<<db, St, op, res>>
  BY Zenon, <1>19, NobodyMoves DEF dbvars, Progress, OnAuthDataNoExpiry
<1>20. ASSUME NEW n \in Nodes, Disconnect(n) PROVE [Atomic!Next]_<<db, St, op, res>>
  BY Zenon, <1>20, NobodyMoves DEF dbvars, Progress, Disconnect
<1>21. ASSUME NEW n \in Nodes, DialFails(n) PROVE [Atomic!Next]_<<db, St, op, res>>
  BY Zenon, <1>21, NobodyMoves DEF dbvars, Progress, DialFails
<1>22. ASSUME NEW n \in Nodes, CloseConn(n) PROVE [Atomic!Next]_<<db, St, op, res>>
  BY Zenon, <1>22, NobodyMoves DEF dbvars, Progress, CloseConn
<1>23. CASE Crash
  <2>1. St' = [c \in Callers |-> "idle"]
    BY Zenon, <1>23 DEF Crash, DBCrash, St, Progress
  <2>2. Atomic!Crash
    BY Zenon, <1>23, <2>1, SameWords DEF Crash, DBCrash, Atomic!Crash, St
  <2> QED  BY Zenon, <2>2 DEF Atomic!Next
<1>24. CASE UNCHANGED vars
  BY Zenon, <1>24, NobodyMoves DEF vars, Progress
<1> QED
  BY Zenon, <1>1, <1>2, <1>3, <1>4, <1>5, <1>6, <1>7, <1>8, <1>9, <1>10, <1>11,
     <1>12, <1>13, <1>14, <1>15, <1>16, <1>17, <1>18, <1>19, <1>20, <1>21,
     <1>22, <1>23, <1>24 DEF Next, Tx, ExecTx

\* Transactions, retries, errors, lost answers and crashes, with any number of
\* callers, implement operations that take effect at once and at most once
\* (ExecTx).
THEOREM Refinement == Spec => ImplementsAtomicStore
<1>1. Init => Atomic!Init
  BY Zenon, SameWords DEF Init, DBInit, Atomic!Init, Progress
<1>2. IInv /\ [Next]_vars => [Atomic!Next]_<<db, St, op, res>>
  BY Zenon, StoreStep
<1> QED
  BY <1>1, <1>2, Invariance, PTL
    DEF Spec, ImplementsAtomicStore, Atomic!Spec, Atomic!vars, St
=============================================================================
