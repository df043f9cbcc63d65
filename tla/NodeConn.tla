------------------------------ MODULE NodeConn ------------------------------
(***************************************************************************)
(* The Lightning Node Connect connection to a remote lnd (lnc/lnc.go,      *)
(* lnc/session.go) on top of the session store of ApertureDB: NewNodeConn  *)
(* loads or creates the session, the mailbox library calls back with the   *)
(* remote key and the authentication data during each handshake.  Nodes    *)
(* are instances that share a database and a passphrase.  A deployment     *)
(* says which callers there are, what those that are not nodes do with the *)
(* other stores and whether the process may crash.  The mailbox library    *)
(* and the remote node are external.                                       *)
(*                                                                         *)
(* Operators named *_bug are faulty variants of the definition after them; *)
(* they are no part of the specification.                                  *)
(***************************************************************************)
EXTENDS ApertureDB

CONSTANTS Nodes,        \* instances of NodeConn, each of them a caller of the store
          Deployments,  \* records: callers, ops of those that are no nodes, crash
          Remote,       \* the static key of the remote node
          Expiry        \* the expiry of the macaroon it sends

\* The calls a NodeConn makes of its session store.
SessionOps ==
    {Op("GetSession", None, None), Op("SetRemotePubKey", None, Remote),
     Op("SetExpiry", None, Expiry)} \union {Op("AddSession", None, k) : k \in Values}

ASSUME NodeAssumption ==
    /\ Nodes \subseteq Callers /\ Remote # None
    /\ SessionOps = {o \in Ops : o.kind \notin Secrets \union Onions}
    /\ \A d \in Deployments : d.callers \subseteq Callers /\ d.ops \subseteq Ops

VARIABLES active,  \* the deployment
          node     \* the NodeConn of each node

vars == <<db, pc, op, tries, snap, res, crashes, active, node>>

Down == [at |-> "down", local |-> None, remote |-> None, expiry |-> None]

Init ==
    /\ DBInit
    /\ active \in Deployments
    /\ node = [n \in Nodes |-> Down]

\* Any other store operation, by any other part of aperture.
OtherCall(c) ==
    /\ c \in active.callers \ Nodes
    /\ \E o \in active.ops : Call(c, o)
    /\ UNCHANGED <<active, node>>

Tx(c) == ExecTx(c) /\ UNCHANGED <<active, node>>

Goto(n, l) == node' = [node EXCEPT ![n].at = l]

Returned(n, l) == node[n].at = l /\ pc[n] = "idle"

\* NewNodeConn looks the session up.
NewNodeConn(n) ==
    /\ n \in active.callers /\ Returned(n, "down")
    /\ Call(n, Op("GetSession", None, None))
    /\ Goto(n, "get")
    /\ UNCHANGED active

\* There is none: it is created with a new local key.
GotNoSession(n) ==
    /\ Returned(n, "get") /\ res[n].st = "missing"
    /\ \E k \in Values :
         /\ Call(n, Op("AddSession", None, k))
         /\ node' = [node EXCEPT ![n] = [Down EXCEPT !.at = "add", !.local = k]]
    /\ UNCHANGED active

\* The stored session replaces the configured one.
GotSession(n) ==
    /\ Returned(n, "get") /\ res[n].st = "ok"
    /\ node' = [node EXCEPT ![n] = [at |-> "dial", local |-> res[n].val.local,
                                    remote |-> res[n].val.remote, expiry |-> res[n].val.expiry]]
    /\ UNCHANGED <<dbvars, active>>

\* Connects with the new key whatever the store said.
AddedSession_bug(n) ==
    /\ Returned(n, "add")
    /\ Goto(n, "dial")
    /\ UNCHANGED <<dbvars, active>>

AddedSession(n) ==
    /\ Returned(n, "add") /\ res[n].st = "ok"
    /\ Goto(n, "dial")
    /\ UNCHANGED <<dbvars, active>>

\* The store fails: so does NewNodeConn.
StartFails(n) ==
    /\ \/ Returned(n, "get") /\ res[n].st = "error"
       \/ Returned(n, "add") /\ res[n].st # "ok"
    /\ node' = [node EXCEPT ![n] = Down]
    /\ UNCHANGED <<dbvars, active>>

\* onRemoteStatic, in the first handshake of a session.
OnRemoteStatic(n) ==
    /\ Returned(n, "dial") /\ node[n].remote = None
    /\ Call(n, Op("SetRemotePubKey", None, Remote))
    /\ Goto(n, "remote")
    /\ UNCHANGED active

\* An error makes the handshake fail; the library dials again.
RemoteStored(n) ==
    /\ Returned(n, "remote")
    /\ node' = [node EXCEPT ![n].at = "dial",
                            ![n].remote = IF res[n].st = "ok" THEN Remote ELSE None]
    /\ UNCHANGED <<dbvars, active>>

\* onAuthData with a macaroon that has an expiry nobody has stored yet.
OnAuthData(n) ==
    /\ Returned(n, "dial") /\ node[n].remote # None /\ node[n].expiry = None
    /\ Call(n, Op("SetExpiry", None, Expiry))
    /\ node' = [node EXCEPT ![n].at = "expiry", ![n].expiry = Expiry]
    /\ UNCHANGED active

\* An expiry that could not be stored is only logged.
ExpiryStored(n) ==
    /\ Returned(n, "expiry")
    /\ Goto(n, "open")
    /\ UNCHANGED <<dbvars, active>>

\* onAuthData with a known expiry, or a macaroon without one.
OnAuthDataNoExpiry(n) ==
    /\ Returned(n, "dial") /\ node[n].remote # None
    /\ Goto(n, "open")
    /\ UNCHANGED <<dbvars, active>>

\* The connection breaks; the library dials again, on the same session.
Disconnect(n) ==
    /\ Returned(n, "open")
    /\ Goto(n, "dial")
    /\ UNCHANGED <<dbvars, active>>

\* newConn fails, or its first connection does.
DialFails(n) ==
    /\ Returned(n, "dial")
    /\ node' = [node EXCEPT ![n] = Down]
    /\ UNCHANGED <<dbvars, active>>

\* CloseConn and Stop; sync.Once closes the connection once.
CloseConn(n) ==
    /\ Returned(n, "open")
    /\ node' = [node EXCEPT ![n] = Down]
    /\ UNCHANGED <<dbvars, active>>

Crash ==
    /\ active.crash /\ DBCrash
    /\ node' = [n \in Nodes |-> Down]
    /\ UNCHANGED active

Next ==
    \/ \E c \in Callers : OtherCall(c)
    \/ \E c \in Callers : Tx(c)
    \/ \E n \in Nodes : NewNodeConn(n)
    \/ \E n \in Nodes : GotNoSession(n)
    \/ \E n \in Nodes : GotSession(n)
    \/ \E n \in Nodes : AddedSession(n)
    \/ \E n \in Nodes : StartFails(n)
    \/ \E n \in Nodes : OnRemoteStatic(n)
    \/ \E n \in Nodes : RemoteStored(n)
    \/ \E n \in Nodes : OnAuthData(n)
    \/ \E n \in Nodes : ExpiryStored(n)
    \/ \E n \in Nodes : OnAuthDataNoExpiry(n)
    \/ \E n \in Nodes : Disconnect(n)
    \/ \E n \in Nodes : DialFails(n)
    \/ \E n \in Nodes : CloseConn(n)
    \/ Crash

Spec == Init /\ [][Next]_vars

\* A transaction goes on; a connection that becomes free again and again
\* reaches a caller that waits, as database/sql serves waiters in turn; and a
\* body that needs a second connection gets one or runs into its deadline.
Fairness ==
    \A c \in Callers :
        /\ SF_vars(Begin(c) /\ UNCHANGED <<active, node>>)
        /\ WF_vars(pc[c] \in {"body", "commit"} /\ Tx(c))

FairSpec == Spec /\ Fairness

(***************************************************************************)
(* Properties.                                                             *)
(***************************************************************************)
\* Type correctness, and a node waits for the store only in one of its four
\* store operations.
TypeOK ==
    /\ DBTypeOK
    /\ active.callers \subseteq Callers
    /\ \A n \in Nodes : pc[n] # "idle" => node[n].at \in {"get", "add", "remote", "expiry"}

\* Whatever fails or crashes and however many instances start at once, a
\* connection uses the local key that is in the database, and is open only if
\* the remote key is there too: after a restart the two nodes recognize each
\* other without the passphrase (NewNodeConn, AddSession, onRemoteStatic).
UsesStoredSession ==
    \A n \in Nodes :
        /\ node[n].at \in {"dial", "remote", "expiry", "open"}
               => node[n].local = db.session.local
        /\ node[n].at = "open" => db.session.remote = Remote
=============================================================================
