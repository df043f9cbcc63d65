------------------------------ MODULE StoreOps ------------------------------
(***************************************************************************)
(* What the operations of the SQL stores do to the database when nothing   *)
(* else runs (aperturedb/secrets.go, onion.go, lnc_sessions.go and the     *)
(* queries and constraints of their tables).  The database is a record:    *)
(* secret maps a token hash to its secret, onion is the set of rows of the *)
(* onion table and session the row of the one LNC passphrase.              *)
(***************************************************************************)
CONSTANTS Hashes,  \* token hashes
          Values,  \* secrets, onion keys, static keys
          None     \* NULL, or no row

Op(kind, key, val) == [kind |-> kind, key |-> key, val |-> val]
Session(local, remote, expiry) == [local |-> local, remote |-> remote, expiry |-> expiry]
NoSession == Session(None, None, None)

Empty == [secret |-> [h \in Hashes |-> None], onion |-> {}, session |-> NoSession]

Result(st, val) == [st |-> st, val |-> val]
Ok == Result("ok", None)
Failed == Result("error", None)

Reads == {"GetSecret", "PrivateKey", "GetSession"}

\* The results.  "refused" stands for a violated unique constraint or another
\* onion key, "missing" for a row that is not there.
SecretAnswer(o, db) ==
    CASE o.kind = "NewSecret" /\ db.secret[o.key] # None -> Result("refused", None)
      [] o.kind = "NewSecret" /\ db.secret[o.key] = None -> Result("ok", o.val)
      [] o.kind = "GetSecret" /\ db.secret[o.key] = None -> Result("missing", None)
      [] o.kind = "GetSecret" /\ db.secret[o.key] # None -> Result("ok", db.secret[o.key])
      [] OTHER -> Ok

OnionAnswer(o, db) ==
    CASE o.kind = "StorePrivateKey" /\ ~(db.onion \subseteq {o.val}) -> Result("refused", None)
      [] o.kind = "PrivateKey" /\ db.onion = {} -> Result("missing", None)
      [] o.kind = "PrivateKey" /\ db.onion # {} -> Result("ok", CHOOSE k \in db.onion : TRUE)
      [] OTHER -> Ok

SessionAnswer(o, db) ==
    CASE o.kind = "AddSession" /\ db.session # NoSession -> Result("refused", None)
      [] o.kind = "GetSession" /\ db.session = NoSession -> Result("missing", None)
      [] o.kind = "GetSession" /\ db.session # NoSession -> Result("ok", db.session)
      [] OTHER -> Ok

Secrets == {"NewSecret", "GetSecret", "RevokeSecret"}
Onions == {"StorePrivateKey", "PrivateKey", "DeletePrivateKey"}

Answer(o, db) ==
    IF o.kind \in Secrets THEN SecretAnswer(o, db)
    ELSE IF o.kind \in Onions THEN OnionAnswer(o, db) ELSE SessionAnswer(o, db)

\* What an operation that succeeds leaves behind.
SecretEffect(o, db) ==
    CASE o.kind = "NewSecret" -> [db EXCEPT !.secret[o.key] = o.val]
      [] o.kind = "RevokeSecret" -> [db EXCEPT !.secret[o.key] = None]
      [] OTHER -> db

OnionEffect(o, db) ==
    CASE o.kind = "StorePrivateKey" -> [db EXCEPT !.onion = @ \union {o.val}]
      [] o.kind = "DeletePrivateKey" -> [db EXCEPT !.onion = {}]
      [] OTHER -> db

\* The update of SetSessionExpiry.
WithExpiry(s, e) == [s EXCEPT !.expiry = e]

\* The two updates do nothing without a row.
SessionEffect(o, db) ==
    CASE o.kind = "AddSession" -> [db EXCEPT !.session = Session(o.val, None, None)]
      [] o.kind = "SetRemotePubKey" /\ db.session # NoSession ->
            [db EXCEPT !.session.remote = o.val]
      [] o.kind = "SetExpiry" /\ db.session # NoSession ->
            [db EXCEPT !.session = WithExpiry(@, o.val)]
      [] OTHER -> db

Effect(o, db) ==
    IF o.kind \in Secrets THEN SecretEffect(o, db)
    ELSE IF o.kind \in Onions THEN OnionEffect(o, db) ELSE SessionEffect(o, db)

\* The rows an operation reads or writes.
Footprint(o, db) ==
    IF o.kind \in Secrets THEN <<db.secret[o.key]>>
    ELSE IF o.kind \in Onions THEN <<db.onion>> ELSE <<db.session>>
=============================================================================
