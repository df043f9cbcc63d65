----------------------------- MODULE ApertureDB -----------------------------
(***************************************************************************)
(* The SQL backend (aperturedb/interface.go): TransactionExecutor.ExecTx   *)
(* runs the body of a store operation in a serializable transaction, tries *)
(* again when the database cannot serialize it, and gives up on any other  *)
(* error.  Connections come from a pool of bounded size.  The database     *)
(* itself is external: it lets a transaction commit only if the rows the   *)
(* transaction depends on are as it saw them, and it may report a          *)
(* serialization failure at a statement or at the commit.                  *)
(*                                                                         *)
(* Operators named *_bug are faulty variants of the definition after them; *)
(* they are no part of the specification.                                  *)
(***************************************************************************)
EXTENDS StoreOps, Naturals, FiniteSets

CONSTANTS Callers,     \* goroutines that use a store
          Ops,         \* the operations they may ask for
          MaxConns,    \* size of the connection pool
          NumRetries,  \* txExecutorOptions.numRetries
          MaxCrashes   \* bound on the number of crashes

ASSUME DBAssumption ==
    /\ MaxConns \in Nat \ {0} /\ NumRetries \in Nat \ {0} /\ MaxCrashes \in Nat
    /\ None \notin Values
    /\ \A o \in Ops : /\ o.kind \in Secrets => o.key \in Hashes
                      /\ o.kind \in {"NewSecret", "StorePrivateKey"} => o.val \in Values

VARIABLES db,       \* what is committed
          pc,       \* where each caller is in ExecTx
          op,       \* its operation
          tries,    \* its attempts so far
          snap,     \* the rows its transaction depends on, as it saw them
          res,      \* the result of its last operation
          crashes   \* the crashes so far

dbvars == <<db, pc, op, tries, snap, res, crashes>>

NoOp == Op("none", None, None)
NoRows == <<>>

DBInit ==
    /\ db = Empty
    /\ pc = [c \in Callers |-> "idle"]
    /\ op = [c \in Callers |-> NoOp]
    /\ tries = [c \in Callers |-> 0]
    /\ snap = [c \in Callers |-> NoRows]
    /\ res = [c \in Callers |-> Ok]
    /\ crashes = 0

\* Connections in use: a transaction holds one until it ends.
InUse == Cardinality({c \in Callers : pc[c] \in {"body", "commit"}})

\* The next call of the database has the connection it needs: BeginTx takes
\* one from the pool, the statements use that one.  PrivateKey does not use its
\* transaction but takes a second one.
HasConn(c) == pc[c] = "begin" \/ op[c].kind = "PrivateKey" => InUse < MaxConns

\* The onion store and most callers of the session store set a deadline; the
\* callers of the secret store and onAuthData, which sets the expiry, do not.
HasDeadline(o) == o.kind \notin Secrets \union {"SetExpiry"}

\* A store method is called.
Call(c, o) ==
    /\ pc[c] = "idle"
    /\ pc' = [pc EXCEPT ![c] = "begin"]
    /\ op' = [op EXCEPT ![c] = o]
    /\ res' = [res EXCEPT ![c] = Ok]
    /\ UNCHANGED <<db, tries, snap, crashes>>

\* ExecTx returns; a transaction that is still open is rolled back.
Return(c, r) ==
    /\ pc' = [pc EXCEPT ![c] = "idle"]
    /\ op' = [op EXCEPT ![c] = NoOp]
    /\ tries' = [tries EXCEPT ![c] = 0]
    /\ snap' = [snap EXCEPT ![c] = NoRows]
    /\ res' = [res EXCEPT ![c] = r]
    /\ crashes' = crashes

Begin(c) ==
    /\ pc[c] = "begin" /\ HasConn(c)
    /\ pc' = [pc EXCEPT ![c] = "body"]
    /\ UNCHANGED <<db, op, tries, snap, res, crashes>>

\* The statements of the body.
Body(c) ==
    /\ pc[c] = "body" /\ HasConn(c)
    /\ Answer(op[c], db).st = "ok"
    /\ pc' = [pc EXCEPT ![c] = "commit"]
    /\ snap' = [snap EXCEPT ![c] = Footprint(op[c], db)]
    /\ res' = IF op[c].kind \in Reads THEN [res EXCEPT ![c] = Answer(op[c], db)] ELSE res
    /\ UNCHANGED <<db, op, tries, crashes>>

\* The body refuses the operation.
BodyRefuses(c) ==
    /\ pc[c] = "body" /\ HasConn(c)
    /\ Answer(op[c], db).st # "ok"
    /\ Return(c, Answer(op[c], db))
    /\ db' = db

\* Counts an attempt only when it gives up.
BodyNotSerializable_bug(c) ==
    /\ pc[c] = "body" /\ HasConn(c)
    /\ pc' = [pc EXCEPT ![c] = "begin"]
    /\ UNCHANGED <<db, op, tries, snap, res, crashes>>

\* One attempt too many.
RetryOnceMore_bug(c) ==
    /\ pc[c] = "body" /\ HasConn(c)
    /\ IF tries[c] + 1 <= NumRetries
       THEN /\ pc' = [pc EXCEPT ![c] = "begin"]
            /\ tries' = [tries EXCEPT ![c] = @ + 1]
            /\ UNCHANGED <<op, snap, res, crashes>>
       ELSE Return(c, Failed)
    /\ db' = db

\* A concurrent transaction is or was in the way: roll back and try again, at
\* most numRetries times.
BodyNotSerializable(c) ==
    /\ pc[c] = "body" /\ HasConn(c)
    /\ IF tries[c] + 1 < NumRetries
       THEN /\ pc' = [pc EXCEPT ![c] = "begin"]
            /\ tries' = [tries EXCEPT ![c] = @ + 1]
            /\ UNCHANGED <<op, snap, res, crashes>>
       ELSE Return(c, Failed)
    /\ db' = db

\* Any other error, SQLITE_BUSY included, or the deadline of the context: a
\* caller that waits for a connection has only the deadline to wake it.
TxError(c) ==
    /\ pc[c] \in {"begin", "body"}
    /\ HasConn(c) \/ HasDeadline(op[c])
    /\ Return(c, Failed)
    /\ db' = db

\* Isolation weaker than serializable.
Commit_bug(c) ==
    /\ pc[c] = "commit"
    /\ db' = IF op[c].kind \in Reads THEN db ELSE Effect(op[c], db)
    /\ Return(c, IF op[c].kind \in Reads THEN res[c] ELSE Answer(op[c], db))

\* The commit succeeds.
Commit(c) ==
    /\ pc[c] = "commit"
    /\ op[c].kind \in Reads \/ snap[c] = Footprint(op[c], db)
    /\ db' = IF op[c].kind \in Reads THEN db ELSE Effect(op[c], db)
    /\ Return(c, IF op[c].kind \in Reads THEN res[c] ELSE Answer(op[c], db))

\* The answer to the commit is lost after the database has committed.
CommitLost(c) ==
    /\ pc[c] = "commit"
    /\ op[c].kind \notin Reads /\ snap[c] = Footprint(op[c], db)
    /\ db' = Effect(op[c], db)
    /\ Return(c, Failed)

\* Tries again, although the first commit may have happened.
CommitFails_bug(c) ==
    /\ pc[c] = "commit"
    /\ pc' = [pc EXCEPT ![c] = "begin"]
    /\ db' \in {db, Effect(op[c], db)}
    /\ UNCHANGED <<op, tries, snap, res, crashes>>

\* The commit fails, a serialization failure included: no second attempt.
CommitFails(c) ==
    /\ pc[c] = "commit"
    /\ Return(c, Failed)
    /\ db' = db

DBCrash ==
    /\ crashes < MaxCrashes
    /\ crashes' = crashes + 1
    /\ pc' = [c \in Callers |-> "idle"]
    /\ op' = [c \in Callers |-> NoOp]
    /\ tries' = [c \in Callers |-> 0]
    /\ snap' = [c \in Callers |-> NoRows]
    /\ res' = [c \in Callers |-> Ok]
    /\ db' = db

ExecTx(c) ==
    \/ Begin(c)
    \/ Body(c)
    \/ BodyRefuses(c)
    \/ BodyNotSerializable(c)
    \/ TxError(c)
    \/ Commit(c)
    \/ CommitLost(c)
    \/ CommitFails(c)

(***************************************************************************)
(* Properties.                                                             *)
(***************************************************************************)
\* Type correctness; no operation is tried more than numRetries times.
DBTypeOK ==
    /\ db.secret \in [Hashes -> Values \union {None}] /\ db.onion \subseteq Values
    /\ pc \in [Callers -> {"idle", "begin", "body", "commit"}]
    /\ tries \in [Callers -> 0..(NumRetries - 1)]

\* However the transactions interleave, there is one onion key at most
\* (StorePrivateKey reads before it inserts; the table alone would take two).
SingleOnionKey == \A k, l \in db.onion : k = l

\* A caller between the statement that read its answer and the commit has
\* "read"; any other caller in ExecTx has yet to take effect.
Progress(c) ==
    IF pc[c] = "idle" THEN "idle"
    ELSE IF pc[c] = "commit" /\ op[c].kind \in Reads THEN "read" ELSE "called"

Atomic ==
    INSTANCE AtomicStore WITH mem <- db, st <- [c \in Callers |-> Progress(c)], ans <- res

\* Transactions, retries, errors and crashes add up to operations that take
\* effect at once and at most once, and a success is never a lie (ExecTx).
ImplementsAtomicStore == Atomic!Spec

\* Every operation returns: one that waits for a connection while it holds one
\* at its deadline, and one without a deadline too (ExecTx, PrivateKey).
CallsReturn == \A c \in Callers : pc[c] # "idle" ~> pc[c] = "idle"
=============================================================================
