----------------------------- MODULE TokenCell -----------------------------
(***************************************************************************)
(* What the token store and the payment logic of an L402 client promise    *)
(* together (l402/store.go, l402/client_interceptor.go): one cell that     *)
(* holds at most one token, and payments that are only ever made for the   *)
(* token in the cell.  A cell being written is "torn"; it stays torn when  *)
(* the writer dies.  L402Client shows that the two token files of a        *)
(* FileStore, with crashes between any two file operations, implement it.  *)
(***************************************************************************)
CONSTANTS Hashes, None

VARIABLES cell,  \* the token the store would return
          pay    \* the state of every payment at lnd

Token(kind, h) == [kind |-> kind, hash |-> h]
Empty == Token("absent", None)

Init ==
    /\ cell \in {Empty} \union {Token(k, h) : k \in {"pending", "paid"}, h \in Hashes}
    /\ pay \in [Hashes -> {"none", "inflight", "succeeded", "failed"}]
    /\ \A h \in Hashes : pay[h] # "none" => cell.hash = h
    /\ cell.kind = "paid" => pay[cell.hash] = "succeeded"

\* The writer has opened the file: a fresh reservation, or the paid form of
\* the token that is pending now.
Tear ==
    /\ \/ cell = Empty
       \/ cell.kind = "pending" /\ pay[cell.hash] = "succeeded"
    /\ cell' = Token("torn", cell.hash)
    /\ pay' = pay

Reserve(h) ==
    /\ cell = Token("torn", None)
    /\ pay[h] = "none"
    /\ cell' = Token("pending", h)
    /\ pay' = pay

Settle ==
    /\ cell.kind = "torn" /\ cell.hash # None
    /\ cell' = Token("paid", cell.hash)
    /\ pay' = pay

\* A pending token is given up only once its payment can never succeed.
Drop ==
    /\ cell.kind = "pending" /\ pay[cell.hash] = "failed"
    /\ cell' = Empty
    /\ pay' = pay

StartPayment(h) ==
    /\ cell = Token("pending", h)
    /\ pay[h] = "none"
    /\ pay' = [pay EXCEPT ![h] = "inflight"]
    /\ cell' = cell

Resolve(h) ==
    /\ pay[h] = "inflight"
    /\ \E r \in {"succeeded", "failed"} : pay' = [pay EXCEPT ![h] = r]
    /\ cell' = cell

Next ==
    \/ Tear
    \/ Settle
    \/ Drop
    \/ \E h \in Hashes : Reserve(h) \/ StartPayment(h) \/ Resolve(h)

Spec == Init /\ [][Next]_<<cell, pay>>

=============================================================================
