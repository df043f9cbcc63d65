----------------------------- MODULE L402Client -----------------------------
(***************************************************************************)
(* The gRPC client interceptor that pays for L402 tokens                   *)
(* (l402/client_interceptor.go) and the two token files it keeps them in   *)
(* (l402/store.go, l402/token.go).  Concurrent calls contend for the       *)
(* interceptor's mutex; the process may crash between any two file or lnd  *)
(* operations; lnd goes on with a payment whatever happens to the client.  *)
(* A token and the content of a file are a record: its kind and its        *)
(* payment hash.  A file that was truncated and not yet written again is   *)
(* "torn": deserializeToken rejects every proper prefix of a token.        *)
(*                                                                         *)
(* Operators named *_bug are faulty variants of the definition after them; *)
(* they are no part of the specification.                                  *)
(***************************************************************************)
EXTENDS Naturals

CONSTANTS Calls,       \* the calls intercepted at the same time
          Hashes,      \* the payment hashes the server may ask to be paid
          None,        \* no hash, and no holder of the mutex
          MaxCrashes   \* bound on the number of crashes of the client

ASSUME ClientAssumption ==
    None \notin Hashes /\ None \notin Calls /\ MaxCrashes \in Nat

VARIABLES file,     \* the content of the token files, by name
          pay,      \* the state of every payment at lnd
          boot,     \* "down", "renaming" (inside NewFileStore) or "up"
          crashes,  \* the crashes so far
          lock,     \* the holder of ClientInterceptor.lock
          pc,       \* where each call is
          tok,      \* iCtx.token of each call
          inv       \* the invoice of the challenge each call got, if usable

disk == <<file, pay>>
locals == <<pc, tok, inv>>
vars == <<file, pay, boot, crashes, lock, pc, tok, inv>>

Token(kind, h) == [kind |-> kind, hash |-> h]
NoToken == Token("absent", None)
Tokens == [kind : {"absent", "torn", "pending", "paid"}, hash : Hashes \union {None}]
PayStates == {"none", "inflight", "succeeded", "failed"}
Names == {"paid", "pending", "oldPaid", "oldPending"}

(***************************************************************************)
(* The store.                                                              *)
(***************************************************************************)
CurrentToken ==
    IF file["paid"].kind # "absent" THEN file["paid"] ELSE file["pending"]

\* Writes over a pending token in place.
StoreTarget_bug(t) ==
    IF CurrentToken.kind \in {"absent", "pending"} THEN "pending" ELSE "refused"

\* The file StoreToken(t) writes, or "refused".
StoreTarget(t) ==
    IF \/ CurrentToken.kind = "absent"
       \/ /\ CurrentToken.kind = "pending" /\ t.kind = "paid"
          /\ CurrentToken.hash = t.hash
    THEN IF t.kind = "pending" THEN "pending" ELSE "paid"
    ELSE "refused"

\* NewFileStore moves the files of an older version to their new names.
Rename(old, new) ==
    file' = IF file[new].kind = "absent"
            THEN [file EXCEPT ![new] = file[old], ![old] = NoToken]
            ELSE file

(***************************************************************************)
(* The interceptor.                                                        *)
(***************************************************************************)
Init ==
    /\ file \in [Names -> {NoToken} \union {Token(k, h) : k \in {"pending", "paid"}, h \in Hashes}]
    /\ file["paid"] = NoToken /\ file["pending"] = NoToken
    /\ file["oldPaid"].kind # "pending" /\ file["oldPending"].kind # "paid"
    /\ file["oldPaid"].kind = "paid" => file["oldPending"].hash \in {None, file["oldPaid"].hash}
    /\ pay \in [Hashes -> PayStates]
    /\ \A h \in Hashes : pay[h] # "none" => h \in {file["oldPaid"].hash, file["oldPending"].hash}
    /\ file["oldPaid"].kind = "paid" => pay[file["oldPaid"].hash] = "succeeded"
    /\ boot = "down" /\ crashes = 0 /\ lock = None
    /\ pc = [c \in Calls |-> "idle"]
    /\ tok = [c \in Calls |-> NoToken]
    /\ inv = [c \in Calls |-> None]

\* The call returns; the deferred unlock runs.
Return(c) ==
    /\ pc' = [pc EXCEPT ![c] = "idle"]
    /\ tok' = [tok EXCEPT ![c] = NoToken]
    /\ inv' = [inv EXCEPT ![c] = None]
    /\ lock' = None

Goto(c, l) == pc' = [pc EXCEPT ![c] = l]

StartRename ==
    /\ boot = "down"
    /\ Rename("oldPaid", "paid")
    /\ boot' = "renaming"
    /\ UNCHANGED <<pay, crashes, lock, locals>>

Started ==
    /\ boot = "renaming"
    /\ Rename("oldPending", "pending")
    /\ boot' = "up"
    /\ UNCHANGED <<pay, crashes, lock, locals>>

\* Enters without the mutex.
Enter_bug(c) ==
    /\ boot = "up" /\ pc[c] = "idle" /\ CurrentToken.kind # "torn"
    /\ lock' = c
    /\ tok' = [tok EXCEPT ![c] = CurrentToken]
    /\ Goto(c, "send")
    /\ UNCHANGED <<disk, boot, crashes, inv>>

\* Lock and newInterceptContext: a paid token is attached to the request.
Enter(c) ==
    /\ boot = "up" /\ lock = None /\ pc[c] = "idle"
    /\ CurrentToken.kind # "torn"
    /\ lock' = c
    /\ tok' = [tok EXCEPT ![c] = CurrentToken]
    /\ Goto(c, "send")
    /\ UNCHANGED <<disk, boot, crashes, inv>>

\* The current token cannot be read: every call fails at once.
StoreUnreadable(c) ==
    /\ boot = "up" /\ lock = None /\ pc[c] = "idle"
    /\ CurrentToken.kind = "torn"
    /\ UNCHANGED vars

\* Any outcome of the first attempt but "payment required".
SendReturns(c) ==
    /\ pc[c] = "send"
    /\ Return(c)
    /\ UNCHANGED <<disk, boot, crashes>>

\* An invoice nobody has been asked to pay yet, or None for a challenge that
\* is missing, malformed or dearer than maxCost.
Challenges ==
    {None} \union {h \in Hashes : pay[h] = "none" /\ \A n \in Names : file[n].hash # h}

\* Takes a pending token for a usable one.
Decision_bug(t) == IF t.kind = "absent" THEN "reserve" ELSE "resend"

\* handlePayment goes by the token that newInterceptContext has read.
Decision(t) ==
    IF t.kind = "pending" THEN "track"
    ELSE IF t.kind = "absent" THEN "reserve" ELSE "resend"

\* The server answers "payment required".
Challenged(c) ==
    /\ pc[c] = "send"
    /\ \E h \in Challenges : inv' = [inv EXCEPT ![c] = h]
    /\ Goto(c, Decision(tok[c]))
    /\ UNCHANGED <<disk, boot, crashes, lock, tok>>

\* StoreToken(pending) in payL402Token, StoreToken(paid) after the payment:
\* os.WriteFile truncates the file first.
ToStore(c) == Token(IF pc[c] = "reserve" THEN "pending" ELSE "paid",
                    IF pc[c] = "reserve" THEN inv[c] ELSE tok[c].hash)

OpenFile(c) ==
    /\ pc[c] \in {"reserve", "settle"}
    /\ ToStore(c).hash # None
    /\ StoreTarget(ToStore(c)) # "refused"
    /\ file' = [file EXCEPT ![StoreTarget(ToStore(c))] = Token("torn", None)]
    /\ tok' = [tok EXCEPT ![c] = ToStore(c)]
    /\ Goto(c, "write")
    /\ UNCHANGED <<pay, boot, crashes, lock, inv>>

\* No usable challenge, the store refuses the token, or the file cannot be
\* opened.
StoreFails(c) ==
    /\ pc[c] \in {"reserve", "settle"}
    /\ Return(c)
    /\ UNCHANGED <<disk, boot, crashes>>

WriteDone(c) ==
    /\ pc[c] = "write"
    /\ file' = [file EXCEPT ![tok[c].kind] = tok[c]]
    /\ Goto(c, IF tok[c].kind = "pending" THEN "pay" ELSE "remove")
    /\ UNCHANGED <<pay, boot, crashes, lock, tok, inv>>

\* A write that fails leaves the file truncated.
WriteFails(c) ==
    /\ pc[c] = "write"
    /\ Return(c)
    /\ UNCHANGED <<disk, boot, crashes>>

\* Removing the pending token is best effort.
RemovePending(c) ==
    /\ pc[c] = "remove"
    /\ \/ file' = [file EXCEPT !["pending"] = NoToken]
       \/ file' = file
    /\ Goto(c, "resend")
    /\ UNCHANGED <<pay, boot, crashes, lock, tok, inv>>

\* lnd may never get to see the request.
PayInvoice(c) ==
    /\ pc[c] = "pay"
    /\ \E r \in {"none", "inflight"} : pay' = [pay EXCEPT ![inv[c]] = r]
    /\ Goto(c, "paying")
    /\ UNCHANGED <<file, boot, crashes, lock, tok, inv>>

PaySucceeded(c) ==
    /\ pc[c] = "paying" /\ pay[inv[c]] = "succeeded"
    /\ tok' = [tok EXCEPT ![c] = Token("paid", inv[c])]
    /\ Goto(c, "settle")
    /\ UNCHANGED <<disk, boot, crashes, lock, inv>>

\* An error from lnd, the payment timeout or a cancelled context.
PayAborted(c) ==
    /\ pc[c] = "paying"
    /\ Return(c)
    /\ UNCHANGED <<disk, boot, crashes>>

TrackSucceeded(c) ==
    /\ pc[c] = "track" /\ pay[tok[c].hash] = "succeeded"
    /\ tok' = [tok EXCEPT ![c] = Token("paid", tok[c].hash)]
    /\ Goto(c, "settle")
    /\ UNCHANGED <<disk, boot, crashes, lock, inv>>

\* Gives up on a payment that may still be in flight.
TrackFailed_bug(c) ==
    /\ pc[c] = "track" /\ pay[tok[c].hash] \in {"failed", "inflight"}
    /\ tok' = [tok EXCEPT ![c] = NoToken]
    /\ Goto(c, "drop")
    /\ UNCHANGED <<disk, boot, crashes, lock, inv>>

\* errPaymentFailedTerminally.
TrackFailed(c) ==
    /\ pc[c] = "track" /\ pay[tok[c].hash] = "failed"
    /\ tok' = [tok EXCEPT ![c] = NoToken]
    /\ Goto(c, "drop")
    /\ UNCHANGED <<disk, boot, crashes, lock, inv>>

\* lnd knows no such payment, an error or the timeout.
TrackAborted(c) ==
    /\ pc[c] = "track"
    /\ Return(c)
    /\ UNCHANGED <<disk, boot, crashes>>

\* Forgets the failed token in memory only.
DropPending_bug(c) ==
    /\ pc[c] = "drop"
    /\ file["pending"].kind # "absent"
    /\ Goto(c, "reserve")
    /\ UNCHANGED <<disk, boot, crashes, lock, tok, inv>>

\* RemovePendingToken, then payL402Token with the challenge of this call.
DropPending(c) ==
    /\ pc[c] = "drop"
    /\ file["pending"].kind # "absent"
    /\ file' = [file EXCEPT !["pending"] = NoToken]
    /\ Goto(c, "reserve")
    /\ UNCHANGED <<pay, boot, crashes, lock, tok, inv>>

\* There is no pending token, or it cannot be removed.
DropFails(c) ==
    /\ pc[c] = "drop"
    /\ Return(c)
    /\ UNCHANGED <<disk, boot, crashes>>

\* The second attempt, with the token as credential; its outcome is the call's.
Resend(c) ==
    /\ pc[c] = "resend"
    /\ Return(c)
    /\ UNCHANGED <<disk, boot, crashes>>

LndResolves(h) ==
    /\ pay[h] = "inflight"
    /\ \E r \in {"succeeded", "failed"} : pay' = [pay EXCEPT ![h] = r]
    /\ UNCHANGED <<file, boot, crashes, lock, locals>>

Crash ==
    /\ boot # "down" /\ crashes < MaxCrashes
    /\ crashes' = crashes + 1
    /\ boot' = "down" /\ lock' = None
    /\ pc' = [c \in Calls |-> "idle"]
    /\ tok' = [c \in Calls |-> NoToken]
    /\ inv' = [c \in Calls |-> None]
    /\ UNCHANGED disk

Next ==
    \/ StartRename
    \/ Started
    \/ \E c \in Calls : Enter(c)
    \/ \E c \in Calls : StoreUnreadable(c)
    \/ \E c \in Calls : SendReturns(c)
    \/ \E c \in Calls : Challenged(c)
    \/ \E c \in Calls : OpenFile(c)
    \/ \E c \in Calls : StoreFails(c)
    \/ \E c \in Calls : WriteDone(c)
    \/ \E c \in Calls : WriteFails(c)
    \/ \E c \in Calls : RemovePending(c)
    \/ \E c \in Calls : PayInvoice(c)
    \/ \E c \in Calls : PaySucceeded(c)
    \/ \E c \in Calls : PayAborted(c)
    \/ \E c \in Calls : TrackSucceeded(c)
    \/ \E c \in Calls : TrackFailed(c)
    \/ \E c \in Calls : TrackAborted(c)
    \/ \E c \in Calls : DropPending(c)
    \/ \E c \in Calls : DropFails(c)
    \/ \E c \in Calls : Resend(c)
    \/ \E h \in Hashes : LndResolves(h)
    \/ Crash

Spec == Init /\ [][Next]_vars

\* The goroutine that holds the mutex goes on, the client is started again and
\* used again, and lnd resolves what it has in flight.  Strong fairness is the
\* assumption that a server that wants payment, lnd and the disk do not fail
\* every single time they are asked.
Fairness ==
    /\ WF_vars(StartRename) /\ WF_vars(Started)
    /\ WF_vars(\E c \in Calls : Enter(c))
    /\ WF_vars(\E c \in Calls : \/ SendReturns(c) \/ Challenged(c) \/ OpenFile(c)
                                \/ StoreFails(c) \/ WriteDone(c) \/ WriteFails(c)
                                \/ RemovePending(c) \/ PayInvoice(c) \/ PayAborted(c)
                                \/ TrackAborted(c) \/ DropFails(c) \/ Resend(c))
    /\ \A h \in Hashes : WF_vars(LndResolves(h))
    /\ SF_vars(\E c \in Calls : Challenged(c))
    /\ SF_vars(\E c \in Calls : TrackSucceeded(c) \/ TrackFailed(c))
    /\ SF_vars(\E c \in Calls : OpenFile(c))
    /\ SF_vars(\E c \in Calls : DropPending(c))

FairSpec == Spec /\ Fairness

(***************************************************************************)
(* Properties.                                                             *)
(***************************************************************************)
\* Type correctness: the paid file never holds a pending token nor the
\* pending file a paid one.
TypeOK ==
    /\ file \in [Names -> Tokens]
    /\ file["paid"].kind # "pending" /\ file["pending"].kind # "paid"
    /\ pay \in [Hashes -> PayStates]
    /\ boot \in {"down", "renaming", "up"}
    /\ crashes \in 0..MaxCrashes
    /\ lock \in Calls \union {None}
    /\ pc \in [Calls -> {"idle", "send", "track", "drop", "reserve", "write",
                         "pay", "paying", "settle", "remove", "resend"}]
    /\ tok \in [Calls -> Tokens]
    /\ inv \in [Calls -> Hashes \union {None}]

\* Whatever calls run at the same time and wherever the client dies, there is
\* at most one invoice it has paid or is paying (handlePayment resumes a
\* pending payment and StoreToken refuses a second token).
NeverPaysTwice ==
    \A g, h \in Hashes :
        pay[g] \in {"inflight", "succeeded"} /\ pay[h] \in {"inflight", "succeeded"}
            => g = h

\* What has been paid for is not forgotten: some token file holds the hash of
\* every payment that may have succeeded, a crash in the middle of StoreToken
\* included (the order of the write and the removal in StoreToken, and of
\* StoreToken and PayInvoice in payL402Token).
PaidIsRemembered ==
    \A h \in Hashes :
        pay[h] \in {"inflight", "succeeded"} => \E n \in Names : file[n].hash = h

\* A credential that goes to the server belongs to a payment that succeeded
\* (newInterceptContext and handlePayment never attach a pending token).
SentIsPaid ==
    \A c \in Calls :
        pc[c] = "resend" \/ (pc[c] = "send" /\ tok[c].kind = "paid")
            => tok[c].hash # None /\ pay[tok[c].hash] = "succeeded"

\* The token a FileStore stands for: CurrentToken, under the old names until
\* NewFileStore has moved them; a torn paid file still has its pending token.
Stored(f, new, old) == IF f[new].kind # "absent" THEN f[new] ELSE f[old]

CellIn(f) ==
    LET paid == Stored(f, "paid", "oldPaid")
        pending == Stored(f, "pending", "oldPending")
    IN IF paid.kind = "absent" THEN pending
       ELSE IF paid.kind = "torn" THEN Token("torn", pending.hash)
       ELSE paid

Cell == CellIn(file)

Abstract == INSTANCE TokenCell WITH cell <- Cell, pay <- pay

\* The two files, the mutex and the payment logic implement one cell with one
\* token in it, through crashes and failed writes (FileStore: "There is always
\* just one current token").
ImplementsCell == Abstract!Spec

\* A pending token whose payment has reached a final state is settled or
\* dropped, unless a write to a token file was cut off (trackPayment).
PendingIsResolved ==
    \A h \in Hashes :
        (Cell = Token("pending", h) /\ pay[h] \in {"succeeded", "failed"})
            ~> (Cell # Token("pending", h))
=============================================================================
