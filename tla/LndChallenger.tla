----------------------------- MODULE LndChallenger -----------------------------
(***************************************************************************)
(* The invoice cache of src/challenger: LndChallenger (lnd.go), and its    *)
(* use by LNCChallenger (lnc.go), with the part of main and Aperture.Stop  *)
(* (src/aperture.go) that starts it, listens to its errors and stops it.   *)
(*                                                                         *)
(* The backing lnd node is external.  Its invoices are a log of events, an *)
(* invoice being added (OPEN), settled or canceled; the add index and the  *)
(* settle index of an invoice are the places of these events in the log.   *)
(* ListInvoices pages through the invoices in the order of their add       *)
(* index, and a subscription delivers the adds and settles beyond the two  *)
(* indices it names and every later event, in order.                       *)
(*                                                                         *)
(* Everything done under invoicesMtx is one step, so the mutex itself is   *)
(* not a variable.  ACCEPTED is treated like OPEN by the code and is not   *)
(* told apart here.  The invoices are those with a well-formed payment     *)
(* hash: Start and readInvoiceStream skip an AMP invoice, which has none.  *)
(*                                                                         *)
(* An operator whose name ends in _bug is its neighbour with a plausible   *)
(* mistake in it, no part of the specification.                            *)
(***************************************************************************)
EXTENDS Naturals, Sequences, FiniteSetsExt

CONSTANTS Backends,    \* of "lnd" and "lnc", those considered
          Hashes,      \* invoices
          Calls,       \* calls of VerifyInvoiceStatus
          Wanted,      \* states the calls ask for
          BatchSize    \* NumMaxInvoices of a ListInvoices call

ASSUME ConstAssumption ==
    /\ Backends \subseteq {"lnd", "lnc"}
    /\ Wanted \subseteq {"OPEN", "SETTLED"}
    /\ BatchSize \in Nat \ {0}

VARIABLES
    invoice,         \* lnd: the state of every invoice
    log,             \* lnd: the events
    expired,         \* invoices whose expiry has passed
    backend,         \* "lnd" or "lnc"
    start,           \* the call of LndChallenger.Start that runs or ran last
    phase,           \* of that call: list, subscribe, done
    offset,          \* its indexOffset
    addIndex,        \* its addIndex
    settleIndex,     \* its settleIndex
    invoiceStates,   \* LndChallenger.invoiceStates
    sub,             \* the subscriptions
    rd,              \* readInvoiceStream: none, top, recv, exited
    canceled,        \* subscriptions whose context is canceled
    connDown,        \* the LNC connection is closed
    quit,            \* LndChallenger.quit is closed
    main,            \* where the main goroutine is
    call,            \* the arguments of a call
    waiter,          \* its waiting goroutine
    timeoutReached,  \* its timeoutReached, set when its timeout goroutine ends
    seen,            \* its invoiceState, "none" when hasInvoice is false
    result           \* its result

lnd == <<invoice, log, expired>>
starting == <<backend, start, phase, offset, addIndex, settleIndex>>
streams == <<sub, rd, canceled, connDown>>
verify == <<call, waiter, timeoutReached, seen, result>>
vars == <<lnd, starting, invoiceStates, streams, quit, main, verify>>

Starts == IF backend = "lnc" THEN 1 .. 2 ELSE {1}
LastStart == IF backend = "lnc" THEN 2 ELSE 1

NoSub == [pos |-> 0, add |-> 0, settle |-> 0, since |-> 0]
NoCall == [hash |-> "none", state |-> "none"]

Init ==
    /\ invoice = [h \in Hashes |-> "none"]
    /\ log = <<>>
    /\ expired = {}
    /\ backend \in Backends
    /\ start = 1 /\ phase = "list"
    /\ offset = 0 /\ addIndex = 0 /\ settleIndex = 0
    /\ invoiceStates = [h \in Hashes |-> "none"]
    /\ sub = [i \in 1 .. 2 |-> NoSub]
    /\ rd = [i \in 1 .. 2 |-> "none"]
    /\ canceled = {}
    /\ connDown = FALSE
    /\ quit = FALSE
    /\ main = "challenger"
    /\ call = [c \in Calls |-> NoCall]
    /\ waiter = [c \in Calls |-> "none"]
    /\ timeoutReached = [c \in Calls |-> FALSE]
    /\ seen = [c \in Calls |-> "none"]
    /\ result = [c \in Calls |-> "none"]

Running == main \notin {"stopped", "failed"}

Active(c) == waiter[c] \notin {"none", "returned"}

-------------------------------------------------------------------------------
(***************************************************************************)
(* lnd and time (external)                                                 *)
(***************************************************************************)
Event(h, st) ==
    /\ invoice' = [invoice EXCEPT ![h] = st]
    /\ log' = Append(log, [hash |-> h, state |-> st])

\* AddInvoice, called by NewChallenge or by another client of the node.
NewChallenge(h) ==
    /\ Running
    /\ invoice[h] = "none"
    /\ Event(h, "OPEN")
    /\ UNCHANGED <<expired, starting, invoiceStates, streams, quit, main,
                   verify>>

Settle(h) ==
    /\ Running
    /\ invoice[h] = "OPEN"
    /\ h \notin expired
    /\ Event(h, "SETTLED")
    /\ UNCHANGED <<expired, starting, invoiceStates, streams, quit, main,
                   verify>>

Cancel(h) ==
    /\ Running
    /\ invoice[h] = "OPEN"
    /\ Event(h, "CANCELED")
    /\ UNCHANGED <<expired, starting, invoiceStates, streams, quit, main,
                   verify>>

Expire(h) ==
    /\ Running
    /\ invoice[h] \in {"OPEN", "SETTLED"}
    /\ expired' = expired \cup {h}
    /\ UNCHANGED <<invoice, log, starting, invoiceStates, streams, quit, main,
                   verify>>

-------------------------------------------------------------------------------
(***************************************************************************)
(* LndChallenger.Start                                                     *)
(***************************************************************************)
invoiceIrrelevant(h, st) ==
    \/ st = "CANCELED"
    \/ h \in expired /\ st = "OPEN"

Positions(st) == {k \in 1 .. Len(log) : log[k].state = st}

\* The invoices of one ListInvoices response, by add index.
Page ==
    LET rest == {k \in Positions("OPEN") : k > offset}
    IN  {k \in rest : Cardinality({j \in rest : j < k}) < BatchSize}

\* addIndex is not kept.
ListPage_bug ==
    /\ main = "challenger"
    /\ phase = "list"
    /\ Page # {}
    /\ LET hashes == {log[k].hash : k \in Page}
       IN  invoiceStates' = [h \in Hashes |->
               IF h \in hashes /\ ~invoiceIrrelevant(h, invoice[h])
               THEN invoice[h]
               ELSE invoiceStates[h]]
    /\ offset' = Max(Page)
    /\ UNCHANGED <<lnd, backend, start, phase, addIndex, settleIndex, streams,
                   quit, main, verify>>

\* One page: the indices first, for every invoice with a hash, then the
\* state of the relevant ones.
ListPage ==
    /\ main = "challenger"
    /\ phase = "list"
    /\ Page # {}
    /\ LET hashes == {log[k].hash : k \in Page}
           settles == {k \in Positions("SETTLED") : log[k].hash \in hashes}
       IN  /\ addIndex' = Max({addIndex} \cup Page)
           /\ settleIndex' = Max({settleIndex} \cup settles)
           /\ invoiceStates' = [h \in Hashes |->
                  IF h \in hashes /\ ~invoiceIrrelevant(h, invoice[h])
                  THEN invoice[h]
                  ELSE invoiceStates[h]]
    /\ offset' = Max(Page)
    /\ UNCHANGED <<lnd, backend, start, phase, streams, quit, main, verify>>

ListDone ==
    /\ main = "challenger"
    /\ phase = "list"
    /\ Page = {}
    /\ phase' = "subscribe"
    /\ UNCHANGED <<lnd, backend, start, offset, addIndex, settleIndex,
                   invoiceStates, streams, quit, main, verify>>

\* SubscribeInvoices, and the goroutine that reads the stream.  Start is called
\* by NewLndChallenger, and by NewLNCChallenger a second time.
Subscribe ==
    /\ main = "challenger"
    /\ phase = "subscribe"
    /\ sub' = [sub EXCEPT ![start] = [pos |-> 0, add |-> addIndex,
                                      settle |-> settleIndex,
                                      since |-> Len(log)]]
    /\ rd' = [rd EXCEPT ![start] = "top"]
    /\ offset' = 0 /\ addIndex' = 0 /\ settleIndex' = 0
    /\ IF start = LastStart
       THEN /\ phase' = "done"
            /\ main' = "starting"
            /\ UNCHANGED start
       ELSE /\ start' = start + 1
            /\ phase' = "list"
            /\ UNCHANGED main
    /\ UNCHANGED <<lnd, backend, invoiceStates, canceled, connDown, quit,
                   verify>>

\* A ListInvoices or SubscribeInvoices call, or a later part of Aperture.Start,
\* fails: the program ends.
StartFails ==
    /\ main \in {"challenger", "starting"}
    /\ main' = "failed"
    /\ UNCHANGED <<lnd, starting, invoiceStates, streams, quit, verify>>

-------------------------------------------------------------------------------
(***************************************************************************)
(* readInvoiceStream                                                       *)
(***************************************************************************)

Broadcast_bug == UNCHANGED waiter

\* sync.Cond.Broadcast: every goroutine in Wait wakes up.
Broadcast ==
    waiter' = [c \in Calls |->
                  IF waiter[c] = "waiting" THEN "woken" ELSE waiter[c]]

\* Event k is one that subscription i delivers.
Delivers(i, k) ==
    \/ k > sub[i].since
    \/ log[k].state = "OPEN" /\ k > sub[i].add
    \/ log[k].state = "SETTLED" /\ k > sub[i].settle

Undelivered(i) ==
    {k \in 1 .. Len(log) : k > sub[i].pos /\ Delivers(i, k)}

\* Event k is the next one that subscription i delivers.
IsNext(i, k) == \A j \in Undelivered(i) : k <= j

LoopTop(i) ==
    /\ Running
    /\ rd[i] = "top"
    /\ rd' = [rd EXCEPT ![i] = IF quit THEN "exited" ELSE "recv"]
    /\ UNCHANGED <<lnd, starting, invoiceStates, sub, canceled, connDown, quit,
                   main, verify>>

\* A state that is in the map is not overwritten.
RecvUpdate_bug(i) ==
    /\ Running
    /\ rd[i] = "recv"
    /\ ~connDown
    /\ \E k \in Undelivered(i) :
           LET h == log[k].hash
           IN  /\ IsNext(i, k)
               /\ sub' = [sub EXCEPT ![i].pos = k]
               /\ invoiceStates' = [invoiceStates EXCEPT ![h] =
                      IF @ = "none" /\ ~invoiceIrrelevant(h, log[k].state)
                      THEN log[k].state
                      ELSE @]
    /\ Broadcast
    /\ rd' = [rd EXCEPT ![i] = "top"]
    /\ UNCHANGED <<lnd, starting, canceled, connDown, quit, main, call,
                   timeoutReached, seen, result>>

\* Recv returns an update.  The state of an irrelevant invoice is deleted.
RecvUpdate(i) ==
    /\ Running
    /\ rd[i] = "recv"
    /\ ~connDown
    /\ \E k \in Undelivered(i) :
           LET h == log[k].hash
           IN  /\ IsNext(i, k)
               /\ sub' = [sub EXCEPT ![i].pos = k]
               /\ invoiceStates' = [invoiceStates EXCEPT ![h] =
                      IF invoiceIrrelevant(h, log[k].state)
                      THEN "none"
                      ELSE log[k].state]
    /\ Broadcast
    /\ rd' = [rd EXCEPT ![i] = "top"]
    /\ UNCHANGED <<lnd, starting, canceled, connDown, quit, main, call,
                   timeoutReached, seen, result>>

RecvCanceled(i) ==
    /\ Running
    /\ rd[i] = "recv"
    /\ i \in canceled
    /\ rd' = [rd EXCEPT ![i] = "exited"]
    /\ UNCHANGED <<lnd, starting, invoiceStates, sub, canceled, connDown, quit,
                   main, verify>>

\* Recv fails.  The error reaches the main goroutine only if that waits in
\* its select: errChan is unbuffered and the send has a default case.
RecvError(i) ==
    /\ Running
    /\ rd[i] = "recv"
    /\ rd' = [rd EXCEPT ![i] = "exited"]
    /\ main' = IF main = "select" THEN "stopping" ELSE main
    /\ UNCHANGED <<lnd, starting, invoiceStates, sub, canceled, connDown, quit,
                   verify>>

-------------------------------------------------------------------------------
(***************************************************************************)
(* The main goroutine: the rest of Aperture.Start, the select of run, and  *)
(* the Stop of the challenger.                                             *)
(***************************************************************************)
StartDone ==
    /\ main = "starting"
    /\ main' = "select"
    /\ UNCHANGED <<lnd, starting, invoiceStates, streams, quit, verify>>

\* A signal, or an error of an HTTP server.
Interrupt ==
    /\ main = "select"
    /\ main' = "stopping"
    /\ UNCHANGED <<lnd, starting, invoiceStates, streams, quit, verify>>

\* LNCChallenger.Stop closes the connection, then stops the LndChallenger.
StopConn ==
    /\ main = "stopping"
    /\ backend = "lnc"
    /\ ~connDown
    /\ connDown' = TRUE
    /\ UNCHANGED <<lnd, starting, invoiceStates, sub, rd, canceled, quit, main,
                   verify>>

\* The subscription is not canceled.
StopQuit_bug ==
    /\ main = "stopping"
    /\ backend = "lnc" => connDown
    /\ quit' = TRUE
    /\ main' = "waiting"
    /\ UNCHANGED <<lnd, starting, invoiceStates, streams, verify>>

\* invoicesCancel, which belongs to the last Start, and close(quit).  The
\* reader may leave between the two; it does the same after them.
StopQuit ==
    /\ main = "stopping"
    /\ backend = "lnc" => connDown
    /\ canceled' = canceled \cup {LastStart}
    /\ quit' = TRUE
    /\ main' = "waiting"
    /\ UNCHANGED <<lnd, starting, invoiceStates, sub, rd, connDown, verify>>

\* wg.Wait returns.
StopReturns ==
    /\ main = "waiting"
    /\ \A i \in Starts : rd[i] = "exited"
    /\ \A c \in Calls : ~Active(c)
    /\ main' = "stopped"
    /\ UNCHANGED <<lnd, starting, invoiceStates, streams, quit, verify>>

-------------------------------------------------------------------------------
(***************************************************************************)
(* VerifyInvoiceStatus                                                     *)
(***************************************************************************)

\* The proxy serves requests from the end of Start until after Stop.
VerifyInvoiceStatus(c, h, st) ==
    /\ Running
    /\ main # "challenger"
    /\ waiter[c] = "none"
    /\ call' = [call EXCEPT ![c] = [hash |-> h, state |-> st]]
    /\ waiter' = [waiter EXCEPT ![c] = "start"]
    /\ UNCHANGED <<lnd, starting, invoiceStates, streams, quit, main,
                   timeoutReached, seen, result>>

\* The waiting goroutine evaluates the condition of its loop with the mutex
\* held, and either waits, which releases the mutex, or closes doneChan.
CheckCondition(c) ==
    /\ Running
    /\ waiter[c] \in {"start", "woken"}
    /\ seen' = [seen EXCEPT ![c] = invoiceStates[call[c].hash]]
    /\ waiter' = [waiter EXCEPT ![c] =
                     IF seen'[c] = call[c].state \/ timeoutReached[c]
                     THEN "done"
                     ELSE "waiting"]
    /\ UNCHANGED <<lnd, starting, invoiceStates, streams, quit, main, call,
                   timeoutReached, result>>

\* timeoutReached is set and nobody is woken up.
TimeoutReached_bug(c) ==
    /\ Running
    /\ Active(c)
    /\ ~timeoutReached[c]
    /\ timeoutReached' = [timeoutReached EXCEPT ![c] = TRUE]
    /\ UNCHANGED <<lnd, starting, invoiceStates, streams, quit, main, call,
                   waiter, seen, result>>

\* The timeout goroutine: doneChan, time.After(timeout) or quit.
TimeoutReached(c) ==
    /\ Running
    /\ Active(c)
    /\ ~timeoutReached[c]
    /\ timeoutReached' = [timeoutReached EXCEPT ![c] = TRUE]
    /\ Broadcast
    /\ UNCHANGED <<lnd, starting, invoiceStates, streams, quit, main, call,
                   seen, result>>

\* Any invoice that is known will do.
Return_bug(c) ==
    /\ Running
    /\ waiter[c] = "done"
    /\ timeoutReached[c]
    /\ waiter' = [waiter EXCEPT ![c] = "returned"]
    /\ result' = [result EXCEPT ![c] =
                     IF seen[c] # "none" THEN "ok" ELSE "error"]
    /\ UNCHANGED <<lnd, starting, invoiceStates, streams, quit, main, call,
                   timeoutReached, seen>>

\* Both goroutines have ended; the result is read off the local variables.
Return(c) ==
    /\ Running
    /\ waiter[c] = "done"
    /\ timeoutReached[c]
    /\ waiter' = [waiter EXCEPT ![c] = "returned"]
    /\ result' = [result EXCEPT ![c] =
                     IF seen[c] = call[c].state THEN "ok" ELSE "error"]
    /\ seen' = [seen EXCEPT ![c] = "none"]
    /\ UNCHANGED <<lnd, starting, invoiceStates, streams, quit, main, call,
                   timeoutReached>>

-------------------------------------------------------------------------------
Next ==
    \/ \E h \in Hashes : NewChallenge(h) \/ Settle(h) \/ Cancel(h) \/ Expire(h)
    \/ ListPage \/ ListDone \/ Subscribe \/ StartFails
    \/ \E i \in 1 .. 2 : \/ LoopTop(i) \/ RecvUpdate(i)
                         \/ RecvCanceled(i) \/ RecvError(i)
    \/ StartDone \/ Interrupt \/ StopConn \/ StopQuit
    \/ StopReturns
    \/ \E c \in Calls : \/ CheckCondition(c) \/ TimeoutReached(c) \/ Return(c)
                        \/ \E h \in Hashes, st \in Wanted :
                               VerifyInvoiceStatus(c, h, st)

(***************************************************************************)
(* Fairness: every goroutine that can run does; time passes, so a timeout  *)
(* is reached; a Recv on a closed connection fails.  Nothing is assumed of *)
(* lnd, of the clients, or of connections that stay up.                    *)
(***************************************************************************)
MainGoroutine ==
    \/ ListPage \/ ListDone \/ Subscribe \/ StartDone
    \/ StopConn \/ StopQuit \/ StopReturns

Reader(i) ==
    \/ LoopTop(i) \/ RecvUpdate(i) \/ RecvCanceled(i)
    \/ connDown /\ RecvError(i)

Waiter(c) == CheckCondition(c) \/ Return(c)

Fairness ==
    /\ WF_vars(MainGoroutine)
    /\ \A i \in 1 .. 2 : WF_vars(Reader(i))
    /\ \A c \in Calls : WF_vars(Waiter(c)) /\ WF_vars(TimeoutReached(c))

Spec == Init /\ [][Next]_vars

FairSpec == Spec /\ Fairness

-------------------------------------------------------------------------------
(***************************************************************************)
(* Properties                                                              *)
(***************************************************************************)

\* The types of the variables.
TypeOK ==
    /\ invoice \in [Hashes -> {"none", "OPEN", "SETTLED", "CANCELED"}]
    /\ log \in Seq([hash : Hashes, state : {"OPEN", "SETTLED", "CANCELED"}])
    /\ expired \subseteq Hashes
    /\ backend \in Backends
    /\ start \in Starts
    /\ phase \in {"list", "subscribe", "done"}
    /\ offset \in Nat /\ addIndex \in Nat /\ settleIndex \in Nat
    /\ invoiceStates \in [Hashes -> {"none", "OPEN", "SETTLED"}]
    /\ sub \in [1 .. 2 -> [pos : Nat, add : Nat, settle : Nat, since : Nat]]
    /\ rd \in [1 .. 2 -> {"none", "top", "recv", "exited"}]
    /\ canceled \subseteq 1 .. 2
    /\ connDown \in BOOLEAN
    /\ quit \in BOOLEAN
    /\ call \in [Calls -> [hash : Hashes, state : Wanted] \cup {NoCall}]
    /\ main \in {"challenger", "starting", "select", "stopping",
                 "waiting", "stopped", "failed"}
    /\ waiter \in [Calls -> {"none", "start", "waiting", "woken", "done",
                             "returned"}]
    /\ timeoutReached \in [Calls -> BOOLEAN]
    /\ seen \in [Calls -> {"none", "OPEN", "SETTLED"}]
    /\ result \in [Calls -> {"none", "ok", "error"}]

\* The authenticator relies on it: a call that reports SETTLED is about an
\* invoice that lnd has settled, whatever page, backlog, stream or timeout
\* the cached state came from.
VerifySound ==
    \A c \in Calls :
        result[c] = "ok" /\ call[c].state = "SETTLED"
            => invoice[call[c].hash] = "SETTLED"

\* No wake-up is lost: a goroutine blocked in invoicesCond.Wait has nothing
\* to do, neither is its condition met nor its time up.
NoLostWakeup ==
    \A c \in Calls :
        waiter[c] = "waiting" =>
            /\ invoiceStates[call[c].hash] # call[c].state
            /\ ~timeoutReached[c]

\* With one subscription, an invoice seen as settled stays so: neither the
\* replayed add event nor its expiry takes a paid token's invoice away.
NeverUnsettled ==
    [][backend = "lnd" =>
           \A h \in Hashes : invoiceStates[h] = "SETTLED"
                                 => invoiceStates'[h] = "SETTLED"]_vars

\* The invoices as the authenticator sees them: a canceled one is never paid.
View ==
    [h \in Hashes |->
        CASE invoice[h] = "none" -> "none"
          [] invoice[h] \in {"OPEN", "CANCELED"} -> "open"
          [] OTHER -> IF invoiceStates[h] = "SETTLED" THEN "seen" ELSE "paid"]

\* The invoice that each call has reported as settled.
Vouched ==
    [c \in Calls |->
        IF result[c] = "ok" /\ call[c].state = "SETTLED" THEN call[c].hash ELSE "none"]

Oracle ==
    INSTANCE InvoiceOracle WITH Invoices <- Hashes, Callers <- Calls, None <- "none",
                                state <- View, vouched <- Vouched

\* With one subscription, pages, replayed and live updates, timeouts and the
\* goroutines of a call amount to what the authenticator relies on: an invoice
\* is seen after it was paid, for good, and reported as settled after it was
\* seen.
ImplementsOracle == Oracle!Spec

\* Invoice h was settled after every subscription was made.
SettledLive(h) ==
    \E k \in 1 .. Len(log) :
        /\ log[k] = [hash |-> h, state |-> "SETTLED"]
        /\ \A i \in Starts : rd[i] # "none" /\ k > sub[i].since

\* With one subscription or two, a settlement that happens while they are up
\* ends up in the cache for good, unless a stream ends.
SettlementArrives ==
    \A h \in Hashes :
        <>[](SettledLive(h) => \/ invoiceStates[h] = "SETTLED"
                              \/ ~Running
                              \/ \E i \in Starts : rd[i] = "exited")

\* Every call returns: nobody waits forever on the condition.
CallsReturn ==
    \A c \in Calls :
        waiter[c] = "start" ~> (waiter[c] = "returned" \/ ~Running)

\* Stop returns, also when LNCChallenger has started the challenger twice and
\* only the second subscription can be canceled.
StopTerminates == main = "stopping" ~> main = "stopped"

(***************************************************************************)
(* "We need to keep track of all invoices to ensure tokens are valid"      *)
(* (lnd.go, lines 90-91): when the stream has nothing more to deliver, the *)
(* cache knows every settled invoice.                                      *)
(***************************************************************************)
AllInvoicesTracked ==
    (backend = "lnd" /\ rd[1] = "recv" /\ Undelivered(1) = {}) =>
        \A h \in Hashes :
            invoice[h] = "SETTLED" => invoiceStates[h] = "SETTLED"
===============================================================================
