------------------------- MODULE LndChallenger_proofs -------------------------
(***************************************************************************)
(* Proofs about LndChallenger: what VerifyInvoiceStatus reports is true,   *)
(* no call sleeps through an update or its timeout, and with one           *)
(* subscription a settled invoice is never forgotten, for any number of    *)
(* invoices and calls, any page size and both backends.                    *)
(***************************************************************************)
EXTENDS LndChallenger, WellFoundedInduction, TLAPS

(***************************************************************************)
(* The inductive invariant, in parts.                                      *)
(***************************************************************************)

\* A call that has begun has arguments, one that has not has left no trace,
\* and none begins while Start writes the cache without a Broadcast.
CallOK ==
    \A c \in Calls :
        /\ waiter[c] # "none" => call[c] \in [hash : Hashes, state : Wanted]
        /\ waiter[c] = "none" => seen[c] = "none" /\ result[c] = "none"
        /\ main = "challenger" => waiter[c] = "none"

\* The invoice of an event exists, and is still settled or canceled if the
\* event says so; it was added once, before anything else happened to it.
LogOK ==
    /\ \A k \in 1 .. Len(log) :
           /\ invoice[log[k].hash] # "none"
           /\ log[k].state # "OPEN" => invoice[log[k].hash] = log[k].state
    /\ \A j, k \in 1 .. Len(log) :
           log[j].hash = log[k].hash /\ log[j].state = "OPEN" =>
               j = k \/ (j < k /\ log[k].state # "OPEN")

\* What the cache has as settled is settled.
CacheSound ==
    \A h \in Hashes : invoiceStates[h] = "SETTLED" => invoice[h] = "SETTLED"

\* What a call has seen as settled is settled.
SeenSound ==
    \A c \in Calls :
        seen[c] = "SETTLED" => invoice[call[c].hash] = "SETTLED"

\* An LndChallenger of its own is started once.
StartOK ==
    backend = "lnd" => /\ start = 1
                       /\ rd[2] = "none"
                       /\ main = "challenger" => rd[1] = "none"

\* Its subscription does not deliver the add event of an invoice that the
\* cache has as settled: either the list showed that invoice, and addIndex
\* is past the event, or the stream is past it.
NoReplay ==
    backend = "lnd" =>
        \A k \in 1 .. Len(log) :
            log[k].state = "OPEN" /\ invoiceStates[log[k].hash] = "SETTLED" =>
                IF rd[1] = "none"
                THEN k <= addIndex
                ELSE \/ k <= sub[1].pos
                     \/ k <= sub[1].add /\ k <= sub[1].since

\* What a call of it has seen as settled is still so in the cache.
SeenCached ==
    backend = "lnd" =>
        \A c \in Calls : seen[c] = "SETTLED" => invoiceStates[call[c].hash] = "SETTLED"

IInv ==
    /\ TypeOK
    /\ CallOK
    /\ LogOK
    /\ CacheSound
    /\ SeenSound
    /\ VerifySound
    /\ NoLostWakeup
    /\ StartOK
    /\ NoReplay
    /\ SeenCached

-------------------------------------------------------------------------------
(***************************************************************************)
(* The operators of the specification.                                     *)
(***************************************************************************)
\* The greatest of finitely many numbers is one of them.
LEMMA MaxIs ==
    ASSUME NEW n \in Nat, NEW S, S \subseteq 0 .. n, S # {}
    PROVE  Max(S) \in S /\ \A y \in S : y <= Max(S)
<1> DEFINE D == {n - x : x \in S}
<1>1. D \subseteq Nat /\ D # {}
  <2>1. \A x \in S : n - x \in Nat
    OBVIOUS
  <2> QED  BY Zenon, <2>1
<1>2. PICK d \in D : \A e \in D : <<e, d>> \notin OpToRel(<, Nat)
  BY Zenon, <1>1, NatLessThanWellFounded, WFMin
<1>3. \A e \in D : ~(e < d)
  BY Zenon, <1>1, <1>2 DEF OpToRel
<1>4. PICK x \in S : d = n - x
  BY Zenon
<1>5. \A y \in S : ~(n - y < n - x)
  BY Zenon, <1>3, <1>4
<1>6. \A y \in S : x >= y /\ y <= x
  BY <1>5
<1>7. Max(S) \in S /\ \A y \in S : Max(S) >= y
  BY Zenon, <1>6 DEF Max
<1>8. \A y \in S : y \in Nat
  OBVIOUS
<1> QED  BY Zenon, <1>7, <1>8

\* An entry of the log is an event.
LEMMA LogEntry ==
    ASSUME TypeOK
    PROVE  /\ Len(log) \in Nat
           /\ \A k \in 1 .. Len(log) :
                  log[k] \in [hash : Hashes, state : {"OPEN", "SETTLED", "CANCELED"}]
<1> DEFINE E == [hash : Hashes, state : {"OPEN", "SETTLED", "CANCELED"}]
<1>1. log \in Seq(E)
  BY Zenon DEF TypeOK
<1> HIDE DEF E
<1>2. Len(log) \in Nat /\ \A k \in 1 .. Len(log) : log[k] \in E
  BY <1>1
<1> QED  BY Zenon, <1>2 DEF E

\* An event of lnd goes to the end of the log.
LEMMA EventEffect ==
    ASSUME TypeOK, NEW h \in Hashes, NEW st \in {"OPEN", "SETTLED", "CANCELED"},
           Event(h, st)
    PROVE  /\ invoice' = [invoice EXCEPT ![h] = st]
           /\ log' \in Seq([hash : Hashes, state : {"OPEN", "SETTLED", "CANCELED"}])
           /\ Len(log') = Len(log) + 1
           /\ log'[Len(log) + 1] = [hash |-> h, state |-> st]
           /\ \A k \in 1 .. Len(log) : log'[k] = log[k]
<1> DEFINE E == [hash : Hashes, state : {"OPEN", "SETTLED", "CANCELED"}]
<1>1. log \in Seq(E) /\ [hash |-> h, state |-> st] \in E
  BY Zenon DEF TypeOK
<1>2. log' = Append(log, [hash |-> h, state |-> st])
  BY Zenon DEF Event
<1> HIDE DEF E
<1>3. /\ log' \in Seq(E) /\ Len(log') = Len(log) + 1
      /\ log'[Len(log) + 1] = [hash |-> h, state |-> st]
      /\ \A k \in 1 .. Len(log) : log'[k] = log[k]
  BY <1>1, <1>2
<1> QED  BY Zenon, <1>3 DEF E, Event

\* The indices that ListPage leaves are numbers, and addIndex is past every
\* invoice of the page.
LEMMA ListPageEffect ==
    ASSUME TypeOK, ListPage
    PROVE  /\ offset' \in Nat /\ addIndex' \in Nat /\ settleIndex' \in Nat
           /\ addIndex <= addIndex'
           /\ \A k \in Page : k <= addIndex'
<1>1. /\ Len(log) \in Nat
      /\ addIndex \in Nat /\ settleIndex \in Nat
      /\ Page \subseteq 1 .. Len(log) /\ Page # {}
      /\ \A st : Positions(st) \subseteq 1 .. Len(log)
  BY Zenon, LogEntry DEF TypeOK, ListPage, Page, Positions
<1> DEFINE hashes == {log[k].hash : k \in Page}
           settles == {k \in Positions("SETTLED") : log[k].hash \in hashes}
           n == addIndex + settleIndex + Len(log)
<1>2. /\ offset' = Max(Page)
      /\ addIndex' = Max({addIndex} \cup Page)
      /\ settleIndex' = Max({settleIndex} \cup settles)
  BY Zenon DEF ListPage
<1>3. settles \subseteq 1 .. Len(log)
  BY Zenon, <1>1
<1> HIDE DEF settles
<1>4. /\ n \in Nat
      /\ Page \subseteq 0 .. n
      /\ ({addIndex} \cup Page) \subseteq 0 .. n
      /\ ({settleIndex} \cup settles) \subseteq 0 .. n
  BY <1>1, <1>3
<1>5. \A x \in 0 .. n : x \in Nat
  BY <1>4
<1> HIDE DEF n
<1>6. offset' \in Nat
  BY Zenon, <1>1, <1>2, <1>4, <1>5, MaxIs
<1>7. addIndex' \in Nat /\ \A y \in {addIndex} \cup Page : y <= addIndex'
  BY Zenon, <1>1, <1>2, <1>4, <1>5, MaxIs
<1>8. settleIndex' \in Nat
  BY Zenon, <1>1, <1>2, <1>4, <1>5, MaxIs
<1> QED  BY Zenon, <1>6, <1>7, <1>8

-------------------------------------------------------------------------------
(***************************************************************************)
(* Every step preserves the types.                                         *)
(***************************************************************************)
\* The types are preserved: canceled invoices do not enter the cache.
LEMMA TypeStep ==
    ASSUME TypeOK, CallOK, [Next]_vars
    PROVE  TypeOK'
<1>0. ASSUME NEW h \in Hashes, NEW st \in {"OPEN", "SETTLED", "CANCELED"},
             Event(h, st)
      PROVE  /\ invoice' \in [Hashes -> {"none", "OPEN", "SETTLED", "CANCELED"}]
             /\ log' \in Seq([hash : Hashes, state : {"OPEN", "SETTLED", "CANCELED"}])
  <2>1. /\ invoice' = [invoice EXCEPT ![h] = st]
        /\ log' \in Seq([hash : Hashes, state : {"OPEN", "SETTLED", "CANCELED"}])
    BY Zenon, <1>0, EventEffect
  <2>2. st \in {"none", "OPEN", "SETTLED", "CANCELED"}
    BY Zenon
  <2> QED  BY Zenon, <2>1, <2>2 DEF TypeOK
<1> USE ConstAssumption DEF TypeOK, Starts
<1>1. ASSUME NEW h \in Hashes, NewChallenge(h)
      PROVE  TypeOK'
  BY Zenon, <1>1, <1>0 DEF NewChallenge, starting, streams, verify
<1>2. ASSUME NEW h \in Hashes, Settle(h)
      PROVE  TypeOK'
  BY Zenon, <1>2, <1>0 DEF Settle, starting, streams, verify
<1>3. ASSUME NEW h \in Hashes, Cancel(h)
      PROVE  TypeOK'
  BY Zenon, <1>3, <1>0 DEF Cancel, starting, streams, verify
<1>4. ASSUME NEW h \in Hashes, Expire(h)
      PROVE  TypeOK'
  BY <1>4 DEF Expire, starting, streams, verify
<1>5. CASE ListPage
  <2>1. invoiceStates' \in [Hashes -> {"none", "OPEN", "SETTLED"}]
    BY <1>5 DEF ListPage, invoiceIrrelevant
  <2> QED
    BY Zenon, <1>5, <2>1, ListPageEffect DEF ListPage, lnd, streams, verify
<1>6. CASE ListDone
  BY Zenon, <1>6 DEF ListDone, lnd, streams, verify
<1>7. CASE Subscribe
  <2>1. start \in 1 .. 2 /\ Len(log) \in Nat
    BY LogEntry
  <2>2. [pos |-> 0, add |-> addIndex, settle |-> settleIndex, since |-> Len(log)]
            \in [pos : Nat, add : Nat, settle : Nat, since : Nat]
    BY Zenon, <2>1
  <2>3. sub' \in [1 .. 2 -> [pos : Nat, add : Nat, settle : Nat, since : Nat]]
    BY Zenon, <1>7, <2>1, <2>2 DEF Subscribe
  <2>4. rd' \in [1 .. 2 -> {"none", "top", "recv", "exited"}]
    BY Zenon, <1>7, <2>1 DEF Subscribe
  <2>5. /\ offset' \in Nat /\ addIndex' \in Nat /\ settleIndex' \in Nat
        /\ backend' = backend /\ start' \in Starts'
        /\ phase' \in {"list", "subscribe", "done"}
        /\ main' \in {"challenger", "starting", "select", "stopping",
                      "waiting", "stopped", "failed"}
    BY <1>7 DEF Subscribe, LastStart
  <2>6. UNCHANGED <<lnd, backend, invoiceStates, canceled, connDown, quit, verify>>
    BY Zenon, <1>7 DEF Subscribe
  <2>7. UNCHANGED <<invoice, log, expired, call, waiter, timeoutReached, seen, result>>
    BY Zenon, <2>6 DEF lnd, verify
  <2>8. /\ invoice' \in [Hashes -> {"none", "OPEN", "SETTLED", "CANCELED"}]
        /\ log' \in Seq([hash : Hashes, state : {"OPEN", "SETTLED", "CANCELED"}])
        /\ expired' \subseteq Hashes /\ backend' \in Backends
        /\ invoiceStates' \in [Hashes -> {"none", "OPEN", "SETTLED"}]
        /\ canceled' \subseteq 1 .. 2
        /\ connDown' \in BOOLEAN /\ quit' \in BOOLEAN
    BY Zenon, <2>6, <2>7
  <2>9. /\ call' \in [Calls -> [hash : Hashes, state : Wanted] \cup {NoCall}]
        /\ waiter' \in [Calls -> {"none", "start", "waiting", "woken", "done",
                                  "returned"}]
        /\ timeoutReached' \in [Calls -> BOOLEAN]
        /\ seen' \in [Calls -> {"none", "OPEN", "SETTLED"}]
        /\ result' \in [Calls -> {"none", "ok", "error"}]
    BY Zenon, <2>7
  <2> HIDE DEF TypeOK, Starts
  <2> QED  BY Zenon, <2>3, <2>4, <2>5, <2>8, <2>9 DEF TypeOK
<1>8. CASE StartFails
  BY Zenon, <1>8 DEF StartFails, lnd, starting, streams, verify
<1>9. ASSUME NEW i \in 1 .. 2, LoopTop(i)
      PROVE  TypeOK'
  BY Zenon, <1>9 DEF LoopTop, lnd, starting, verify
<1>10. ASSUME NEW i \in 1 .. 2, RecvUpdate(i)
       PROVE  TypeOK'
  <2>1. PICK k \in 1 .. Len(log) :
            /\ sub' = [sub EXCEPT ![i].pos = k]
            /\ invoiceStates' = [invoiceStates EXCEPT ![log[k].hash] =
                IF invoiceIrrelevant(log[k].hash, log[k].state)
                THEN "none"
                ELSE log[k].state]
    BY Zenon, <1>10 DEF RecvUpdate, Undelivered
  <2>2. log[k] \in [hash : Hashes, state : {"OPEN", "SETTLED", "CANCELED"}]
    BY Zenon, LogEntry
  <2>3. invoiceStates' \in [Hashes -> {"none", "OPEN", "SETTLED"}]
    <3>1. (IF invoiceIrrelevant(log[k].hash, log[k].state) THEN "none"
           ELSE log[k].state) \in {"none", "OPEN", "SETTLED"}
      BY Zenon, <2>2 DEF invoiceIrrelevant
    <3> QED  BY Zenon, <2>1, <2>2, <3>1
  <2>4. waiter' \in [Calls -> {"none", "start", "waiting", "woken", "done",
                               "returned"}]
    BY Zenon, <1>10 DEF RecvUpdate, Broadcast
  <2>5. k \in Nat
    OBVIOUS
  <2>6. \A s \in [pos : Nat, add : Nat, settle : Nat, since : Nat] :
            [s EXCEPT !.pos = k] \in [pos : Nat, add : Nat, settle : Nat, since : Nat]
    BY Zenon, <2>5
  <2>7. sub' \in [1 .. 2 -> [pos : Nat, add : Nat, settle : Nat, since : Nat]]
    BY Zenon, <2>1, <2>6
  <2> QED  BY Zenon, <1>10, <2>3, <2>4, <2>7 DEF RecvUpdate, lnd, starting
<1>11. ASSUME NEW i \in 1 .. 2, RecvCanceled(i)
       PROVE  TypeOK'
  BY Zenon, <1>11 DEF RecvCanceled, lnd, starting, verify
<1>12. ASSUME NEW i \in 1 .. 2, RecvError(i)
       PROVE  TypeOK'
  <2>1. rd' \in [1 .. 2 -> {"none", "top", "recv", "exited"}]
    BY Zenon, <1>12 DEF RecvError
  <2>2. main' \in {"challenger", "starting", "select", "stopping",
                   "waiting", "stopped", "failed"}
    BY Zenon, <1>12 DEF RecvError
  <2> QED  BY Zenon, <1>12, <2>1, <2>2 DEF RecvError, lnd, starting, verify
<1>13. CASE StartDone
  BY Zenon, <1>13 DEF StartDone, lnd, starting, streams, verify
<1>14. CASE Interrupt
  BY Zenon, <1>14 DEF Interrupt, lnd, starting, streams, verify
<1>15. CASE StopConn
  BY Zenon, <1>15 DEF StopConn, lnd, starting, verify
<1>16. CASE StopQuit
  BY <1>16 DEF StopQuit, lnd, starting, verify, LastStart
<1>17. CASE StopReturns
  BY Zenon, <1>17 DEF StopReturns, lnd, starting, streams, verify
<1>18. ASSUME NEW c \in Calls, CheckCondition(c)
       PROVE  TypeOK'
  BY <1>18 DEF CheckCondition, CallOK, lnd, starting, streams
<1>19. ASSUME NEW c \in Calls, TimeoutReached(c)
       PROVE  TypeOK'
  BY Zenon, <1>19 DEF TimeoutReached, Broadcast, lnd, starting, streams
<1>20. ASSUME NEW c \in Calls, Return(c)
       PROVE  TypeOK'
  BY Zenon, <1>20 DEF Return, lnd, starting, streams
<1>21. ASSUME NEW c \in Calls, NEW h \in Hashes, NEW st \in Wanted,
              VerifyInvoiceStatus(c, h, st)
       PROVE  TypeOK'
  BY <1>21 DEF VerifyInvoiceStatus, lnd, starting, streams
<1>22. CASE UNCHANGED vars
  BY Zenon, <1>22 DEF vars, lnd, starting, streams, verify
<1> HIDE DEF TypeOK, Starts
<1> QED
  BY Zenon, <1>1, <1>2, <1>3, <1>4, <1>5, <1>6, <1>7, <1>8, <1>9, <1>10,
     <1>11, <1>12, <1>13, <1>14, <1>15, <1>16, <1>17, <1>18, <1>19, <1>20,
     <1>21, <1>22 DEF Next

-------------------------------------------------------------------------------
(***************************************************************************)
(* Every step preserves the rest.                                          *)
(***************************************************************************)
\* A step that is about none of the log, the cache, the subscriptions and the
\* calls: time passes, Start goes on or fails, a reader goes around its loop
\* or ends, the program stops.
Quiet ==
    /\ UNCHANGED <<invoice, log, invoiceStates, backend, start, addIndex, sub,
                   call, waiter, timeoutReached, seen, result>>
    /\ \A i \in 1 .. 2 : rd'[i] = "none" <=> rd[i] = "none"
    /\ main' = "challenger" => main = "challenger"

\* An event at lnd.
LndStep(h, st) ==
    /\ Event(h, st)
    /\ st = "OPEN" => invoice[h] = "none"
    /\ st # "OPEN" => invoice[h] = "OPEN"
    /\ UNCHANGED <<starting, invoiceStates, streams, main, verify>>

\* A step of a call.
CallStep(c) ==
    \/ CheckCondition(c) \/ TimeoutReached(c) \/ Return(c)
    \/ \E h \in Hashes, st \in Wanted : VerifyInvoiceStatus(c, h, st)

\* Every step is one of these.
LEMMA Kinds ==
    ASSUME TypeOK, [Next]_vars
    PROVE  \/ Quiet
           \/ \E h \in Hashes, st \in {"OPEN", "SETTLED", "CANCELED"} : LndStep(h, st)
           \/ ListPage \/ Subscribe
           \/ \E i \in 1 .. 2 : RecvUpdate(i)
           \/ \E c \in Calls : CallStep(c)
<1> DEFINE K == \/ Quiet
                \/ \E h \in Hashes, st \in {"OPEN", "SETTLED", "CANCELED"} : LndStep(h, st)
<1>1. ASSUME NEW h \in Hashes, NewChallenge(h) \/ Settle(h) \/ Cancel(h)
      PROVE  K
  <2>1. CASE NewChallenge(h)
    BY Zenon, <2>1 DEF NewChallenge, LndStep
  <2>2. CASE Settle(h)
    BY Zenon, <2>2 DEF Settle, LndStep
  <2>3. CASE Cancel(h)
    BY Zenon, <2>3 DEF Cancel, LndStep
  <2> QED  BY Zenon, <1>1, <2>1, <2>2, <2>3
<1>2. ASSUME NEW h \in Hashes, Expire(h)
      PROVE  Quiet
  BY Zenon, <1>2 DEF Expire, Quiet, starting, streams, verify
<1>3. ASSUME ListDone \/ StartFails \/ StartDone \/ Interrupt \/ StopConn \/ StopQuit
                 \/ StopReturns
      PROVE  Quiet
  BY Zenon, <1>3 DEF ListDone, StartFails, StartDone, Interrupt, StopConn, StopQuit,
     StopReturns, Quiet, lnd, starting, streams, verify
<1>4. ASSUME NEW i \in 1 .. 2, LoopTop(i) \/ RecvCanceled(i) \/ RecvError(i)
      PROVE  Quiet
  <2>1. /\ UNCHANGED <<lnd, starting, invoiceStates, sub, verify>>
        /\ main' = "challenger" => main = "challenger"
    BY Zenon, <1>4 DEF LoopTop, RecvCanceled, RecvError
  <2>2. \A j \in 1 .. 2 : rd'[j] = "none" <=> rd[j] = "none"
    BY <1>4 DEF LoopTop, RecvCanceled, RecvError, TypeOK
  <2> QED  BY Zenon, <2>1, <2>2 DEF Quiet, lnd, starting, verify
<1>5. CASE UNCHANGED vars
  BY Zenon, <1>5 DEF Quiet, vars, lnd, starting, streams, verify
<1> QED
  BY Zenon, <1>1, <1>2, <1>3, <1>4, <1>5 DEF Next, CallStep

\* Calls begin after Start and leave nothing behind before they begin.
LEMMA CallOKStep ==
    ASSUME TypeOK, CallOK, [Next]_vars
    PROVE  CallOK'
<1> USE DEF CallOK
<1>1. CASE Quiet
  BY Zenon, <1>1 DEF Quiet
<1>2. ASSUME NEW h \in Hashes, NEW st \in {"OPEN", "SETTLED", "CANCELED"}, LndStep(h, st)
      PROVE  CallOK'
  BY Zenon, <1>2 DEF LndStep, verify
<1>3. CASE ListPage
  BY Zenon, <1>3 DEF ListPage, verify
<1>4. CASE Subscribe
  BY Zenon, <1>4 DEF Subscribe, verify
<1>5. ASSUME NEW i \in 1 .. 2, RecvUpdate(i)
      PROVE  CallOK'
  BY Zenon, <1>5 DEF RecvUpdate, Broadcast, TypeOK
<1>6. ASSUME NEW c \in Calls, CallStep(c)
      PROVE  CallOK'
  <2>1. CASE CheckCondition(c)
    BY <2>1 DEF CheckCondition, TypeOK
  <2>2. CASE TimeoutReached(c)
    BY Zenon, <2>2 DEF TimeoutReached, Broadcast, TypeOK
  <2>3. CASE Return(c)
    BY <2>3 DEF Return, TypeOK
  <2>4. ASSUME NEW h \in Hashes, NEW st \in Wanted, VerifyInvoiceStatus(c, h, st)
        PROVE  CallOK'
    BY <2>4 DEF VerifyInvoiceStatus, TypeOK
  <2> QED  BY Zenon, <1>6, <2>1, <2>2, <2>3, <2>4 DEF CallStep
<1> HIDE DEF CallOK
<1> QED  BY Zenon, <1>1, <1>2, <1>3, <1>4, <1>5, <1>6, Kinds

\* What lnd does to an invoice it does once: the events of an invoice begin
\* with the only one that adds it.
LEMMA LogStep ==
    ASSUME TypeOK, LogOK, [Next]_vars
    PROVE  LogOK'
<1>1. CASE UNCHANGED <<invoice, log>>
  BY Zenon, <1>1 DEF LogOK
<1>2. ASSUME NEW h \in Hashes, NEW st \in {"OPEN", "SETTLED", "CANCELED"}, LndStep(h, st)
      PROVE  LogOK'
  <2>1. /\ invoice' = [invoice EXCEPT ![h] = st]
        /\ Len(log') = Len(log) + 1
        /\ log'[Len(log) + 1] = [hash |-> h, state |-> st]
        /\ \A k \in 1 .. Len(log) : log'[k] = log[k]
    BY Zenon, <1>2, EventEffect DEF LndStep
  <2>2. /\ Len(log) \in Nat
        /\ \A k \in 1 .. Len(log) : log[k].hash \in Hashes
        /\ invoice \in [Hashes -> {"none", "OPEN", "SETTLED", "CANCELED"}]
    <3>1. invoice \in [Hashes -> {"none", "OPEN", "SETTLED", "CANCELED"}]
      BY Zenon DEF TypeOK
    <3>2. /\ Len(log) \in Nat
          /\ \A k \in 1 .. Len(log) :
                 log[k] \in [hash : Hashes, state : {"OPEN", "SETTLED", "CANCELED"}]
      BY Zenon, LogEntry
    <3> QED  BY Zenon, <3>1, <3>2
  <2>3. /\ st = "OPEN" => invoice[h] = "none"
        /\ st # "OPEN" => invoice[h] = "OPEN"
    BY Zenon, <1>2 DEF LndStep
  <2>4. /\ log'[Len(log) + 1].hash = h
        /\ log'[Len(log) + 1].state = st
        /\ invoice'[h] = st
        /\ \A g \in Hashes : g # h => invoice'[g] = invoice[g]
    BY <2>1, <2>2
  <2>5. \A k \in 1 .. Len(log') : k \in 1 .. Len(log) \/ k = Len(log) + 1
    BY <2>1, <2>2
  <2>6. ASSUME NEW k \in 1 .. Len(log')
        PROVE  /\ invoice'[log'[k].hash] # "none"
               /\ log'[k].state # "OPEN" => invoice'[log'[k].hash] = log'[k].state
    BY <2>1, <2>2, <2>3, <2>4, <2>5 DEF LogOK
  <2>7. ASSUME NEW j \in 1 .. Len(log'), NEW k \in 1 .. Len(log'),
               log'[j].hash = log'[k].hash, log'[j].state = "OPEN"
        PROVE  j = k \/ (j < k /\ log'[k].state # "OPEN")
    <3>1. CASE j = Len(log) + 1 /\ k # j
      <4>1. k \in 1 .. Len(log) /\ log'[k].hash = h /\ st = "OPEN" /\ log'[k] = log[k]
        BY Zenon, <3>1, <2>7, <2>1, <2>4, <2>5
      <4> QED  BY Zenon, <4>1, <2>3 DEF LogOK
    <3>2. CASE k = Len(log) + 1 /\ k # j
      <4>1. j \in 1 .. Len(log) /\ log'[j].hash = h /\ log'[j] = log[j]
        BY Zenon, <3>2, <2>7, <2>1, <2>4, <2>5
      <4>2. invoice[h] # "none"
        BY Zenon, <4>1 DEF LogOK
      <4>3. j < k
        BY <4>1, <3>2, <2>2
      <4> QED  BY Zenon, <4>2, <4>3, <3>2, <2>3, <2>4
    <3>3. CASE j \in 1 .. Len(log) /\ k \in 1 .. Len(log)
      BY Zenon, <3>3, <2>7, <2>1 DEF LogOK
    <3> QED  BY Zenon, <3>1, <3>2, <3>3, <2>5
  <2> QED  BY Zenon, <2>6, <2>7 DEF LogOK
<1>3. ListPage \/ Subscribe => UNCHANGED <<invoice, log>>
  BY Zenon DEF ListPage, Subscribe, lnd
<1>4. ASSUME NEW i \in 1 .. 2, RecvUpdate(i)
      PROVE  UNCHANGED <<invoice, log>>
  BY Zenon, <1>4 DEF RecvUpdate, lnd
<1>5. ASSUME NEW c \in Calls, CallStep(c)
      PROVE  UNCHANGED <<invoice, log>>
  BY Zenon, <1>5 DEF CallStep, CheckCondition, TimeoutReached, Return,
     VerifyInvoiceStatus, lnd
<1>6. Quiet => UNCHANGED <<invoice, log>>
  BY Zenon DEF Quiet
<1> QED  BY Zenon, <1>1, <1>2, <1>3, <1>4, <1>5, <1>6, Kinds

\* A settled invoice stays settled.
LEMMA SettledStays ==
    ASSUME TypeOK, [Next]_vars, NEW h \in Hashes, invoice[h] = "SETTLED"
    PROVE  invoice'[h] = "SETTLED"
<1>1. ASSUME NEW g \in Hashes, NEW st \in {"OPEN", "SETTLED", "CANCELED"}, LndStep(g, st)
      PROVE  invoice'[h] = "SETTLED"
  BY Zenon, <1>1 DEF LndStep, Event, TypeOK
<1>2. ListPage \/ Subscribe \/ Quiet => UNCHANGED invoice
  BY Zenon DEF ListPage, Subscribe, Quiet, lnd
<1>3. ASSUME NEW i \in 1 .. 2, RecvUpdate(i)
      PROVE  UNCHANGED invoice
  BY Zenon, <1>3 DEF RecvUpdate, lnd
<1>4. ASSUME NEW c \in Calls, CallStep(c)
      PROVE  UNCHANGED invoice
  BY Zenon, <1>4 DEF CallStep, CheckCondition, TimeoutReached, Return,
     VerifyInvoiceStatus, lnd
<1> QED  BY Zenon, <1>1, <1>2, <1>3, <1>4, Kinds

\* What an update does to the cache.
LEMMA RecvUpdateEffect ==
    ASSUME TypeOK, NEW i \in 1 .. 2, RecvUpdate(i)
    PROVE  \E k \in 1 .. Len(log) :
               /\ log[k].hash \in Hashes
               /\ log[k].state \in {"OPEN", "SETTLED", "CANCELED"}
               /\ k > sub[i].pos
               /\ Delivers(i, k)
               /\ sub' = [sub EXCEPT ![i].pos = k]
               /\ invoiceStates' \in [Hashes -> {"none", "OPEN", "SETTLED"}]
               /\ \A h \in Hashes : h # log[k].hash => invoiceStates'[h] = invoiceStates[h]
               /\ invoiceStates'[log[k].hash] \in {"none", log[k].state}
               /\ log[k].state = "SETTLED" => invoiceStates'[log[k].hash] = "SETTLED"
<1>1. PICK k \in 1 .. Len(log) :
          /\ k > sub[i].pos
          /\ Delivers(i, k)
          /\ sub' = [sub EXCEPT ![i].pos = k]
          /\ invoiceStates' = [invoiceStates EXCEPT ![log[k].hash] =
                 IF invoiceIrrelevant(log[k].hash, log[k].state)
                 THEN "none"
                 ELSE log[k].state]
  BY Zenon DEF RecvUpdate, Undelivered
<1>2. log[k].hash \in Hashes /\ log[k].state \in {"OPEN", "SETTLED", "CANCELED"}
  BY Zenon, LogEntry
<1>3. /\ invoiceStates \in [Hashes -> {"none", "OPEN", "SETTLED"}]
      /\ log[k].state = "CANCELED" => invoiceIrrelevant(log[k].hash, log[k].state)
      /\ log[k].state = "SETTLED" => ~invoiceIrrelevant(log[k].hash, log[k].state)
  BY Zenon DEF TypeOK, invoiceIrrelevant
<1>4. /\ invoiceStates' \in [Hashes -> {"none", "OPEN", "SETTLED"}]
      /\ \A h \in Hashes : h # log[k].hash => invoiceStates'[h] = invoiceStates[h]
      /\ invoiceStates'[log[k].hash] \in {"none", log[k].state}
      /\ log[k].state = "SETTLED" => invoiceStates'[log[k].hash] = "SETTLED"
  BY Zenon, <1>1, <1>2, <1>3
<1> QED  BY Zenon, <1>1, <1>2, <1>4

\* The cache is written from lnd's answers and from the log only.
LEMMA CacheStep ==
    ASSUME TypeOK, LogOK, CacheSound, [Next]_vars
    PROVE  CacheSound'
<1> SUFFICES ASSUME NEW h \in Hashes, invoiceStates'[h] = "SETTLED"
             PROVE  invoice'[h] = "SETTLED"
  BY Zenon DEF CacheSound
<1>1. invoiceStates[h] = "SETTLED" => invoice'[h] = "SETTLED"
  BY Zenon, SettledStays DEF CacheSound
<1>2. CASE ListPage
  BY Zenon, <1>1, <1>2 DEF ListPage, lnd
<1>3. ASSUME NEW i \in 1 .. 2, RecvUpdate(i)
      PROVE  invoice'[h] = "SETTLED"
  <2>1. PICK k \in 1 .. Len(log) :
            /\ h # log[k].hash => invoiceStates'[h] = invoiceStates[h]
            /\ invoiceStates'[log[k].hash] \in {"none", log[k].state}
    BY Zenon, <1>3, RecvUpdateEffect
  <2>2. CASE h = log[k].hash
    <3>1. log[k].state = "SETTLED"
      BY Zenon, <2>1, <2>2
    <3> QED  BY Zenon, <3>1, <2>2, <1>3 DEF LogOK, RecvUpdate, lnd
  <2> QED  BY Zenon, <2>1, <2>2, <1>1
<1>4. ASSUME NEW g \in Hashes, NEW st \in {"OPEN", "SETTLED", "CANCELED"}, LndStep(g, st)
      PROVE  UNCHANGED invoiceStates
  BY Zenon, <1>4 DEF LndStep
<1>5. Subscribe \/ Quiet => UNCHANGED invoiceStates
  BY Zenon DEF Subscribe, Quiet
<1>6. ASSUME NEW c \in Calls, CallStep(c)
      PROVE  UNCHANGED invoiceStates
  BY Zenon, <1>6 DEF CallStep, CheckCondition, TimeoutReached, Return,
     VerifyInvoiceStatus
<1>7. UNCHANGED invoiceStates => invoice'[h] = "SETTLED"
  BY <1>1
<1> QED  BY Zenon, <1>2, <1>3, <1>4, <1>5, <1>6, <1>7, Kinds

\* A call sees what is in the cache.
LEMMA SeenStep ==
    ASSUME TypeOK, CallOK, CacheSound, SeenSound, [Next]_vars
    PROVE  SeenSound'
<1> SUFFICES ASSUME NEW c \in Calls, seen'[c] = "SETTLED"
             PROVE  invoice'[call'[c].hash] = "SETTLED"
  BY Zenon DEF SeenSound
<1>1. ASSUME call'[c] = call[c], seen'[c] = seen[c]
      PROVE  invoice'[call'[c].hash] = "SETTLED"
  <2>1. invoice[call[c].hash] = "SETTLED"
    BY Zenon, <1>1 DEF SeenSound
  <2>2. call[c] \in [hash : Hashes, state : Wanted]
    BY Zenon, <1>1 DEF CallOK
  <2>3. call[c].hash \in Hashes
    BY Zenon, <2>2
  <2> QED  BY Zenon, <2>1, <2>3, <1>1, SettledStays
<1>2. ASSUME NEW h \in Hashes, NEW st \in {"OPEN", "SETTLED", "CANCELED"}, LndStep(h, st)
      PROVE  UNCHANGED <<call, seen>>
  BY Zenon, <1>2 DEF LndStep, verify
<1>3. ListPage \/ Subscribe \/ Quiet => UNCHANGED <<call, seen>>
  BY Zenon DEF ListPage, Subscribe, Quiet, verify
<1>4. ASSUME NEW i \in 1 .. 2, RecvUpdate(i)
      PROVE  UNCHANGED <<call, seen>>
  BY Zenon, <1>4 DEF RecvUpdate
<1>5. ASSUME NEW d \in Calls, CallStep(d)
      PROVE  \/ call'[c] = call[c] /\ seen'[c] = seen[c]
             \/ invoice'[call'[c].hash] = "SETTLED"
  <2> USE DEF TypeOK, CallOK
  <2>1. CASE CheckCondition(d)
    <3>1. d # c => call'[c] = call[c] /\ seen'[c] = seen[c]
      BY <2>1 DEF CheckCondition
    <3>2. d = c => invoiceStates[call[c].hash] = "SETTLED" /\ call' = call /\ invoice' = invoice
      BY <2>1 DEF CheckCondition, lnd
    <3>3. call[d] \in [hash : Hashes, state : Wanted]
      BY Zenon, <2>1 DEF CheckCondition
    <3> QED  BY <3>1, <3>2, <3>3 DEF CacheSound
  <2>2. CASE TimeoutReached(d)
    BY Zenon, <2>2 DEF TimeoutReached
  <2>3. CASE Return(d)
    BY <2>3 DEF Return
  <2>4. ASSUME NEW h \in Hashes, NEW st \in Wanted, VerifyInvoiceStatus(d, h, st)
        PROVE  call'[c] = call[c] /\ seen'[c] = seen[c]
    BY <2>4 DEF VerifyInvoiceStatus
  <2> HIDE DEF TypeOK, CallOK
  <2> QED  BY Zenon, <1>5, <2>1, <2>2, <2>3, <2>4 DEF CallStep
<1> QED  BY Zenon, <1>1, <1>2, <1>3, <1>4, <1>5, Kinds

\* A result of SETTLED is what the call has seen.
LEMMA VerifyStep ==
    ASSUME TypeOK, CallOK, SeenSound, VerifySound, [Next]_vars
    PROVE  VerifySound'
<1> SUFFICES ASSUME NEW c \in Calls, result'[c] = "ok", call'[c].state = "SETTLED"
             PROVE  invoice'[call'[c].hash] = "SETTLED"
  BY Zenon DEF VerifySound
<1>1. ASSUME call'[c] = call[c], result'[c] = result[c]
      PROVE  invoice'[call'[c].hash] = "SETTLED"
  <2>1. invoice[call[c].hash] = "SETTLED"
    BY Zenon, <1>1 DEF VerifySound
  <2>2. call[c] \in [hash : Hashes, state : Wanted]
    BY Zenon, <1>1 DEF CallOK
  <2>3. call[c].hash \in Hashes
    BY Zenon, <2>2
  <2> QED  BY Zenon, <2>1, <2>3, <1>1, SettledStays
<1>2. ASSUME NEW h \in Hashes, NEW st \in {"OPEN", "SETTLED", "CANCELED"}, LndStep(h, st)
      PROVE  UNCHANGED <<call, result>>
  BY Zenon, <1>2 DEF LndStep, verify
<1>3. ListPage \/ Subscribe \/ Quiet => UNCHANGED <<call, result>>
  BY Zenon DEF ListPage, Subscribe, Quiet, verify
<1>4. ASSUME NEW i \in 1 .. 2, RecvUpdate(i)
      PROVE  UNCHANGED <<call, result>>
  BY Zenon, <1>4 DEF RecvUpdate
<1>5. ASSUME NEW d \in Calls, CallStep(d)
      PROVE  \/ call'[c] = call[c] /\ result'[c] = result[c]
             \/ invoice'[call'[c].hash] = "SETTLED"
  <2> USE DEF TypeOK, CallOK
  <2>1. CASE Return(d)
    <3>1. d # c => call'[c] = call[c] /\ result'[c] = result[c]
      BY <2>1 DEF Return
    <3>2. d = c => seen[c] = "SETTLED" /\ call' = call /\ invoice' = invoice
      BY <2>1 DEF Return, lnd
    <3>3. seen[c] = "SETTLED" => invoice[call[c].hash] = "SETTLED"
      BY Zenon DEF SeenSound
    <3> HIDE DEF TypeOK, CallOK
    <3> QED  BY Zenon, <3>1, <3>2, <3>3
  <2>2. CASE CheckCondition(d) \/ TimeoutReached(d)
    BY Zenon, <2>2 DEF CheckCondition, TimeoutReached
  <2>3. ASSUME NEW h \in Hashes, NEW st \in Wanted, VerifyInvoiceStatus(d, h, st)
        PROVE  call'[c] = call[c] /\ result'[c] = result[c]
    BY <2>3 DEF VerifyInvoiceStatus
  <2> HIDE DEF TypeOK, CallOK
  <2> QED  BY Zenon, <1>5, <2>1, <2>2, <2>3 DEF CallStep
<1> QED  BY Zenon, <1>1, <1>2, <1>3, <1>4, <1>5, Kinds

\* Whoever changes the cache or a timeout flag wakes the waiting calls up.
LEMMA WakeupStep ==
    ASSUME TypeOK, CallOK, NoLostWakeup, [Next]_vars
    PROVE  NoLostWakeup'
<1>1. CASE UNCHANGED <<invoiceStates, call, waiter, timeoutReached>>
  BY Zenon, <1>1 DEF NoLostWakeup
<1>2. ASSUME NEW h \in Hashes, NEW st \in {"OPEN", "SETTLED", "CANCELED"}, LndStep(h, st)
      PROVE  UNCHANGED <<invoiceStates, call, waiter, timeoutReached>>
  BY Zenon, <1>2 DEF LndStep, verify
<1>3. Subscribe \/ Quiet => UNCHANGED <<invoiceStates, call, waiter, timeoutReached>>
  BY Zenon DEF Subscribe, Quiet, verify
<1>4. CASE ListPage
  <2>1. \A c \in Calls : waiter[c] = "none"
    BY Zenon, <1>4 DEF ListPage, CallOK
  <2> QED  BY Zenon, <2>1, <1>4 DEF ListPage, verify, NoLostWakeup
<1>5. ASSUME Broadcast
      PROVE  NoLostWakeup'
  <2>1. \A c \in Calls : waiter'[c] # "waiting"
    BY Zenon, <1>5 DEF Broadcast
  <2> QED  BY Zenon, <2>1 DEF NoLostWakeup
<1>6. ASSUME NEW i \in 1 .. 2, RecvUpdate(i)
      PROVE  Broadcast
  BY Zenon, <1>6 DEF RecvUpdate
<1>7. ASSUME NEW c \in Calls, CallStep(c)
      PROVE  NoLostWakeup'
  <2> USE DEF TypeOK, CallOK, NoLostWakeup
  <2>1. CASE CheckCondition(c)
    BY <2>1 DEF CheckCondition
  <2>2. CASE TimeoutReached(c)
    BY Zenon, <2>2, <1>5 DEF TimeoutReached
  <2>3. CASE Return(c)
    BY <2>3 DEF Return
  <2>4. ASSUME NEW h \in Hashes, NEW st \in Wanted, VerifyInvoiceStatus(c, h, st)
        PROVE  NoLostWakeup'
    BY <2>4 DEF VerifyInvoiceStatus
  <2> HIDE DEF TypeOK, CallOK, NoLostWakeup
  <2> QED  BY Zenon, <1>7, <2>1, <2>2, <2>3, <2>4 DEF CallStep
<1> QED  BY Zenon, <1>1, <1>2, <1>3, <1>4, <1>5, <1>6, <1>7, Kinds

\* An LndChallenger of its own subscribes once.
LEMMA StartStep ==
    ASSUME TypeOK, StartOK, [Next]_vars
    PROVE  StartOK'
<1>1. CASE /\ UNCHANGED <<backend, start>>
           /\ \A i \in 1 .. 2 : rd'[i] = "none" <=> rd[i] = "none"
           /\ main' = "challenger" => main = "challenger"
  BY <1>1 DEF StartOK
<1>2. ASSUME NEW h \in Hashes, NEW st \in {"OPEN", "SETTLED", "CANCELED"}, LndStep(h, st)
      PROVE  UNCHANGED <<backend, start, rd, main>>
  BY Zenon, <1>2 DEF LndStep, starting, streams
<1>3. ListPage => UNCHANGED <<backend, start, rd, main>>
  BY Zenon DEF ListPage, streams
<1>4. CASE Subscribe
  <2>1. UNCHANGED backend /\ rd' = [rd EXCEPT ![start] = "top"]
    BY Zenon, <1>4 DEF Subscribe
  <2>2. ASSUME backend = "lnd"
        PROVE  start = 1 /\ start' = 1 /\ main' = "starting" /\ rd[2] = "none"
    BY Zenon, <2>2, <1>4 DEF Subscribe, StartOK, LastStart
  <2>3. rd \in [1 .. 2 -> {"none", "top", "recv", "exited"}]
    BY Zenon DEF TypeOK
  <2> QED  BY <2>1, <2>2, <2>3 DEF StartOK
<1>5. ASSUME NEW i \in 1 .. 2, RecvUpdate(i)
      PROVE  /\ UNCHANGED <<backend, start, main>>
             /\ \A j \in 1 .. 2 : rd'[j] = "none" <=> rd[j] = "none"
  <2>1. UNCHANGED <<backend, start, main>> /\ rd' = [rd EXCEPT ![i] = "top"] /\ rd[i] = "recv"
    BY Zenon, <1>5 DEF RecvUpdate, starting
  <2>2. rd \in [1 .. 2 -> {"none", "top", "recv", "exited"}]
    BY Zenon DEF TypeOK
  <2> QED  BY Zenon, <2>1, <2>2
<1>6. ASSUME NEW c \in Calls, CallStep(c)
      PROVE  UNCHANGED <<backend, start, rd, main>>
  BY Zenon, <1>6 DEF CallStep, CheckCondition, TimeoutReached, Return,
     VerifyInvoiceStatus, starting, streams
<1>7. Quiet => /\ UNCHANGED <<backend, start>>
               /\ \A i \in 1 .. 2 : rd'[i] = "none" <=> rd[i] = "none"
               /\ main' = "challenger" => main = "challenger"
  BY Zenon DEF Quiet
<1>8. CASE UNCHANGED <<backend, start, rd, main>>
  BY Zenon, <1>8 DEF StartOK
<1> QED  BY Zenon, <1>1, <1>2, <1>3, <1>4, <1>5, <1>6, <1>7, <1>8, Kinds

\* The add event of a settled invoice is not delivered again.
LEMMA ReplayStep ==
    ASSUME TypeOK, LogOK, CacheSound, StartOK, NoReplay, [Next]_vars
    PROVE  NoReplay'
<1>1. CASE /\ UNCHANGED <<log, invoiceStates, backend, addIndex, sub>>
           /\ rd'[1] = "none" <=> rd[1] = "none"
  BY Zenon, <1>1 DEF NoReplay
<1>2. ASSUME NEW h \in Hashes, NEW st \in {"OPEN", "SETTLED", "CANCELED"}, LndStep(h, st)
      PROVE  NoReplay'
  <2>1. /\ Len(log) \in Nat
        /\ Len(log') = Len(log) + 1
        /\ log'[Len(log) + 1] = [hash |-> h, state |-> st]
        /\ \A k \in 1 .. Len(log) : log'[k] = log[k]
    BY Zenon, <1>2, EventEffect, LogEntry DEF LndStep
  <2>2. UNCHANGED <<invoiceStates, backend, addIndex, sub, rd>>
    BY Zenon, <1>2 DEF LndStep, starting, streams
  <2>3. st = "OPEN" => invoiceStates[h] # "SETTLED"
    BY Zenon, <1>2 DEF LndStep, CacheSound
  <2>4. SUFFICES ASSUME backend = "lnd", NEW k \in 1 .. Len(log'),
                        log'[k].state = "OPEN", invoiceStates[log'[k].hash] = "SETTLED"
                 PROVE  k \in 1 .. Len(log) /\ log'[k] = log[k]
    BY Zenon, <2>2 DEF NoReplay
  <2>5. k # Len(log) + 1
    BY <2>1, <2>3, <2>4
  <2> QED  BY <2>1, <2>5
<1>3. CASE ListPage
  <2>1. /\ UNCHANGED <<log, backend, rd, sub>>
        /\ main = "challenger"
        /\ \A h \in Hashes :
               invoiceStates'[h] = invoiceStates[h] \/ \E k \in Page : log[k].hash = h
    BY Zenon, <1>3 DEF ListPage, lnd, streams
  <2>2. /\ addIndex' \in Nat /\ addIndex \in Nat /\ addIndex <= addIndex'
        /\ \A k \in Page : k <= addIndex'
    BY Zenon, <1>3, ListPageEffect DEF TypeOK
  <2>3. SUFFICES ASSUME backend = "lnd", NEW k \in 1 .. Len(log),
                        log[k].state = "OPEN", invoiceStates'[log[k].hash] = "SETTLED"
                 PROVE  rd[1] = "none" /\ k <= addIndex'
    BY Zenon, <2>1 DEF NoReplay
  <2>4. rd[1] = "none"
    BY Zenon, <2>1, <2>3 DEF StartOK
  <2>5. CASE invoiceStates[log[k].hash] = "SETTLED"
    <3>1. k <= addIndex
      BY Zenon, <2>3, <2>4, <2>5 DEF NoReplay
    <3> QED  BY <3>1, <2>2, <2>4, LogEntry
  <2>6. ASSUME NEW j \in Page, log[j].hash = log[k].hash
        PROVE  k <= addIndex'
    <3>1. j \in 1 .. Len(log) /\ log[j].state = "OPEN"
      BY Zenon, <2>6 DEF Page, Positions
    <3>2. j = k
      BY Zenon, <3>1, <2>3, <2>6 DEF LogOK
    <3> QED  BY Zenon, <3>2, <2>2
  <2>7. log[k].hash \in Hashes
    BY Zenon, LogEntry
  <2> QED  BY Zenon, <2>1, <2>3, <2>4, <2>5, <2>6, <2>7
<1>4. CASE Subscribe
  <2>1. /\ UNCHANGED <<log, invoiceStates, backend>>
        /\ rd' = [rd EXCEPT ![start] = "top"]
        /\ sub' = [sub EXCEPT ![start] = [pos |-> 0, add |-> addIndex,
                                          settle |-> settleIndex, since |-> Len(log)]]
        /\ main = "challenger"
    BY Zenon, <1>4 DEF Subscribe, lnd
  <2>2. SUFFICES ASSUME backend = "lnd", NEW k \in 1 .. Len(log),
                        log[k].state = "OPEN", invoiceStates[log[k].hash] = "SETTLED"
                 PROVE  rd'[1] # "none" /\ k <= sub'[1].add /\ k <= sub'[1].since
    BY Zenon, <2>1 DEF NoReplay
  <2>3. start = 1 /\ rd[1] = "none"
    BY Zenon, <2>1, <2>2 DEF StartOK
  <2>4. k <= addIndex
    BY Zenon, <2>2, <2>3 DEF NoReplay
  <2>5. /\ DOMAIN rd = 1 .. 2 /\ DOMAIN sub = 1 .. 2
        /\ Len(log) \in Nat
    BY Zenon, LogEntry DEF TypeOK
  <2>6. 1 \in DOMAIN rd /\ 1 \in DOMAIN sub /\ k <= Len(log)
    BY <2>5
  <2>7. /\ rd'[1] = "top"
        /\ sub'[1] = [pos |-> 0, add |-> addIndex, settle |-> settleIndex,
                      since |-> Len(log)]
    BY Zenon, <2>1, <2>3, <2>6
  <2> QED  BY <2>4, <2>6, <2>7
<1>5. ASSUME NEW i \in 1 .. 2, RecvUpdate(i)
      PROVE  NoReplay'
  <2>1. PICK e \in 1 .. Len(log) :
            /\ e > sub[i].pos
            /\ sub' = [sub EXCEPT ![i].pos = e]
            /\ \A h \in Hashes : h # log[e].hash => invoiceStates'[h] = invoiceStates[h]
            /\ invoiceStates'[log[e].hash] \in {"none", log[e].state}
    BY Zenon, <1>5, RecvUpdateEffect
  <2>2. UNCHANGED <<log, backend>> /\ rd' = [rd EXCEPT ![i] = "top"] /\ rd[i] = "recv"
    BY Zenon, <1>5 DEF RecvUpdate, lnd, starting
  <2>3. SUFFICES ASSUME backend = "lnd", NEW k \in 1 .. Len(log),
                        log[k].state = "OPEN", invoiceStates'[log[k].hash] = "SETTLED"
                 PROVE  /\ rd'[1] # "none"
                        /\ k <= sub'[1].pos \/ (k <= sub'[1].add /\ k <= sub'[1].since)
    BY Zenon, <2>2 DEF NoReplay
  <2>4. i = 1
    BY <2>2, <2>3 DEF StartOK
  <2>5. /\ rd \in [1 .. 2 -> {"none", "top", "recv", "exited"}]
        /\ sub \in [1 .. 2 -> [pos : Nat, add : Nat, settle : Nat, since : Nat]]
    BY Zenon DEF TypeOK
  <2>6. /\ rd'[1] = "top" /\ rd[1] # "none"
        /\ sub'[1].pos = e /\ sub'[1].add = sub[1].add /\ sub'[1].since = sub[1].since
        /\ sub[1].pos \in Nat
    BY Zenon, <2>1, <2>2, <2>4, <2>5
  <2>7. Len(log) \in Nat /\ log[k].hash \in Hashes
    BY Zenon, LogEntry
  <2>8. CASE log[k].hash = log[e].hash
    <3>1. log[e].state = "SETTLED"
      BY Zenon, <2>1, <2>3, <2>8
    <3>2. k < e
      BY Zenon, <3>1, <2>3, <2>8 DEF LogOK
    <3> QED  BY <3>2, <2>6, <2>7
  <2>9. CASE log[k].hash # log[e].hash
    <3>1. invoiceStates[log[k].hash] = "SETTLED"
      BY Zenon, <2>1, <2>3, <2>7, <2>9
    <3>2. k <= sub[1].pos \/ (k <= sub[1].add /\ k <= sub[1].since)
      BY Zenon, <3>1, <2>3, <2>6 DEF NoReplay
    <3> QED  BY <3>2, <2>1, <2>4, <2>6, <2>7
  <2> QED  BY Zenon, <2>8, <2>9
<1>6. ASSUME NEW c \in Calls, CallStep(c)
      PROVE  UNCHANGED <<log, invoiceStates, backend, addIndex, sub, rd>>
  BY Zenon, <1>6 DEF CallStep, CheckCondition, TimeoutReached, Return,
     VerifyInvoiceStatus, lnd, starting, streams
<1>7. Quiet => /\ UNCHANGED <<log, invoiceStates, backend, addIndex, sub>>
               /\ rd'[1] = "none" <=> rd[1] = "none"
  BY DEF Quiet
<1> QED  BY Zenon, <1>1, <1>2, <1>3, <1>4, <1>5, <1>6, <1>7, Kinds

\* The backend is chosen once.
LEMMA BackendStays ==
    ASSUME TypeOK, [Next]_vars
    PROVE  backend' = backend
<1>1. ASSUME NEW h \in Hashes, NEW st \in {"OPEN", "SETTLED", "CANCELED"}, LndStep(h, st)
      PROVE  backend' = backend
  BY Zenon, <1>1 DEF LndStep, starting
<1>2. ListPage \/ Subscribe \/ Quiet => backend' = backend
  BY Zenon DEF ListPage, Subscribe, Quiet
<1>3. ASSUME NEW i \in 1 .. 2, RecvUpdate(i)
      PROVE  backend' = backend
  BY Zenon, <1>3 DEF RecvUpdate, starting
<1>4. ASSUME NEW c \in Calls, CallStep(c)
      PROVE  backend' = backend
  BY Zenon, <1>4 DEF CallStep, CheckCondition, TimeoutReached, Return,
     VerifyInvoiceStatus, starting
<1> QED  BY Zenon, <1>1, <1>2, <1>3, <1>4, Kinds

\* With one subscription the cache does not lose a settled invoice: a page
\* of the list repeats what lnd has, and the update that Recv returns is not
\* the one that added the invoice.
LEMMA SettledKept ==
    ASSUME IInv, [Next]_vars, backend = "lnd",
           NEW h \in Hashes, invoiceStates[h] = "SETTLED"
    PROVE  invoiceStates'[h] = "SETTLED"
<1>0. TypeOK /\ LogOK /\ CacheSound /\ StartOK /\ NoReplay
  BY Zenon DEF IInv
<1>1. CASE ListPage
  <2>1. invoice[h] = "SETTLED"
    BY Zenon, <1>0 DEF CacheSound
  <2> QED  BY Zenon, <2>1, <1>1 DEF ListPage
<1>2. ASSUME NEW i \in 1 .. 2, RecvUpdate(i)
      PROVE  invoiceStates'[h] = "SETTLED"
  <2>1. PICK k \in 1 .. Len(log) :
            /\ log[k].state \in {"OPEN", "SETTLED", "CANCELED"}
            /\ k > sub[i].pos
            /\ Delivers(i, k)
            /\ \A g \in Hashes : g # log[k].hash => invoiceStates'[g] = invoiceStates[g]
            /\ log[k].state = "SETTLED" => invoiceStates'[log[k].hash] = "SETTLED"
    BY Zenon, <1>0, <1>2, RecvUpdateEffect
  <2>2. CASE log[k].hash = h
    <3>1. i = 1 /\ rd[1] # "none"
      BY <1>0, <1>2 DEF RecvUpdate, StartOK
    <3>2. log[k].state # "CANCELED"
      BY Zenon, <2>2, <1>0 DEF LogOK, CacheSound
    <3>3. ASSUME log[k].state = "OPEN"
          PROVE  FALSE
      <4>1. k <= sub[1].pos \/ (k <= sub[1].add /\ k <= sub[1].since)
        BY Zenon, <3>1, <3>3, <2>2, <1>0 DEF NoReplay
      <4>2. k > sub[1].since \/ k > sub[1].add
        BY Zenon, <2>1, <3>1, <3>3 DEF Delivers
      <4>3. sub[1] \in [pos : Nat, add : Nat, settle : Nat, since : Nat]
        BY <1>0 DEF TypeOK
      <4> QED  BY <4>1, <4>2, <4>3, <2>1, <3>1, <1>0, LogEntry
    <3> QED  BY Zenon, <3>2, <3>3, <2>1, <2>2
  <2> QED  BY Zenon, <2>1, <2>2
<1>3. ASSUME NEW g \in Hashes, NEW st \in {"OPEN", "SETTLED", "CANCELED"}, LndStep(g, st)
      PROVE  UNCHANGED invoiceStates
  BY Zenon, <1>3 DEF LndStep
<1>4. Subscribe \/ Quiet => UNCHANGED invoiceStates
  BY Zenon DEF Subscribe, Quiet
<1>5. ASSUME NEW c \in Calls, CallStep(c)
      PROVE  UNCHANGED invoiceStates
  BY Zenon, <1>5 DEF CallStep, CheckCondition, TimeoutReached, Return,
     VerifyInvoiceStatus
<1>6. UNCHANGED invoiceStates => invoiceStates'[h] = "SETTLED"
  BY Zenon
<1> QED  BY Zenon, <1>0, <1>1, <1>2, <1>3, <1>4, <1>5, <1>6, Kinds

\* A call that has seen the settlement may still report it.
LEMMA SeenCachedStep ==
    ASSUME IInv, [Next]_vars
    PROVE  SeenCached'
<1>0. TypeOK /\ CallOK /\ SeenCached
  BY Zenon DEF IInv
<1> SUFFICES ASSUME backend' = "lnd", NEW c \in Calls, seen'[c] = "SETTLED"
             PROVE  invoiceStates'[call'[c].hash] = "SETTLED"
  BY Zenon DEF SeenCached
<1>1. backend = "lnd"
  BY Zenon, <1>0, BackendStays
<1>2. ASSUME call'[c] = call[c], seen'[c] = seen[c]
      PROVE  invoiceStates'[call'[c].hash] = "SETTLED"
  <2>1. invoiceStates[call[c].hash] = "SETTLED"
    BY Zenon, <1>0, <1>1, <1>2 DEF SeenCached
  <2>2. call[c] \in [hash : Hashes, state : Wanted]
    BY Zenon, <1>0, <1>2 DEF CallOK
  <2>3. call[c].hash \in Hashes
    BY <2>2
  <2> QED  BY Zenon, <1>1, <1>2, <2>1, <2>3, SettledKept
<1>3. ASSUME NEW h \in Hashes, NEW st \in {"OPEN", "SETTLED", "CANCELED"}, LndStep(h, st)
      PROVE  UNCHANGED <<call, seen>>
  BY Zenon, <1>3 DEF LndStep, verify
<1>4. ListPage \/ Subscribe \/ Quiet => UNCHANGED <<call, seen>>
  BY Zenon DEF ListPage, Subscribe, Quiet, verify
<1>5. ASSUME NEW i \in 1 .. 2, RecvUpdate(i)
      PROVE  UNCHANGED <<call, seen>>
  BY Zenon, <1>5 DEF RecvUpdate
<1>6. ASSUME NEW d \in Calls, CallStep(d)
      PROVE  \/ call'[c] = call[c] /\ seen'[c] = seen[c]
             \/ invoiceStates'[call'[c].hash] = "SETTLED"
  <2>0. DOMAIN seen = Calls /\ DOMAIN call = Calls
    BY Zenon, <1>0 DEF TypeOK
  <2>1. CASE CheckCondition(d)
    <3>1. d # c => call'[c] = call[c] /\ seen'[c] = seen[c]
      BY Zenon, <2>0, <2>1 DEF CheckCondition
    <3>2. d = c => /\ invoiceStates[call[c].hash] = "SETTLED"
                   /\ call' = call /\ invoiceStates' = invoiceStates
      BY Zenon, <2>0, <2>1 DEF CheckCondition
    <3> QED  BY <3>1, <3>2
  <2>2. CASE TimeoutReached(d)
    BY Zenon, <2>2 DEF TimeoutReached
  <2>3. CASE Return(d)
    BY Zenon, <2>0, <2>3 DEF Return
  <2>4. ASSUME NEW h \in Hashes, NEW st \in Wanted, VerifyInvoiceStatus(d, h, st)
        PROVE  call'[c] = call[c] /\ seen'[c] = seen[c]
    <3>1. waiter[d] = "none" /\ seen' = seen /\ \A b \in Calls : b # d => call'[b] = call[b]
      BY Zenon, <2>0, <2>4 DEF VerifyInvoiceStatus
    <3>2. c # d
      BY <1>0, <3>1 DEF CallOK
    <3> QED  BY Zenon, <3>1, <3>2
  <2> QED  BY Zenon, <1>6, <2>1, <2>2, <2>3, <2>4 DEF CallStep
<1> QED  BY Zenon, <1>0, <1>2, <1>3, <1>4, <1>5, <1>6, Kinds

-------------------------------------------------------------------------------
(***************************************************************************)
(* The theorems.                                                           *)
(***************************************************************************)
\* The initial state, before any operation, satisfies the invariant.
LEMMA InitIInv == Init => IInv
<1> SUFFICES ASSUME Init PROVE IInv
  BY Zenon
<1>1. TypeOK
  <2>1. timeoutReached \in [Calls -> BOOLEAN] /\ connDown \in BOOLEAN /\ quit \in BOOLEAN
    BY Zenon DEF Init
  <2>2. /\ call \in [Calls -> [hash : Hashes, state : Wanted] \cup {NoCall}]
        /\ canceled \subseteq 1 .. 2
        /\ expired \subseteq Hashes
    BY Zenon DEF Init
  <2>3. /\ sub \in [1 .. 2 -> [pos : Nat, add : Nat, settle : Nat, since : Nat]]
        /\ rd \in [1 .. 2 -> {"none", "top", "recv", "exited"}]
    BY Zenon DEF Init, NoSub
  <2> QED  BY <2>1, <2>2, <2>3 DEF TypeOK, Init, Starts
<1>2. CallOK /\ LogOK /\ CacheSound /\ SeenSound
  BY DEF Init, CallOK, LogOK, CacheSound, SeenSound
<1>3. VerifySound /\ NoLostWakeup
  BY Zenon DEF Init, VerifySound, NoLostWakeup
<1>4. StartOK /\ NoReplay /\ SeenCached
  BY DEF Init, StartOK, NoReplay, SeenCached
<1> QED  BY Zenon, <1>1, <1>2, <1>3, <1>4 DEF IInv

\* The parts together are inductive.
LEMMA NextIInv == IInv /\ [Next]_vars => IInv'
  BY Zenon, TypeStep, CallOKStep, LogStep, CacheStep, SeenStep, VerifyStep,
     WakeupStep, StartStep, ReplayStep, SeenCachedStep
  DEF IInv

\* The invariant holds in every state the code reaches.
LEMMA Invariance == Spec => []IInv
  BY InitIInv, NextIInv, PTL DEF Spec

(***************************************************************************)
(* Every variable keeps its type; in particular no canceled invoice enters *)
(* the cache, and the indices of the subscriptions are numbers.            *)
(***************************************************************************)
THEOREM TypeCorrect == Spec => []TypeOK
<1>1. IInv => TypeOK
  BY Zenon DEF IInv
<1> QED  BY <1>1, Invariance, PTL

(***************************************************************************)
(* VerifyInvoiceStatus never vouches for an invoice that lnd has not       *)
(* settled, whatever mixture of pages, replayed and live updates of one or *)
(* two streams the cache was filled from.                                  *)
(***************************************************************************)
THEOREM VerifySoundHolds == Spec => []VerifySound
<1>1. IInv => VerifySound
  BY Zenon DEF IInv
<1> QED  BY <1>1, Invariance, PTL

(***************************************************************************)
(* A goroutine in invoicesCond.Wait has nothing to wake up for: the places *)
(* that change the cache or a timeout flag broadcast, and Start, which     *)
(* does not, runs before the first call.                                   *)
(***************************************************************************)
THEOREM NoLostWakeupHolds == Spec => []NoLostWakeup
<1>1. IInv => NoLostWakeup
  BY Zenon DEF IInv
<1> QED  BY <1>1, Invariance, PTL

(***************************************************************************)
(* With one subscription, invoiceStates never loses a settled invoice: the *)
(* stream starts after the add index that Start has listed, delivers every *)
(* event once and in order, and neither a replayed add event nor an expiry *)
(* deletes the state that a paid token needs.                              *)
(***************************************************************************)
THEOREM NeverUnsettledHolds == Spec => NeverUnsettled
<1>1. IInv /\ [Next]_vars =>
          [backend = "lnd" =>
              \A h \in Hashes : invoiceStates[h] = "SETTLED"
                                    => invoiceStates'[h] = "SETTLED"]_vars
  BY Zenon, SettledKept
<1> QED  BY <1>1, Invariance, PTL DEF Spec, NeverUnsettled

-------------------------------------------------------------------------------
(***************************************************************************)
(* The refinement of InvoiceOracle.                                        *)
(***************************************************************************)
\* The cases of the view, for the state i of an invoice and s of the cache.
LEMMA ViewCases ==
    ASSUME NEW i \in {"none", "OPEN", "SETTLED", "CANCELED"}, NEW s,
           s = "SETTLED" => i = "SETTLED",
           NEW v, v = CASE i = "none" -> "none"
                        [] i \in {"OPEN", "CANCELED"} -> "open"
                        [] OTHER -> IF s = "SETTLED" THEN "seen" ELSE "paid"
    PROVE  /\ v \in {"none", "open", "paid", "seen"}
           /\ v = "none" <=> i = "none"
           /\ v = "open" <=> i \in {"OPEN", "CANCELED"}
           /\ v = "seen" <=> s = "SETTLED"
  OBVIOUS

\* The initial state is the oracle's.
LEMMA InitOracle == Init => Oracle!Init
<1> SUFFICES ASSUME Init PROVE Oracle!Init
  OBVIOUS
<1>1. View = [h \in Hashes |-> "none"]
  BY DEF Init, View
<1>2. Vouched = [c \in Calls |-> "none"]
  BY DEF Init, Vouched
<1> QED  BY Zenon, <1>1, <1>2 DEF Oracle!Init

\* Whatever a step that leaves lnd and the results alone does to the cache,
\* it shows paid invoices, and hides none.
LEMMA CacheSees ==
    ASSUME IInv, IInv', [Next]_vars, backend = "lnd", UNCHANGED <<invoice, Vouched>>
    PROVE  Oracle!Next
<1>0. TypeOK /\ CacheSound /\ TypeOK' /\ CacheSound'
  BY Zenon DEF IInv
<1> DEFINE new == {h \in Hashes : View[h] = "paid" /\ View'[h] = "seen"}
<1>1. \A h \in Hashes : View'[h] = IF h \in new THEN "seen" ELSE View[h]
  <2> SUFFICES ASSUME NEW h \in Hashes
               PROVE  View'[h] = IF h \in new THEN "seen" ELSE View[h]
    OBVIOUS
  <2>1. invoiceStates[h] = "SETTLED" => invoiceStates'[h] = "SETTLED"
    BY Zenon, SettledKept
  <2>2. /\ invoice[h] \in {"none", "OPEN", "SETTLED", "CANCELED"}
        /\ invoiceStates[h] = "SETTLED" => invoice[h] = "SETTLED"
        /\ invoiceStates'[h] = "SETTLED" => invoice[h] = "SETTLED"
    BY Zenon, <1>0 DEF TypeOK, CacheSound
  <2>3. /\ View[h] = CASE invoice[h] = "none" -> "none"
                       [] invoice[h] \in {"OPEN", "CANCELED"} -> "open"
                       [] OTHER -> IF invoiceStates[h] = "SETTLED" THEN "seen" ELSE "paid"
        /\ View'[h] = CASE invoice[h] = "none" -> "none"
                        [] invoice[h] \in {"OPEN", "CANCELED"} -> "open"
                        [] OTHER -> IF invoiceStates'[h] = "SETTLED" THEN "seen" ELSE "paid"
    BY Zenon DEF View
  <2>4. /\ View[h] \in {"none", "open", "paid", "seen"}
        /\ View[h] = "none" <=> invoice[h] = "none"
        /\ View[h] = "open" <=> invoice[h] \in {"OPEN", "CANCELED"}
        /\ View[h] = "seen" <=> invoiceStates[h] = "SETTLED"
    BY Zenon, <2>2, <2>3, ViewCases
  <2>5. /\ View'[h] \in {"none", "open", "paid", "seen"}
        /\ View'[h] = "none" <=> invoice[h] = "none"
        /\ View'[h] = "open" <=> invoice[h] \in {"OPEN", "CANCELED"}
        /\ View'[h] = "seen" <=> invoiceStates'[h] = "SETTLED"
    BY Zenon, <2>2, <2>3, ViewCases
  <2> QED  BY <2>1, <2>4, <2>5
<1>2. View' = [h \in Hashes |-> View'[h]]
  BY Zenon DEF View
<1>3. Oracle!See(new)
  BY Zenon, <1>1, <1>2 DEF Oracle!See
<1> QED  BY Zenon, <1>3 DEF Oracle!Next

\* Every step is one of the oracle's.
LEMMA OracleStep ==
    ASSUME IInv, IInv', [Next]_vars, backend = "lnd"
    PROVE  [Oracle!Next]_<<View, Vouched>>
<1>0. TypeOK /\ CallOK /\ CacheSound /\ SeenCached /\ TypeOK' /\ CacheSound'
  BY Zenon DEF IInv
<1>1. Quiet \/ ListPage \/ Subscribe => UNCHANGED <<invoice, Vouched>>
  BY Zenon DEF Quiet, ListPage, Subscribe, lnd, verify, Vouched
<1>2. ASSUME NEW i \in 1 .. 2, RecvUpdate(i)
      PROVE  UNCHANGED <<invoice, Vouched>>
  BY Zenon, <1>2 DEF RecvUpdate, lnd, Vouched
<1>3. ASSUME NEW h \in Hashes, NEW st \in {"OPEN", "SETTLED", "CANCELED"}, LndStep(h, st)
      PROVE  [Oracle!Next]_<<View, Vouched>>
  <2>1. Vouched' = Vouched
    BY Zenon, <1>3 DEF LndStep, verify, Vouched
  <2>2. /\ invoice' = [invoice EXCEPT ![h] = st] /\ invoiceStates' = invoiceStates
        /\ st = "OPEN" => invoice[h] = "none"
        /\ st # "OPEN" => invoice[h] = "OPEN"
    BY Zenon, <1>3 DEF LndStep, Event
  <2>3. /\ invoice \in [Hashes -> {"none", "OPEN", "SETTLED", "CANCELED"}]
        /\ invoiceStates[h] # "SETTLED"
    BY Zenon, <1>0, <2>2 DEF TypeOK, CacheSound
  <2>4. View' = [View EXCEPT ![h] = IF st = "SETTLED" THEN "paid" ELSE "open"]
    BY Zenon, <2>2, <2>3 DEF View
  <2>5. View[h] = IF st = "OPEN" THEN "none" ELSE "open"
    BY <2>2 DEF View
  <2>6. CASE st = "OPEN"
    <3>1. Oracle!Add(h)
      BY <2>1, <2>4, <2>5, <2>6 DEF Oracle!Add
    <3> QED  BY Zenon, <3>1 DEF Oracle!Next
  <2>7. CASE st = "SETTLED"
    <3>1. Oracle!Pay(h)
      BY <2>1, <2>4, <2>5, <2>7 DEF Oracle!Pay
    <3> QED  BY Zenon, <3>1 DEF Oracle!Next
  <2>8. CASE st = "CANCELED"
    <3>1. View' = View
      BY Zenon, <2>4, <2>5, <2>8 DEF View
    <3> QED  BY Zenon, <2>1, <3>1
  <2> QED  BY Zenon, <2>6, <2>7, <2>8
<1>4. ASSUME NEW c \in Calls, CallStep(c), ~Return(c)
      PROVE  UNCHANGED <<View, Vouched>>
  <2>1. View' = View
    BY Zenon, <1>4 DEF CallStep, CheckCondition, TimeoutReached,
       VerifyInvoiceStatus, lnd, View
  <2>2. CASE CheckCondition(c) \/ TimeoutReached(c)
    BY Zenon, <2>1, <2>2 DEF CheckCondition, TimeoutReached, Vouched
  <2>3. ASSUME NEW h \in Hashes, NEW st \in Wanted, VerifyInvoiceStatus(c, h, st)
        PROVE  Vouched' = Vouched
    <3>1. result' = result /\ call' = [call EXCEPT ![c] = [hash |-> h, state |-> st]]
      BY Zenon, <2>3 DEF VerifyInvoiceStatus
    <3>2. result[c] = "none"
      BY Zenon, <1>0, <2>3 DEF VerifyInvoiceStatus, CallOK
    <3>3. \A d \in Calls : d # c => call'[d] = call[d]
      <4>1. DOMAIN call = Calls
        BY Zenon, <1>0 DEF TypeOK
      <4> QED  BY Zenon, <3>1, <4>1
    <3> QED  BY <3>1, <3>2, <3>3 DEF Vouched
  <2> QED  BY Zenon, <1>4, <2>1, <2>2, <2>3 DEF CallStep
<1>5. ASSUME NEW c \in Calls, Return(c)
      PROVE  Oracle!Next
  <2>1. /\ View' = View /\ call' = call
        /\ result' = [result EXCEPT ![c] = IF seen[c] = call[c].state THEN "ok" ELSE "error"]
    BY Zenon, <1>5 DEF Return, lnd, View
  <2>2. /\ DOMAIN result = Calls
        /\ call[c] \in [hash : Hashes, state : Wanted]
    BY Zenon, <1>0, <1>5 DEF TypeOK, CallOK, Return
  <2>3. call[c].hash \in Hashes
    BY <2>2
  <2>4. CASE seen[c] = call[c].state /\ call[c].state = "SETTLED"
    <3>1. Vouched' = [Vouched EXCEPT ![c] = call[c].hash]
      BY Zenon, <2>1, <2>2, <2>4 DEF Vouched
    <3>2. invoiceStates[call[c].hash] = "SETTLED"
      BY Zenon, <1>0, <2>4 DEF SeenCached
    <3>3. View[call[c].hash] = "seen"
      <4>1. invoice[call[c].hash] = "SETTLED"
        BY Zenon, <1>0, <2>3, <3>2 DEF CacheSound
      <4> QED  BY <2>3, <3>2, <4>1 DEF View
    <3>4. Oracle!Vouch(c, call[c].hash)
      BY Zenon, <2>1, <3>1, <3>3 DEF Oracle!Vouch
    <3> QED  BY Zenon, <2>3, <3>4 DEF Oracle!Next
  <2>5. CASE ~(seen[c] = call[c].state /\ call[c].state = "SETTLED")
    <3>1. Vouched' = [d \in Calls |-> IF d \in {c} THEN "none" ELSE Vouched[d]]
      BY <2>1, <2>2, <2>5 DEF Vouched
    <3>2. Oracle!Forget({c})
      BY Zenon, <2>1, <3>1 DEF Oracle!Forget
    <3> QED  BY Zenon, <3>2 DEF Oracle!Next
  <2> QED  BY Zenon, <2>4, <2>5
<1> QED  BY Zenon, <1>0, <1>1, <1>2, <1>3, <1>4, <1>5, CacheSees, Kinds

(***************************************************************************)
(* An LndChallenger with one subscription is the oracle that the           *)
(* authenticator takes it for: it sees payments after they were made and   *)
(* for good, and VerifyInvoiceStatus reports what it has seen, although    *)
(* the answer is given a while after the cache was read.                   *)
(***************************************************************************)
THEOREM OracleRefined == Spec /\ backend = "lnd" => ImplementsOracle
<1>1. IInv /\ IInv' /\ backend = "lnd" /\ [Next]_vars => [Oracle!Next]_<<View, Vouched>>
  BY Zenon, OracleStep
<1>2. IInv /\ backend = "lnd" /\ [Next]_vars => (backend = "lnd")'
  BY Zenon, BackendStays DEF IInv
<1> QED  BY <1>1, <1>2, InitOracle, Invariance, PTL
         DEF Spec, ImplementsOracle, Oracle!Spec
===============================================================================
