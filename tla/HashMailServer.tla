---------------------------- MODULE HashMailServer ----------------------------
(***************************************************************************)
(* The mailbox registry of the HashMail server (src/hashmail_server.go):   *)
(* the streams map and its RWMutex, the two holding channels of a stream,  *)
(* the occupancy flags and the stale timer of streamStatus, and the three  *)
(* ways a stream is torn down (DelCipherBox, the stale timer, Stop).       *)
(*                                                                         *)
(* A stream identifier can be created, torn down and created again, so     *)
(* Streams are the stream OBJECTS and Ids the identifiers they are stored  *)
(* under.  A handler is one SendStream or RecvStream call.  The bytes that *)
(* travel through a stream are the subject of module HashMailStream; here  *)
(* the two goroutines of a stream are one flag, running.                   *)
(*                                                                         *)
(* An operator whose name ends in _bug is its neighbour with a plausible   *)
(* mistake in it; it is no part of the specification and serves to show    *)
(* that a property can fail.                                               *)
(***************************************************************************)
EXTENDS Naturals, FiniteSets

CONSTANTS Ids,        \* stream identifiers the clients use
          Streams,    \* stream objects the server may allocate
          Handlers,   \* SendStream and RecvStream calls
          NoStream,   \* the nil stream
          NoId,       \* identifier of an object that is not allocated
          MaxFired    \* bound: callbacks of one timer that wait for the lock

ASSUME ConstAssumption ==
    /\ NoStream \notin Streams
    /\ NoId \notin Ids
    /\ MaxFired \in Nat \ {0}

VARIABLES
    disabled,   \* streamStatus.disabled: the configured timeout is negative
    streams,    \* hashMailServer.streams
    idOf,       \* stream.id of every allocated object
    token,      \* sides whose handle lies in readStreamChan, writeStreamChan
    occupied,   \* readStreamOccupied, writeStreamOccupied
    timer,      \* the stale timer: "armed" or "off"
    fired,      \* started callbacks of a stream that have not called h.Lock
    pending,    \* the stream whose callback is inside h.Lock, waiting
    closed,     \* the write pipe and stream.quit are closed
    running,    \* stream.wg is not yet zero
    job,        \* what the holder of h.Lock is tearing down
    pc,         \* where every handler is
    strm,       \* the stream a handler has a handle of
    side,       \* the side of that handle
    stopped,    \* hashMailServer.Stop was called
    crashed     \* a panic has ended the process

status == <<occupied, timer>>
registry == <<streams, idOf>>
handler == <<pc, strm, side>>
vars == <<disabled, streams, idOf, token, occupied, timer, fired, pending,
          closed, running, job, pc, strm, side, stopped, crashed>>

Sides == {"read", "write"}

NoJob == [kind |-> "none", stream |-> NoStream, step |-> "none", todo |-> {}]

InMap(s) == \E id \in Ids : streams[id] = s

(***************************************************************************)
(* h.Lock excludes everything else; h.RLock is held by the handlers that   *)
(* are inside LookUpReadStream or LookUpWriteStream.  A goroutine inside   *)
(* sync.RWMutex.Lock keeps new readers and writers out while it waits for  *)
(* the readers to leave.                                                   *)
(***************************************************************************)
NoWriter == job = NoJob /\ pending = NoStream
NoReader == \A h \in Handlers : pc[h] # "taking"
LockFree == NoWriter /\ NoReader

Init ==
    /\ disabled \in BOOLEAN
    /\ streams = [id \in Ids |-> NoStream]
    /\ idOf = [s \in Streams |-> NoId]
    /\ token = [s \in Streams |-> {}]
    /\ occupied = [s \in Streams |-> {}]
    /\ timer = [s \in Streams |-> "off"]
    /\ fired = [s \in Streams |-> 0]
    /\ pending = NoStream
    /\ closed = [s \in Streams |-> FALSE]
    /\ running = [s \in Streams |-> FALSE]
    /\ job = NoJob
    /\ pc = [h \in Handlers |-> "idle"]
    /\ strm = [h \in Handlers |-> NoStream]
    /\ side = [h \in Handlers |-> "read"]
    /\ stopped = FALSE
    /\ crashed = FALSE

-------------------------------------------------------------------------------
(***************************************************************************)
(* streamStatus                                                            *)
(***************************************************************************)

\* streamStatus.stop, and the last line of streamTaken.
StopTimer(s) == timer' = [timer EXCEPT ![s] = "off"]

\* streamTaken(read): set the flag of the side, stop the timer.
streamTaken(s, sd) ==
    IF disabled
    THEN UNCHANGED status
    ELSE /\ occupied' = [occupied EXCEPT ![s] = @ \cup {sd}]
         /\ StopTimer(s)

\* The flags are looked at before the flag of the side is cleared.
streamReturned_bug(s, sd) ==
    IF disabled
    THEN UNCHANGED status
    ELSE /\ occupied' = [occupied EXCEPT ![s] = @ \ {sd}]
         /\ timer' = IF occupied[s] = {}
                     THEN [timer EXCEPT ![s] = "armed"]
                     ELSE timer

\* streamReturned(read): clear the flag; the timer starts afresh when both
\* flags are clear.
streamReturned(s, sd) ==
    IF disabled
    THEN UNCHANGED status
    ELSE /\ occupied' = [occupied EXCEPT ![s] = @ \ {sd}]
         /\ timer' = IF occupied[s] \ {sd} = {}
                     THEN [timer EXCEPT ![s] = "armed"]
                     ELSE timer

-------------------------------------------------------------------------------
\* The stale timer of a new stream is not started.
NewCipherBox_bug(id, s) ==
    /\ LockFree
    /\ streams[id] = NoStream
    /\ idOf[s] = NoId
    /\ streams' = [streams EXCEPT ![id] = s]
    /\ idOf' = [idOf EXCEPT ![s] = id]
    /\ token' = [token EXCEPT ![s] = Sides]
    /\ running' = [running EXCEPT ![s] = TRUE]
    /\ UNCHANGED <<disabled, status, fired, pending, closed, job, handler,
                   stopped, crashed>>

(***************************************************************************)
(* NewCipherBox: InitStream and newStream, all under h.Lock.  When the     *)
(* identifier is in use, or the request is not valid, the call fails and   *)
(* changes nothing.                                                        *)
(***************************************************************************)
NewCipherBox(id, s) ==
    /\ LockFree
    /\ streams[id] = NoStream
    /\ idOf[s] = NoId
    /\ streams' = [streams EXCEPT ![id] = s]
    /\ idOf' = [idOf EXCEPT ![s] = id]
    /\ token' = [token EXCEPT ![s] = Sides]
    /\ running' = [running EXCEPT ![s] = TRUE]
    /\ timer' = [timer EXCEPT ![s] = IF disabled THEN "off" ELSE "armed"]
    /\ UNCHANGED <<disabled, occupied, fired, pending, closed, job, handler,
                   stopped, crashed>>

\* The handle stays available to other clients.
TakeHandle_bug(h, id, sd) ==
    /\ NoWriter
    /\ pc[h] = "idle"
    /\ streams[id] # NoStream
    /\ sd \in token[streams[id]]
    /\ pc' = [pc EXCEPT ![h] = "taking"]
    /\ strm' = [strm EXCEPT ![h] = streams[id]]
    /\ side' = [side EXCEPT ![h] = sd]
    /\ UNCHANGED <<disabled, registry, token, status, fired, pending, closed,
                   running, job, stopped, crashed>>

(***************************************************************************)
(* LookUpReadStream and LookUpWriteStream, first half: under h.RLock the   *)
(* handle is taken from its holding channel.  The call fails and changes   *)
(* nothing when the stream is unknown or its handle is not in the channel. *)
(***************************************************************************)
TakeHandle(h, id, sd) ==
    /\ NoWriter
    /\ pc[h] = "idle"
    /\ streams[id] # NoStream
    /\ sd \in token[streams[id]]
    /\ token' = [token EXCEPT ![streams[id]] = @ \ {sd}]
    /\ pc' = [pc EXCEPT ![h] = "taking"]
    /\ strm' = [strm EXCEPT ![h] = streams[id]]
    /\ side' = [side EXCEPT ![h] = sd]
    /\ UNCHANGED <<disabled, registry, status, fired, pending, closed, running,
                   job, stopped, crashed>>

\* Second half: streamTaken, then h.RUnlock.
FinishTake(h) ==
    /\ ~crashed
    /\ pc[h] = "taking"
    /\ streamTaken(strm[h], side[h])
    /\ pc' = [pc EXCEPT ![h] = "using"]
    /\ UNCHANGED <<disabled, registry, token, fired, pending, closed, running,
                   job, strm, side, stopped, crashed>>

(***************************************************************************)
(* The deferred ReturnStream of SendStream and RecvStream, reached when    *)
(* the client hangs up or an operation on the stream fails.  It holds no   *)
(* lock: the handle goes back into its channel (capacity one, the send     *)
(* waits while the channel is full) and only then the flag is cleared.     *)
(***************************************************************************)
ReturnHandle(h) ==
    /\ ~crashed
    /\ pc[h] = "using"
    /\ side[h] \notin token[strm[h]]
    /\ token' = [token EXCEPT ![strm[h]] = @ \cup {side[h]}]
    /\ pc' = [pc EXCEPT ![h] = "returning"]
    /\ UNCHANGED <<disabled, registry, status, fired, pending, closed, running,
                   job, strm, side, stopped, crashed>>

FinishReturn(h) ==
    /\ ~crashed
    /\ pc[h] = "returning"
    /\ streamReturned(strm[h], side[h])
    /\ pc' = [pc EXCEPT ![h] = "idle"]
    /\ strm' = [strm EXCEPT ![h] = NoStream]
    /\ side' = [side EXCEPT ![h] = "read"]
    /\ UNCHANGED <<disabled, registry, token, fired, pending, closed, running,
                   job, stopped, crashed>>

-------------------------------------------------------------------------------
(***************************************************************************)
(* stream.tearDown, run by whoever holds h.Lock.  It stops the timer, then *)
(* closes the pipe and stream.quit, then waits for the two goroutines.     *)
(***************************************************************************)
BeginTearDown(kind, s, rest) ==
    /\ job' = [kind |-> kind, stream |-> s, step |-> "close", todo |-> rest]
    /\ StopTimer(s)

\* The pipe is left open.
ClosePipe_bug ==
    /\ ~crashed
    /\ job.step = "close"
    /\ job' = [job EXCEPT !.step = "wait"]
    /\ UNCHANGED <<disabled, registry, token, status, fired, pending, closed,
                   running, handler, stopped, crashed>>

\* close(s.quit) panics when the channel is already closed.
ClosePipe ==
    /\ ~crashed
    /\ job.step = "close"
    /\ IF closed[job.stream]
       THEN /\ crashed' = TRUE
            /\ UNCHANGED <<closed, job>>
       ELSE /\ closed' = [closed EXCEPT ![job.stream] = TRUE]
            /\ job' = [job EXCEPT !.step = "wait"]
            /\ UNCHANGED crashed
    /\ UNCHANGED <<disabled, registry, token, status, fired, pending, running,
                   handler, stopped>>

\* With the pipe and quit closed the copier and the reader goroutine end.
GoroutinesExit(s) ==
    /\ ~crashed
    /\ closed[s]
    /\ running[s]
    /\ running' = [running EXCEPT ![s] = FALSE]
    /\ UNCHANGED <<disabled, registry, token, status, fired, pending, closed,
                   job, handler, stopped, crashed>>

\* The entry stays in the map.
FinishTearDown_bug ==
    /\ job.step = "wait"
    /\ job.kind \in {"stale", "del"}
    /\ ~running[job.stream]
    /\ job' = NoJob
    /\ UNCHANGED <<disabled, registry, token, status, fired, pending, closed,
                   running, handler, stopped, crashed>>

\* tearDown does not wait for the goroutines.
NoWait_bug ==
    /\ job.step = "wait"
    /\ job.kind \in {"stale", "del"}
    /\ streams' = [streams EXCEPT ![idOf[job.stream]] = NoStream]
    /\ job' = NoJob
    /\ UNCHANGED <<disabled, idOf, token, status, fired, pending, closed,
                   running, handler, stopped, crashed>>

\* wg.Wait returns in TearDownStream or tearDownStaleStream: the stream is
\* deleted from the map and h.Lock released.
FinishTearDown ==
    /\ job.step = "wait"
    /\ job.kind \in {"stale", "del"}
    /\ ~running[job.stream]
    /\ streams' = [streams EXCEPT ![idOf[job.stream]] = NoStream]
    /\ job' = NoJob
    /\ UNCHANGED <<disabled, idOf, token, status, fired, pending, closed,
                   running, handler, stopped, crashed>>

\* wg.Wait returns in Stop: on to the next stream of the map, whose entries
\* Stop does not delete.
NextTearDown ==
    /\ job.step = "wait"
    /\ job.kind = "stop"
    /\ ~running[job.stream]
    /\ \/ /\ job.todo = {}
          /\ job' = NoJob
          /\ UNCHANGED timer
       \/ \E s \in job.todo : BeginTearDown("stop", s, job.todo \ {s})
    /\ UNCHANGED <<disabled, registry, token, occupied, fired, pending, closed,
                   running, handler, stopped, crashed>>

\* DelCipherBox and TearDownStream; an unknown identifier is an error.
DelCipherBox(id) ==
    /\ LockFree
    /\ streams[id] # NoStream
    /\ BeginTearDown("del", streams[id], {})
    /\ UNCHANGED <<disabled, registry, token, occupied, fired, pending, closed,
                   running, handler, stopped, crashed>>

\* The stale timer runs out: a new goroutine starts its callback.
TimerFire(s) ==
    /\ ~crashed
    /\ timer[s] = "armed"
    /\ fired[s] < MaxFired
    /\ StopTimer(s)
    /\ fired' = [fired EXCEPT ![s] = @ + 1]
    /\ UNCHANGED <<disabled, registry, token, occupied, pending, closed,
                   running, job, handler, stopped, crashed>>

\* The callback calls h.Lock.
CallLock(s) ==
    /\ fired[s] > 0
    /\ NoWriter
    /\ fired' = [fired EXCEPT ![s] = @ - 1]
    /\ pending' = s
    /\ UNCHANGED <<disabled, registry, token, status, closed, running, job,
                   handler, stopped, crashed>>

\* The callback gets h.Lock: tearDownStaleStream looks its stream up by the
\* identifier and tears down whatever the map holds there.
TearDownStaleStream(s) ==
    /\ pending = s
    /\ NoReader
    /\ pending' = NoStream
    /\ IF streams[idOf[s]] = NoStream
       THEN UNCHANGED <<job, timer>>
       ELSE BeginTearDown("stale", streams[idOf[s]], {})
    /\ UNCHANGED <<disabled, registry, token, occupied, fired, closed, running,
                   handler, stopped, crashed>>

\* hashMailServer.Stop tears every stream of the map down under h.Lock.
Stop ==
    /\ LockFree
    /\ ~stopped
    /\ stopped' = TRUE
    /\ LET live == {s \in Streams : InMap(s)}
       IN  \/ /\ live = {}
              /\ UNCHANGED <<job, timer>>
           \/ \E s \in live : BeginTearDown("stop", s, live \ {s})
    /\ UNCHANGED <<disabled, registry, token, occupied, fired, pending, closed,
                   running, handler, crashed>>

-------------------------------------------------------------------------------
Next ==
    \/ \E id \in Ids, s \in Streams : NewCipherBox(id, s)
    \/ \E h \in Handlers, id \in Ids, sd \in Sides : TakeHandle(h, id, sd)
    \/ \E h \in Handlers : FinishTake(h)
    \/ \E h \in Handlers : ReturnHandle(h)
    \/ \E h \in Handlers : FinishReturn(h)
    \/ \E id \in Ids : DelCipherBox(id)
    \/ \E s \in Streams : TimerFire(s)
    \/ \E s \in Streams : CallLock(s)
    \/ \E s \in Streams : TearDownStaleStream(s)
    \/ \E s \in Streams : GoroutinesExit(s)
    \/ ClosePipe
    \/ FinishTearDown
    \/ NextTearDown
    \/ Stop

(***************************************************************************)
(* Fairness.  The Go scheduler runs every goroutine that can run, timers   *)
(* run out, and sync.Mutex does not starve a waiting goroutine, so a stale *)
(* callback that can enter h.Lock again and again enters it.  Clients owe  *)
(* the server nothing: no fairness on taking or returning a handle, nor on *)
(* DelCipherBox and Stop.                                                  *)
(***************************************************************************)
Fairness ==
    /\ \A h \in Handlers : /\ WF_vars(FinishTake(h))
                           /\ WF_vars(FinishReturn(h))
    /\ \A s \in Streams : /\ WF_vars(GoroutinesExit(s))
                          /\ WF_vars(TimerFire(s))
                          /\ SF_vars(CallLock(s))
                          /\ WF_vars(TearDownStaleStream(s))
    /\ WF_vars(ClosePipe)
    /\ WF_vars(FinishTearDown)
    /\ WF_vars(NextTearDown)

Spec == Init /\ [][Next]_vars

FairSpec == Spec /\ Fairness

-------------------------------------------------------------------------------
(***************************************************************************)
(* Properties                                                              *)
(***************************************************************************)

\* The types of the variables.
TypeOK ==
    /\ disabled \in BOOLEAN
    /\ streams \in [Ids -> Streams \cup {NoStream}]
    /\ idOf \in [Streams -> Ids \cup {NoId}]
    /\ token \in [Streams -> SUBSET Sides]
    /\ occupied \in [Streams -> SUBSET Sides]
    /\ timer \in [Streams -> {"armed", "off"}]
    /\ fired \in [Streams -> 0 .. MaxFired]
    /\ pending \in Streams \cup {NoStream}
    /\ closed \in [Streams -> BOOLEAN]
    /\ running \in [Streams -> BOOLEAN]
    /\ job \in {NoJob} \cup [kind : {"stale", "del", "stop"},
                             stream : Streams,
                             step : {"close", "wait"},
                             todo : SUBSET Streams]
    /\ pc \in [Handlers -> {"idle", "taking", "using", "returning"}]
    /\ strm \in [Handlers -> Streams \cup {NoStream}]
    /\ side \in [Handlers -> Sides]
    /\ stopped \in BOOLEAN
    /\ crashed \in BOOLEAN

\* Handler h has the handle of side sd of stream s in its hands.
Holds(h, s, sd) ==
    /\ pc[h] \in {"taking", "using"}
    /\ strm[h] = s
    /\ side[h] = sd

\* Handler h has not yet finished with stream s.
Engaged(h, s) == pc[h] # "idle" /\ strm[h] = s

(***************************************************************************)
(* "Only a single writer and reader can exist within the stream at any     *)
(* given time" (stream, line 166): at most one handler holds the handle of *)
(* a side, nobody does while it lies in the channel (so the send in        *)
(* ReturnReadStream never blocks), and it is never lost: as long as the    *)
(* stream exists the handle is in the channel or with a handler.           *)
(***************************************************************************)
SingleHolder ==
    \A s \in Streams, sd \in Sides :
        /\ \A h \in Handlers : Holds(h, s, sd) =>
               /\ sd \notin token[s]
               /\ \A g \in Handlers : Holds(g, s, sd) => g = h
        /\ idOf[s] # NoId /\ sd \notin token[s]
               => \E h \in Handlers : Holds(h, s, sd)

(***************************************************************************)
(* No mailbox leaks: while the server runs with stale timers, a stream of  *)
(* the map that no handler is engaged with has a timer that runs, or a     *)
(* callback on its way, or is being torn down, whatever order the two      *)
(* halves of taking and returning handles interleaved in.                  *)
(***************************************************************************)
NoIdleLeak ==
    \A s \in Streams :
        /\ InMap(s)
        /\ ~disabled
        /\ ~stopped
        /\ \A h \in Handlers : ~Engaged(h, s)
        => \/ timer[s] = "armed"
           \/ fired[s] > 0
           \/ pending = s
           \/ job.stream = s

(***************************************************************************)
(* tearDown closes the quit channel of a stream, and a second close        *)
(* panics.  Deleting the entry under the same lock makes sure that no      *)
(* stream is torn down twice, as long as Stop, which deletes nothing, was  *)
(* not called.                                                             *)
(***************************************************************************)
PanicOnlyAfterStop == crashed => stopped

\* A stream that is out of the map is closed for good and its goroutines
\* are gone: no teardown path leaks the copier or the reader goroutine.
RemovedIsClosed ==
    \A s \in Streams :
        idOf[s] # NoId /\ ~InMap(s) => closed[s] /\ ~running[s]

\* Whoever holds h.Lock to tear streams down releases it: wg.Wait under the
\* lock cannot hang the server.
TearDownCompletes == [](job # NoJob => <>(job = NoJob \/ crashed))

\* A mailbox that nobody uses any more is eventually torn down and its
\* identifier is free again.
StaleReclaimed ==
    \A s \in Streams :
        []<>(\/ ~InMap(s)
             \/ disabled
             \/ stopped
             \/ \E h \in Handlers : Engaged(h, s))
===============================================================================
