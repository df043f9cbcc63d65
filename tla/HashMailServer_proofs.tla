------------------------ MODULE HashMailServer_proofs -------------------------
(***************************************************************************)
(* Proofs about HashMailServer: its type invariant and its four safety     *)
(* invariants, for any sets of identifiers, streams and handlers.          *)
(***************************************************************************)
EXTENDS HashMailServer, TLAPS

(***************************************************************************)
(* The inductive invariant, in parts.                                      *)
(***************************************************************************)

\* Stream s is in the map, under its own identifier.
Present(s) == idOf[s] \in Ids /\ streams[idOf[s]] = s

\* The map stores a stream under the identifier it was created with.
MapOK ==
    \A id \in Ids : streams[id] # NoStream => idOf[streams[id]] = id

\* A stream object that is not allocated is blank.
FreshOK ==
    \A s \in Streams : idOf[s] = NoId =>
        /\ token[s] = {}
        /\ occupied[s] = {}
        /\ timer[s] = "off"
        /\ fired[s] = 0
        /\ pending # s
        /\ ~running[s]
        /\ ~closed[s]

\* A handler that is not idle has a handle of an allocated stream.
HandlerOK ==
    \A h \in Handlers :
        pc[h] # "idle" => strm[h] \in Streams /\ idOf[strm[h]] # NoId

\* While a teardown runs nobody else is inside the lock, and its stream, and
\* those Stop has still to tear down, are in the map.
JobOK ==
    job # NoJob =>
        /\ pending = NoStream
        /\ NoReader
        /\ Present(job.stream)
        /\ job.kind = "stop" => stopped /\ \A s \in job.todo : Present(s)
        /\ job.step = "wait" => closed[job.stream]

\* Handler h has set the flag of side sd of s and not yet cleared it.
Occupies(h, s, sd) ==
    /\ pc[h] \in {"using", "returning"}
    /\ strm[h] = s
    /\ side[h] = sd

\* A set flag belongs to a handler that will clear it; without stale timers
\* the flags are not used.
FlagOK ==
    \A s \in Streams : \A sd \in occupied[s] :
        /\ ~disabled
        /\ \E h \in Handlers : Occupies(h, s, sd)

\* A stream whose timer does not run has a callback on its way, is being
\* torn down, or has a handler that will start the timer again.
TimerOK ==
    \A s \in Streams :
        /\ Present(s)
        /\ ~disabled
        /\ ~stopped
        /\ timer[s] = "off"
        /\ fired[s] = 0
        /\ pending # s
        /\ job.stream # s
        => \E h \in Handlers, sd \in Sides : Occupies(h, s, sd)

\* A closed stream of the map is one that is being torn down, until Stop.
ClosedOK ==
    /\ \A s \in Streams :
           closed[s] /\ Present(s)
               => stopped \/ (job.stream = s /\ job.step = "wait")
    /\ crashed => stopped

\* A stream that has left the map is closed and its goroutines are gone.
GoneOK ==
    \A s \in Streams :
        idOf[s] # NoId /\ ~Present(s) => closed[s] /\ ~running[s]

IInv ==
    /\ TypeOK
    /\ MapOK
    /\ FreshOK
    /\ HandlerOK
    /\ SingleHolder
    /\ JobOK
    /\ FlagOK
    /\ TimerOK
    /\ ClosedOK
    /\ GoneOK

-------------------------------------------------------------------------------
(***************************************************************************)
(* Every step preserves every part.                                        *)
(***************************************************************************)
\* The types are preserved; a callback belongs to an allocated stream.
LEMMA TypeStep ==
    ASSUME TypeOK, FreshOK, [Next]_vars
    PROVE  TypeOK'
<1> USE ConstAssumption DEF TypeOK, FreshOK, NoJob, Sides
<1>1. ASSUME NEW id \in Ids, NEW s \in Streams, NewCipherBox(id, s)
       PROVE  TypeOK'
  BY Zenon, <1>1 DEF NewCipherBox, handler, LockFree, NoWriter
<1>2. ASSUME NEW h \in Handlers, NEW id \in Ids, NEW sd \in Sides,
             TakeHandle(h, id, sd)
       PROVE  TypeOK'
  BY Zenon, <1>2 DEF TakeHandle, registry, status, NoWriter
<1>3. ASSUME NEW h \in Handlers, FinishTake(h)
       PROVE  TypeOK'
  BY <1>3 DEF FinishTake, streamTaken, StopTimer, registry, status
<1>4. ASSUME NEW h \in Handlers, ReturnHandle(h)
       PROVE  TypeOK'
  BY Zenon, <1>4 DEF ReturnHandle, registry, status
<1>5. ASSUME NEW h \in Handlers, FinishReturn(h)
       PROVE  TypeOK'
  BY <1>5 DEF FinishReturn, streamReturned, registry, status
<1>6. ASSUME NEW id \in Ids, DelCipherBox(id)
       PROVE  TypeOK'
  BY <1>6 DEF DelCipherBox, BeginTearDown, StopTimer, registry, handler,
              LockFree, NoWriter
<1>7. ASSUME NEW s \in Streams, TimerFire(s)
       PROVE  TypeOK'
  BY <1>7 DEF TimerFire, StopTimer, registry, handler
<1>8. ASSUME NEW s \in Streams, CallLock(s)
       PROVE  TypeOK'
  BY <1>8 DEF CallLock, registry, status, handler, NoWriter
<1>9. ASSUME NEW s \in Streams, TearDownStaleStream(s)
       PROVE  TypeOK'
  BY <1>9 DEF TearDownStaleStream, BeginTearDown, StopTimer, registry, handler
<1>10. ASSUME NEW s \in Streams, GoroutinesExit(s)
       PROVE  TypeOK'
  BY Zenon, <1>10 DEF GoroutinesExit, registry, status, handler
<1>11. CASE ClosePipe
  <2>1. job \in [kind : {"stale", "del", "stop"}, stream : Streams,
                 step : {"close", "wait"}, todo : SUBSET Streams]
    BY <1>11 DEF ClosePipe
  <2>2. job' \in [kind : {"stale", "del", "stop"}, stream : Streams,
                  step : {"close", "wait"}, todo : SUBSET Streams]
    BY <1>11, <2>1 DEF ClosePipe
  <2>3. closed' \in [Streams -> BOOLEAN]
    BY ZenonT(30), <1>11, <2>1 DEF ClosePipe
  <2>4. crashed' \in BOOLEAN
    BY Zenon, <1>11, Zenon DEF ClosePipe
  <2> QED BY Zenon, <1>11, <2>2, <2>3, <2>4 DEF ClosePipe, registry, status, handler
<1>12. CASE FinishTearDown
  BY Zenon, <1>12 DEF FinishTearDown, status, handler
<1>13. CASE NextTearDown
  BY <1>13 DEF NextTearDown, BeginTearDown, StopTimer, registry, handler
<1>14. CASE Stop
  BY <1>14 DEF Stop, BeginTearDown, StopTimer, registry, handler, LockFree,
              NoWriter
<1>15. CASE UNCHANGED vars
  BY Zenon, <1>15 DEF vars
<1> HIDE DEF TypeOK, FreshOK, NoJob, Sides
<1> QED BY Zenon, <1>1, <1>2, <1>3, <1>4, <1>5, <1>6, <1>7, <1>8, <1>9, <1>10, <1>11,
           <1>12, <1>13, <1>14, <1>15
       DEF Next

\* Streams stay under their identifiers.
LEMMA MapStep ==
    ASSUME TypeOK, MapOK, [Next]_vars
    PROVE  MapOK'
<1> USE ConstAssumption DEF TypeOK, MapOK, NoJob
<1>1. ASSUME NEW id \in Ids, NEW s \in Streams, NewCipherBox(id, s)
       PROVE  MapOK'
  BY <1>1 DEF NewCipherBox, handler, LockFree, NoWriter
<1>2. ASSUME NEW h \in Handlers, NEW id \in Ids, NEW sd \in Sides,
             TakeHandle(h, id, sd)
       PROVE  MapOK'
  BY Zenon, <1>2 DEF TakeHandle, registry, status, NoWriter
<1>3. ASSUME NEW h \in Handlers, FinishTake(h)
       PROVE  MapOK'
  BY Zenon, <1>3 DEF FinishTake, streamTaken, StopTimer, registry, status
<1>4. ASSUME NEW h \in Handlers, ReturnHandle(h)
       PROVE  MapOK'
  BY Zenon, <1>4 DEF ReturnHandle, registry, status
<1>5. ASSUME NEW h \in Handlers, FinishReturn(h)
       PROVE  MapOK'
  BY Zenon, <1>5 DEF FinishReturn, streamReturned, registry, status
<1>6. ASSUME NEW id \in Ids, DelCipherBox(id)
       PROVE  MapOK'
  BY Zenon, <1>6 DEF DelCipherBox, BeginTearDown, StopTimer, registry, handler,
              LockFree, NoWriter
<1>7. ASSUME NEW s \in Streams, TimerFire(s)
       PROVE  MapOK'
  BY Zenon, <1>7 DEF TimerFire, StopTimer, registry, handler
<1>8. ASSUME NEW s \in Streams, CallLock(s)
       PROVE  MapOK'
  BY Zenon, <1>8 DEF CallLock, registry, status, handler, NoWriter
<1>9. ASSUME NEW s \in Streams, TearDownStaleStream(s)
       PROVE  MapOK'
  BY Zenon, <1>9 DEF TearDownStaleStream, BeginTearDown, StopTimer, registry, handler
<1>10. ASSUME NEW s \in Streams, GoroutinesExit(s)
       PROVE  MapOK'
  BY Zenon, <1>10 DEF GoroutinesExit, registry, status, handler
<1>11. CASE ClosePipe
  BY Zenon, <1>11 DEF ClosePipe, registry, status, handler
<1>12. CASE FinishTearDown
  BY Zenon, <1>12 DEF FinishTearDown, status, handler
<1>13. CASE NextTearDown
  BY Zenon, <1>13 DEF NextTearDown, BeginTearDown, StopTimer, registry, handler
<1>14. CASE Stop
  BY Zenon, <1>14 DEF Stop, BeginTearDown, StopTimer, registry, handler, LockFree,
              NoWriter
<1>15. CASE UNCHANGED vars
  BY Zenon, <1>15 DEF vars
<1> HIDE DEF TypeOK, MapOK, NoJob
<1> QED BY Zenon, <1>1, <1>2, <1>3, <1>4, <1>5, <1>6, <1>7, <1>8, <1>9, <1>10, <1>11,
           <1>12, <1>13, <1>14, <1>15
       DEF Next

\* Only NewCipherBox touches an object that is not allocated.
LEMMA FreshStep ==
    ASSUME TypeOK, MapOK, FreshOK, HandlerOK, JobOK, [Next]_vars
    PROVE  FreshOK'
<1> USE ConstAssumption DEF TypeOK, MapOK, FreshOK, HandlerOK, JobOK, Present,
        NoJob
<1>1. ASSUME NEW id \in Ids, NEW s \in Streams, NewCipherBox(id, s)
       PROVE  FreshOK'
  BY <1>1 DEF NewCipherBox, handler, LockFree, NoWriter
<1>2. ASSUME NEW h \in Handlers, NEW id \in Ids, NEW sd \in Sides,
             TakeHandle(h, id, sd)
       PROVE  FreshOK'
  BY <1>2 DEF TakeHandle, registry, status, NoWriter
<1>3. ASSUME NEW h \in Handlers, FinishTake(h)
       PROVE  FreshOK'
  BY <1>3 DEF FinishTake, streamTaken, StopTimer, registry, status
<1>4. ASSUME NEW h \in Handlers, ReturnHandle(h)
       PROVE  FreshOK'
  BY Zenon, <1>4 DEF ReturnHandle, registry, status
<1>5. ASSUME NEW h \in Handlers, FinishReturn(h)
       PROVE  FreshOK'
  BY <1>5 DEF FinishReturn, streamReturned, registry, status
<1>6. ASSUME NEW id \in Ids, DelCipherBox(id)
       PROVE  FreshOK'
  BY <1>6 DEF DelCipherBox, BeginTearDown, StopTimer, registry, handler,
              LockFree, NoWriter
<1>7. ASSUME NEW s \in Streams, TimerFire(s)
       PROVE  FreshOK'
  BY Zenon, <1>7 DEF TimerFire, StopTimer, registry, handler
<1>8. ASSUME NEW s \in Streams, CallLock(s)
       PROVE  FreshOK'
  BY <1>8 DEF CallLock, registry, status, handler, NoWriter
<1>9. ASSUME NEW s \in Streams, TearDownStaleStream(s)
       PROVE  FreshOK'
  BY <1>9 DEF TearDownStaleStream, BeginTearDown, StopTimer, registry, handler
<1>10. ASSUME NEW s \in Streams, GoroutinesExit(s)
       PROVE  FreshOK'
  BY <1>10 DEF GoroutinesExit, registry, status, handler
<1>11. CASE ClosePipe
  BY <1>11 DEF ClosePipe, registry, status, handler
<1>12. CASE FinishTearDown
  BY Zenon, <1>12 DEF FinishTearDown, status, handler
<1>13. CASE NextTearDown
  BY <1>13 DEF NextTearDown, BeginTearDown, StopTimer, registry, handler
<1>14. CASE Stop
  BY <1>14 DEF Stop, BeginTearDown, StopTimer, registry, handler, LockFree,
              NoWriter
<1>15. CASE UNCHANGED vars
  BY Zenon, <1>15 DEF vars
<1> HIDE DEF TypeOK, MapOK, FreshOK, HandlerOK, JobOK, Present, NoJob
<1> QED BY Zenon, <1>1, <1>2, <1>3, <1>4, <1>5, <1>6, <1>7, <1>8, <1>9, <1>10, <1>11,
           <1>12, <1>13, <1>14, <1>15
       DEF Next

\* Handles come from streams of the map.
LEMMA HandlerStep ==
    ASSUME TypeOK, MapOK, HandlerOK, [Next]_vars
    PROVE  HandlerOK'
<1> USE ConstAssumption DEF TypeOK, MapOK, HandlerOK
<1>1. ASSUME NEW id \in Ids, NEW s \in Streams, NewCipherBox(id, s)
       PROVE  HandlerOK'
  BY Zenon, <1>1 DEF NewCipherBox, handler, LockFree, NoWriter
<1>2. ASSUME NEW h \in Handlers, NEW id \in Ids, NEW sd \in Sides,
             TakeHandle(h, id, sd)
       PROVE  HandlerOK'
  BY <1>2 DEF TakeHandle, registry, status, NoWriter
<1>3. ASSUME NEW h \in Handlers, FinishTake(h)
       PROVE  HandlerOK'
  BY Zenon, <1>3 DEF FinishTake, streamTaken, StopTimer, registry, status
<1>4. ASSUME NEW h \in Handlers, ReturnHandle(h)
       PROVE  HandlerOK'
  BY Zenon, <1>4 DEF ReturnHandle, registry, status
<1>5. ASSUME NEW h \in Handlers, FinishReturn(h)
       PROVE  HandlerOK'
  BY Zenon, <1>5 DEF FinishReturn, streamReturned, registry, status
<1>6. ASSUME NEW id \in Ids, DelCipherBox(id)
       PROVE  HandlerOK'
  BY Zenon, <1>6 DEF DelCipherBox, BeginTearDown, StopTimer, registry, handler,
              LockFree, NoWriter
<1>7. ASSUME NEW s \in Streams, TimerFire(s)
       PROVE  HandlerOK'
  BY Zenon, <1>7 DEF TimerFire, StopTimer, registry, handler
<1>8. ASSUME NEW s \in Streams, CallLock(s)
       PROVE  HandlerOK'
  BY Zenon, <1>8 DEF CallLock, registry, status, handler, NoWriter
<1>9. ASSUME NEW s \in Streams, TearDownStaleStream(s)
       PROVE  HandlerOK'
  BY Zenon, <1>9 DEF TearDownStaleStream, BeginTearDown, StopTimer, registry, handler
<1>10. ASSUME NEW s \in Streams, GoroutinesExit(s)
       PROVE  HandlerOK'
  BY Zenon, <1>10 DEF GoroutinesExit, registry, status, handler
<1>11. CASE ClosePipe
  BY Zenon, <1>11 DEF ClosePipe, registry, status, handler
<1>12. CASE FinishTearDown
  BY Zenon, <1>12 DEF FinishTearDown, status, handler
<1>13. CASE NextTearDown
  BY Zenon, <1>13 DEF NextTearDown, BeginTearDown, StopTimer, registry, handler
<1>14. CASE Stop
  BY Zenon, <1>14 DEF Stop, BeginTearDown, StopTimer, registry, handler, LockFree,
              NoWriter
<1>15. CASE UNCHANGED vars
  BY Zenon, <1>15 DEF vars
<1> HIDE DEF TypeOK, MapOK, HandlerOK
<1> QED BY Zenon, <1>1, <1>2, <1>3, <1>4, <1>5, <1>6, <1>7, <1>8, <1>9, <1>10, <1>11,
           <1>12, <1>13, <1>14, <1>15
       DEF Next

\* A handle is in its channel or with one handler.
LEMMA HolderStep ==
    ASSUME TypeOK, MapOK, FreshOK, HandlerOK, SingleHolder, [Next]_vars
    PROVE  SingleHolder'
<1> USE ConstAssumption DEF TypeOK, MapOK, FreshOK, HandlerOK, SingleHolder,
        Holds, Sides
<1>1. ASSUME NEW id \in Ids, NEW s \in Streams, NewCipherBox(id, s)
       PROVE  SingleHolder'
  BY <1>1 DEF NewCipherBox, handler, LockFree, NoWriter
<1>2. ASSUME NEW h \in Handlers, NEW id \in Ids, NEW sd \in Sides,
             TakeHandle(h, id, sd)
       PROVE  SingleHolder'
  BY <1>2 DEF TakeHandle, registry, status, NoWriter
<1>3. ASSUME NEW h \in Handlers, FinishTake(h)
       PROVE  SingleHolder'
  BY <1>3 DEF FinishTake, streamTaken, StopTimer, registry, status
<1>4. ASSUME NEW h \in Handlers, ReturnHandle(h)
       PROVE  SingleHolder'
  BY <1>4 DEF ReturnHandle, registry, status
<1>5. ASSUME NEW h \in Handlers, FinishReturn(h)
       PROVE  SingleHolder'
  BY <1>5 DEF FinishReturn, streamReturned, registry, status
<1>6. ASSUME NEW id \in Ids, DelCipherBox(id)
       PROVE  SingleHolder'
  BY <1>6 DEF DelCipherBox, BeginTearDown, StopTimer, registry, handler,
              LockFree, NoWriter
<1>7. ASSUME NEW s \in Streams, TimerFire(s)
       PROVE  SingleHolder'
  BY <1>7 DEF TimerFire, StopTimer, registry, handler
<1>8. ASSUME NEW s \in Streams, CallLock(s)
       PROVE  SingleHolder'
  BY <1>8 DEF CallLock, registry, status, handler, NoWriter
<1>9. ASSUME NEW s \in Streams, TearDownStaleStream(s)
       PROVE  SingleHolder'
  BY <1>9 DEF TearDownStaleStream, BeginTearDown, StopTimer, registry, handler
<1>10. ASSUME NEW s \in Streams, GoroutinesExit(s)
       PROVE  SingleHolder'
  BY <1>10 DEF GoroutinesExit, registry, status, handler
<1>11. CASE ClosePipe
  BY <1>11 DEF ClosePipe, registry, status, handler
<1>12. CASE FinishTearDown
  BY <1>12 DEF FinishTearDown, status, handler
<1>13. CASE NextTearDown
  BY <1>13 DEF NextTearDown, BeginTearDown, StopTimer, registry, handler
<1>14. CASE Stop
  BY <1>14 DEF Stop, BeginTearDown, StopTimer, registry, handler, LockFree,
              NoWriter
<1>15. CASE UNCHANGED vars
  BY <1>15 DEF vars
<1> HIDE DEF TypeOK, MapOK, FreshOK, HandlerOK, SingleHolder, Holds, Sides
<1> QED BY Zenon, <1>1, <1>2, <1>3, <1>4, <1>5, <1>6, <1>7, <1>8, <1>9, <1>10, <1>11,
           <1>12, <1>13, <1>14, <1>15
       DEF Next

\* The lock protects a teardown.
LEMMA JobStep ==
    ASSUME TypeOK, MapOK, FreshOK, JobOK, [Next]_vars
    PROVE  JobOK'
<1> USE ConstAssumption DEF TypeOK, MapOK, FreshOK, JobOK, Present, NoReader,
        NoJob
<1>1. ASSUME NEW id \in Ids, NEW s \in Streams, NewCipherBox(id, s)
       PROVE  JobOK'
  BY Zenon, <1>1 DEF NewCipherBox, handler, LockFree, NoWriter
<1>2. ASSUME NEW h \in Handlers, NEW id \in Ids, NEW sd \in Sides,
             TakeHandle(h, id, sd)
       PROVE  JobOK'
  BY Zenon, <1>2 DEF TakeHandle, registry, status, NoWriter
<1>3. ASSUME NEW h \in Handlers, FinishTake(h)
       PROVE  JobOK'
  BY Zenon, <1>3 DEF FinishTake, streamTaken, StopTimer, registry, status
<1>4. ASSUME NEW h \in Handlers, ReturnHandle(h)
       PROVE  JobOK'
  BY <1>4 DEF ReturnHandle, registry, status
<1>5. ASSUME NEW h \in Handlers, FinishReturn(h)
       PROVE  JobOK'
  BY <1>5 DEF FinishReturn, streamReturned, registry, status
<1>6. ASSUME NEW id \in Ids, DelCipherBox(id)
       PROVE  JobOK'
  BY Zenon, <1>6 DEF DelCipherBox, BeginTearDown, StopTimer, registry, handler,
              LockFree, NoWriter
<1>7. ASSUME NEW s \in Streams, TimerFire(s)
       PROVE  JobOK'
  BY Zenon, <1>7 DEF TimerFire, StopTimer, registry, handler
<1>8. ASSUME NEW s \in Streams, CallLock(s)
       PROVE  JobOK'
  BY Zenon, <1>8 DEF CallLock, registry, status, handler, NoWriter
<1>9. ASSUME NEW s \in Streams, TearDownStaleStream(s)
       PROVE  JobOK'
  BY <1>9 DEF TearDownStaleStream, BeginTearDown, StopTimer, registry, handler
<1>10. ASSUME NEW s \in Streams, GoroutinesExit(s)
       PROVE  JobOK'
  BY Zenon, <1>10 DEF GoroutinesExit, registry, status, handler
<1>11. CASE ClosePipe
  BY <1>11 DEF ClosePipe, registry, status, handler
<1>12. CASE FinishTearDown
  BY Zenon, <1>12 DEF FinishTearDown, status, handler
<1>13. CASE NextTearDown
  BY <1>13 DEF NextTearDown, BeginTearDown, StopTimer, registry, handler
<1>14. CASE Stop
  BY <1>14 DEF Stop, BeginTearDown, StopTimer, registry, handler, LockFree,
              NoWriter, InMap
<1>15. CASE UNCHANGED vars
  BY Zenon, <1>15 DEF vars
<1> HIDE DEF TypeOK, MapOK, FreshOK, JobOK, Present, NoReader, NoJob
<1> QED BY Zenon, <1>1, <1>2, <1>3, <1>4, <1>5, <1>6, <1>7, <1>8, <1>9, <1>10, <1>11,
           <1>12, <1>13, <1>14, <1>15
       DEF Next

\* A flag is set by a handler that has still to clear it.
LEMMA FlagStep ==
    ASSUME TypeOK, FreshOK, HandlerOK, FlagOK, [Next]_vars
    PROVE  FlagOK'
<1> USE ConstAssumption DEF TypeOK, FlagOK, FreshOK, Occupies, Sides
<1>1. ASSUME NEW id \in Ids, NEW s \in Streams, NewCipherBox(id, s)
       PROVE  FlagOK'
  BY <1>1 DEF NewCipherBox, handler, LockFree, NoWriter
<1>2. ASSUME NEW h \in Handlers, NEW id \in Ids, NEW sd \in Sides,
             TakeHandle(h, id, sd)
       PROVE  FlagOK'
  BY <1>2 DEF TakeHandle, registry, status, NoWriter
<1>3. ASSUME NEW h \in Handlers, FinishTake(h)
       PROVE  FlagOK'
  BY <1>3 DEF FinishTake, streamTaken, StopTimer, registry, status
<1>4. ASSUME NEW h \in Handlers, ReturnHandle(h)
       PROVE  FlagOK'
  BY <1>4 DEF ReturnHandle, registry, status
<1>5. ASSUME NEW h \in Handlers, FinishReturn(h)
       PROVE  FlagOK'
  BY <1>5 DEF FinishReturn, streamReturned, registry, status
<1>6. ASSUME NEW id \in Ids, DelCipherBox(id)
       PROVE  FlagOK'
  BY <1>6 DEF DelCipherBox, BeginTearDown, StopTimer, registry, handler,
              LockFree, NoWriter
<1>7. ASSUME NEW s \in Streams, TimerFire(s)
       PROVE  FlagOK'
  BY <1>7 DEF TimerFire, StopTimer, registry, handler
<1>8. ASSUME NEW s \in Streams, CallLock(s)
       PROVE  FlagOK'
  BY <1>8 DEF CallLock, registry, status, handler, NoWriter
<1>9. ASSUME NEW s \in Streams, TearDownStaleStream(s)
       PROVE  FlagOK'
  BY <1>9 DEF TearDownStaleStream, BeginTearDown, StopTimer, registry, handler
<1>10. ASSUME NEW s \in Streams, GoroutinesExit(s)
       PROVE  FlagOK'
  BY <1>10 DEF GoroutinesExit, registry, status, handler
<1>11. CASE ClosePipe
  BY <1>11 DEF ClosePipe, registry, status, handler
<1>12. CASE FinishTearDown
  BY <1>12 DEF FinishTearDown, status, handler
<1>13. CASE NextTearDown
  BY <1>13 DEF NextTearDown, BeginTearDown, StopTimer, registry, handler
<1>14. CASE Stop
  BY <1>14 DEF Stop, BeginTearDown, StopTimer, registry, handler, LockFree,
              NoWriter
<1>15. CASE UNCHANGED vars
  BY <1>15 DEF vars
<1> HIDE DEF TypeOK, FlagOK, FreshOK, Occupies, Sides
<1> QED BY Zenon, <1>1, <1>2, <1>3, <1>4, <1>5, <1>6, <1>7, <1>8, <1>9, <1>10, <1>11,
           <1>12, <1>13, <1>14, <1>15
       DEF Next

\* Nothing stops the timer of an idle stream without a successor.
LEMMA TimerStep ==
    ASSUME TypeOK, MapOK, FreshOK, HandlerOK, JobOK, FlagOK, TimerOK,
           [Next]_vars
    PROVE  TimerOK'
<1> USE ConstAssumption DEF TypeOK, MapOK, JobOK, FlagOK, TimerOK, Occupies,
        Present, Sides, NoJob
<1>1. ASSUME NEW id \in Ids, NEW s \in Streams, NewCipherBox(id, s)
       PROVE  TimerOK'
  BY <1>1 DEF NewCipherBox, handler, LockFree, NoWriter
<1>2. ASSUME NEW h \in Handlers, NEW id \in Ids, NEW sd \in Sides,
             TakeHandle(h, id, sd)
       PROVE  TimerOK'
  BY <1>2 DEF TakeHandle, registry, status, NoWriter
<1>3. ASSUME NEW h \in Handlers, FinishTake(h)
       PROVE  TimerOK'
  BY <1>3 DEF FinishTake, streamTaken, StopTimer, registry, status
<1>4. ASSUME NEW h \in Handlers, ReturnHandle(h)
       PROVE  TimerOK'
  BY <1>4 DEF ReturnHandle, registry, status
<1>5. ASSUME NEW h \in Handlers, FinishReturn(h)
       PROVE  TimerOK'
  BY <1>5 DEF FinishReturn, streamReturned, registry, status
<1>6. ASSUME NEW id \in Ids, DelCipherBox(id)
       PROVE  TimerOK'
  BY <1>6 DEF DelCipherBox, BeginTearDown, StopTimer, registry, handler,
              LockFree, NoWriter
<1>7. ASSUME NEW s \in Streams, TimerFire(s)
       PROVE  TimerOK'
  BY <1>7 DEF TimerFire, StopTimer, registry, handler
<1>8. ASSUME NEW s \in Streams, CallLock(s)
       PROVE  TimerOK'
  BY <1>8 DEF CallLock, registry, status, handler, NoWriter
<1>9. ASSUME NEW s \in Streams, TearDownStaleStream(s)
       PROVE  TimerOK'
  BY <1>9 DEF TearDownStaleStream, BeginTearDown, StopTimer, registry, handler
<1>10. ASSUME NEW s \in Streams, GoroutinesExit(s)
       PROVE  TimerOK'
  BY <1>10 DEF GoroutinesExit, registry, status, handler
<1>11. CASE ClosePipe
  BY <1>11 DEF ClosePipe, registry, status, handler
<1>12. CASE FinishTearDown
  BY <1>12 DEF FinishTearDown, status, handler
<1>13. CASE NextTearDown
  BY <1>13 DEF NextTearDown, BeginTearDown, StopTimer, registry, handler
<1>14. CASE Stop
  BY Zenon, <1>14 DEF Stop, BeginTearDown, StopTimer, registry, handler, LockFree,
              NoWriter
<1>15. CASE UNCHANGED vars
  BY <1>15 DEF vars
<1> HIDE DEF TypeOK, MapOK, JobOK, FlagOK, TimerOK, Occupies, Present, Sides,
        NoJob
<1> QED BY Zenon, <1>1, <1>2, <1>3, <1>4, <1>5, <1>6, <1>7, <1>8, <1>9, <1>10, <1>11,
           <1>12, <1>13, <1>14, <1>15
       DEF Next

\* A stream is closed once, by the teardown that removes it.
LEMMA ClosedStep ==
    ASSUME TypeOK, MapOK, FreshOK, JobOK, ClosedOK, [Next]_vars
    PROVE  ClosedOK'
<1> USE ConstAssumption DEF TypeOK, MapOK, FreshOK, JobOK, ClosedOK, Present,
        NoJob
<1>1. ASSUME NEW id \in Ids, NEW s \in Streams, NewCipherBox(id, s)
       PROVE  ClosedOK'
  BY <1>1 DEF NewCipherBox, handler, LockFree, NoWriter
<1>2. ASSUME NEW h \in Handlers, NEW id \in Ids, NEW sd \in Sides,
             TakeHandle(h, id, sd)
       PROVE  ClosedOK'
  BY Zenon, <1>2 DEF TakeHandle, registry, status, NoWriter
<1>3. ASSUME NEW h \in Handlers, FinishTake(h)
       PROVE  ClosedOK'
  BY Zenon, <1>3 DEF FinishTake, streamTaken, StopTimer, registry, status
<1>4. ASSUME NEW h \in Handlers, ReturnHandle(h)
       PROVE  ClosedOK'
  BY Zenon, <1>4 DEF ReturnHandle, registry, status
<1>5. ASSUME NEW h \in Handlers, FinishReturn(h)
       PROVE  ClosedOK'
  BY Zenon, <1>5 DEF FinishReturn, streamReturned, registry, status
<1>6. ASSUME NEW id \in Ids, DelCipherBox(id)
       PROVE  ClosedOK'
  BY Zenon, <1>6 DEF DelCipherBox, BeginTearDown, StopTimer, registry, handler,
              LockFree, NoWriter
<1>7. ASSUME NEW s \in Streams, TimerFire(s)
       PROVE  ClosedOK'
  BY Zenon, <1>7 DEF TimerFire, StopTimer, registry, handler
<1>8. ASSUME NEW s \in Streams, CallLock(s)
       PROVE  ClosedOK'
  BY Zenon, <1>8 DEF CallLock, registry, status, handler, NoWriter
<1>9. ASSUME NEW s \in Streams, TearDownStaleStream(s)
       PROVE  ClosedOK'
  BY <1>9 DEF TearDownStaleStream, BeginTearDown, StopTimer, registry, handler
<1>10. ASSUME NEW s \in Streams, GoroutinesExit(s)
       PROVE  ClosedOK'
  BY Zenon, <1>10 DEF GoroutinesExit, registry, status, handler
<1>11. CASE ClosePipe
  BY <1>11 DEF ClosePipe, registry, status, handler
<1>12. CASE FinishTearDown
  BY <1>12 DEF FinishTearDown, status, handler
<1>13. CASE NextTearDown
  BY <1>13 DEF NextTearDown, BeginTearDown, StopTimer, registry, handler
<1>14. CASE Stop
  BY Zenon, <1>14 DEF Stop, BeginTearDown, StopTimer, registry, handler, LockFree,
              NoWriter
<1>15. CASE UNCHANGED vars
  BY Zenon, <1>15 DEF vars
<1> HIDE DEF TypeOK, MapOK, FreshOK, JobOK, ClosedOK, Present, NoJob
<1> QED BY Zenon, <1>1, <1>2, <1>3, <1>4, <1>5, <1>6, <1>7, <1>8, <1>9, <1>10, <1>11,
           <1>12, <1>13, <1>14, <1>15
       DEF Next

\* A stream leaves the map closed and with its goroutines gone.
LEMMA GoneStep ==
    ASSUME TypeOK, MapOK, FreshOK, JobOK, GoneOK, [Next]_vars
    PROVE  GoneOK'
<1> USE ConstAssumption DEF TypeOK, MapOK, FreshOK, JobOK, GoneOK, Present,
        NoJob
<1>1. ASSUME NEW id \in Ids, NEW s \in Streams, NewCipherBox(id, s)
       PROVE  GoneOK'
  <2>1. idOf'[s] = id /\ streams'[id] = s
    BY <1>1 DEF NewCipherBox
  <2>2. ASSUME NEW t \in Streams, t # s
        PROVE  idOf'[t] = idOf[t] /\ (Present(t) => Present(t)')
    BY <1>1, <2>2 DEF NewCipherBox
  <2> QED BY <1>1, <2>1, <2>2 DEF NewCipherBox
<1>2. ASSUME NEW h \in Handlers, NEW id \in Ids, NEW sd \in Sides,
             TakeHandle(h, id, sd)
       PROVE  GoneOK'
  BY Zenon, <1>2 DEF TakeHandle, registry, status, NoWriter
<1>3. ASSUME NEW h \in Handlers, FinishTake(h)
       PROVE  GoneOK'
  BY Zenon, <1>3 DEF FinishTake, streamTaken, StopTimer, registry, status
<1>4. ASSUME NEW h \in Handlers, ReturnHandle(h)
       PROVE  GoneOK'
  BY Zenon, <1>4 DEF ReturnHandle, registry, status
<1>5. ASSUME NEW h \in Handlers, FinishReturn(h)
       PROVE  GoneOK'
  BY Zenon, <1>5 DEF FinishReturn, streamReturned, registry, status
<1>6. ASSUME NEW id \in Ids, DelCipherBox(id)
       PROVE  GoneOK'
  BY Zenon, <1>6 DEF DelCipherBox, BeginTearDown, StopTimer, registry, handler,
              LockFree, NoWriter
<1>7. ASSUME NEW s \in Streams, TimerFire(s)
       PROVE  GoneOK'
  BY Zenon, <1>7 DEF TimerFire, StopTimer, registry, handler
<1>8. ASSUME NEW s \in Streams, CallLock(s)
       PROVE  GoneOK'
  BY Zenon, <1>8 DEF CallLock, registry, status, handler, NoWriter
<1>9. ASSUME NEW s \in Streams, TearDownStaleStream(s)
       PROVE  GoneOK'
  BY Zenon, <1>9 DEF TearDownStaleStream, BeginTearDown, StopTimer, registry, handler
<1>10. ASSUME NEW s \in Streams, GoroutinesExit(s)
       PROVE  GoneOK'
  BY <1>10 DEF GoroutinesExit, registry, status, handler
<1>11. CASE ClosePipe
  BY <1>11 DEF ClosePipe, registry, status, handler
<1>12. CASE FinishTearDown
  <2>1. job # NoJob /\ closed[job.stream] /\ ~running[job.stream]
    BY <1>12 DEF FinishTearDown
  <2>2. ASSUME NEW t \in Streams, t # job.stream, Present(t)
        PROVE  Present(t)'
    BY <1>12, <2>1, <2>2 DEF FinishTearDown
  <2> QED BY <1>12, <2>1, <2>2 DEF FinishTearDown
<1>13. CASE NextTearDown
  BY Zenon, <1>13 DEF NextTearDown, BeginTearDown, StopTimer, registry, handler
<1>14. CASE Stop
  BY Zenon, <1>14 DEF Stop, BeginTearDown, StopTimer, registry, handler, LockFree,
              NoWriter
<1>15. CASE UNCHANGED vars
  BY Zenon, <1>15 DEF vars
<1> HIDE DEF TypeOK, MapOK, FreshOK, JobOK, GoneOK, Present, NoJob
<1> QED BY Zenon, <1>1, <1>2, <1>3, <1>4, <1>5, <1>6, <1>7, <1>8, <1>9, <1>10, <1>11,
           <1>12, <1>13, <1>14, <1>15
       DEF Next

-------------------------------------------------------------------------------
\* The initial state, before any operation, satisfies the invariant.
LEMMA InitIInv == Init => IInv
<1> SUFFICES ASSUME Init PROVE IInv
  BY Zenon
<1> USE ConstAssumption DEF Init
<1>1. TypeOK
  <2>1. /\ closed \in [Streams -> BOOLEAN]
        /\ running \in [Streams -> BOOLEAN]
        /\ disabled \in BOOLEAN /\ stopped \in BOOLEAN /\ crashed \in BOOLEAN
    BY Zenon
  <2> QED BY <2>1 DEF TypeOK, Sides
<1>2. MapOK /\ FreshOK /\ HandlerOK
  BY Zenon DEF MapOK, FreshOK, HandlerOK
<1>3. SingleHolder
  BY Zenon DEF SingleHolder, Holds
<1>4. JobOK /\ FlagOK
  BY Zenon DEF JobOK, FlagOK
<1>5. TimerOK /\ ClosedOK /\ GoneOK
  BY Zenon DEF TimerOK, ClosedOK, GoneOK, Present
<1> QED BY Zenon, <1>1, <1>2, <1>3, <1>4, <1>5 DEF IInv

\* The parts together are inductive.
LEMMA NextIInv == IInv /\ [Next]_vars => IInv'
  BY Zenon, TypeStep, MapStep, FreshStep, HandlerStep, HolderStep, JobStep, FlagStep,
     TimerStep, ClosedStep, GoneStep
  DEF IInv

\* The invariant holds in every state the code reaches.
LEMMA Invariance == Spec => []IInv
  BY InitIInv, NextIInv, PTL DEF Spec

\* Being in the map is being there under one's own identifier.
LEMMA InMapPresent ==
    ASSUME TypeOK, MapOK, NEW s \in Streams
    PROVE  InMap(s) <=> Present(s)
  BY ConstAssumption DEF TypeOK, MapOK, InMap, Present

(***************************************************************************)
(* The variables keep their types, in particular a teardown always has a   *)
(* stream to tear down (TearDownStream and tearDownStaleStream look it up  *)
(* first).                                                                 *)
(***************************************************************************)
THEOREM TypeCorrect == Spec => []TypeOK
<1>1. IInv => TypeOK
  BY Zenon DEF IInv
<1> QED BY <1>1, Invariance, PTL

(***************************************************************************)
(* RequestReadStream, RequestWriteStream, ReturnReadStream and             *)
(* ReturnWriteStream keep one reader and one writer per stream and lose    *)
(* neither handle, across every interleaving with teardowns.               *)
(***************************************************************************)
THEOREM SingleHolderHolds == Spec => []SingleHolder
<1>1. IInv => SingleHolder
  BY Zenon DEF IInv
<1> QED BY <1>1, Invariance, PTL

(***************************************************************************)
(* streamTaken and streamReturned run outside the lock that orders the     *)
(* holding channels, and still never leave an unused stream of the map     *)
(* without a running stale timer or a callback on its way.                 *)
(***************************************************************************)
THEOREM NoIdleLeakHolds == Spec => []NoIdleLeak
<1>1. IInv => NoIdleLeak
  <2> SUFFICES ASSUME IInv,
                      NEW s \in Streams, InMap(s), ~disabled, ~stopped,
                      \A h \in Handlers : ~Engaged(h, s)
               PROVE  \/ timer[s] = "armed" \/ fired[s] > 0
                      \/ pending = s \/ job.stream = s
    BY Zenon DEF NoIdleLeak
  <2>1. Present(s)
    BY Zenon, InMapPresent DEF IInv
  <2>2. \A h \in Handlers, sd \in Sides : ~Occupies(h, s, sd)
    BY Zenon DEF Engaged, Occupies
  <2> QED BY <2>1, <2>2, ConstAssumption DEF IInv, TimerOK, TypeOK
<1> QED BY <1>1, Invariance, PTL

(***************************************************************************)
(* Until hashMailServer.Stop is called no stream is torn down twice: the   *)
(* close of stream.quit in tearDown does not panic.                        *)
(***************************************************************************)
THEOREM PanicOnlyAfterStopHolds == Spec => []PanicOnlyAfterStop
<1>1. IInv => PanicOnlyAfterStop
  BY Zenon DEF IInv, ClosedOK, PanicOnlyAfterStop
<1> QED BY <1>1, Invariance, PTL

(***************************************************************************)
(* A stream leaves the map only after tearDown has closed it and waited    *)
(* for its goroutines.                                                     *)
(***************************************************************************)
THEOREM RemovedIsClosedHolds == Spec => []RemovedIsClosed
<1>1. IInv => RemovedIsClosed
  BY Zenon, InMapPresent DEF IInv, GoneOK, RemovedIsClosed
<1> QED BY <1>1, Invariance, PTL
===============================================================================
