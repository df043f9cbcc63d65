---------------------------- MODULE HashMailStream ----------------------------
(***************************************************************************)
(* The data path of one mailbox (newStream, WriteMsg, ReadNextMsg,         *)
(* SendStream and RecvStream of src/hashmail_server.go):                   *)
(*                                                                         *)
(*   SendStream --pipe 1--> copier --pipe 2--> reader --chan--> RecvStream *)
(*                                                                         *)
(* An io.Pipe holds no bytes: a Write waits until Reads have consumed all  *)
(* of it.  Bytes are named by their offset in the stream, so a buffer is   *)
(* an interval of offsets, and message k ends at offset ends[k].  A        *)
(* message's length below is the length of its encoding: the length prefix *)
(* that WriteMsg puts in front of it and its payload.                      *)
(*                                                                         *)
(* Only one handler has the write handle, and one the read handle, at a    *)
(* time (HashMailServer), so there is one sender and one receiver, each of *)
(* which may hang up and be replaced.                                      *)
(*                                                                         *)
(* An operator whose name ends in _bug is its neighbour with a plausible   *)
(* mistake in it, no part of the specification.                            *)
(***************************************************************************)
EXTENDS Naturals, Sequences, FiniteSetsExt

CONSTANTS Lengths,    \* lengths of encoded messages
          BufSize,    \* DefaultBufSize, the reader's buffer
          CopySize,   \* the buffer of io.Copy
          MaxMsgs     \* bound: messages written in a behaviour

ASSUME SizeAssumption ==
    /\ Lengths \subseteq Nat \ {0}
    /\ BufSize \in Nat \ {0}
    /\ \E n \in 1 .. CopySize : CopySize = n * BufSize
    /\ MaxMsgs \in Nat

VARIABLES
    ends,       \* end offset of every message handed to the pipe
    snd,        \* SendStream: none, recv (from its client), limit, write
    sgone,      \* the sending client has hung up
    acked1,     \* offset up to which pipe 1 was read
    cp,         \* the copier goroutine: read, write, exited
    acked2,     \* offset up to which pipe 2 was read
    rg,         \* the reader goroutine: read, more, offer, exited
    from,       \* the buffer c of the reader is from .. acked2 - 1
    readErr,    \* readErrChan holds an error
    rcv,        \* RecvStream: none, read, send
    rgone,      \* the receiving client has hung up
    msg,        \* what ReadNextMsg returned to the receiver last
    received,   \* history: what ReadNextMsg returned
    closed1,    \* the write end of pipe 1 is closed
    closed2,    \* pipe 2 is closed
    quit,       \* stream.quit is closed
    kept        \* Stop tore the stream down and left it in the map

sender == <<ends, snd, sgone>>
receiver == <<rcv, rgone, msg, received>>
pipes == <<acked1, cp, acked2>>
reader == <<rg, from, readErr>>
shutdown == <<closed1, closed2, quit, kept>>
vars == <<sender, pipes, reader, receiver, shutdown>>

Written == IF ends = <<>> THEN 0 ELSE ends[Len(ends)]
Start(k) == IF k = 1 THEN 0 ELSE ends[k - 1]
Length(k) == ends[k] - Start(k)

NoMsg == [num |-> 0, whole |-> FALSE]

Init ==
    /\ ends = <<>> /\ snd = "none" /\ sgone = FALSE
    /\ acked1 = 0 /\ cp = "read" /\ acked2 = 0
    /\ rg = "read" /\ from = 0 /\ readErr = FALSE
    /\ rcv = "none" /\ rgone = FALSE /\ msg = NoMsg /\ received = <<>>
    /\ closed1 = FALSE /\ closed2 = FALSE /\ quit = FALSE /\ kept = FALSE

\* The stream is in the map and h.RLock can be had.  tearDown runs under
\* h.Lock until wg.Wait returns; DelCipherBox and the stale timer delete the
\* stream before they unlock, Stop does not.
InMap ==
    \/ ~closed1
    \/ kept /\ quit /\ cp = "exited" /\ rg = "exited"

-------------------------------------------------------------------------------
(***************************************************************************)
(* SendStream and WriteMsg                                                 *)
(***************************************************************************)

\* The deferred ReturnStream ends the call.
SenderExit ==
    /\ snd' = "none"
    /\ sgone' = FALSE

\* A client's first message: LookUpWriteStream hands out the write handle.
SendStream ==
    /\ snd = "none"
    /\ InMap
    /\ snd' = "limit"
    /\ UNCHANGED <<ends, sgone, pipes, reader, receiver, shutdown>>

SenderHangsUp ==
    /\ snd # "none"
    /\ sgone' = TRUE
    /\ UNCHANGED <<ends, snd, pipes, reader, receiver, shutdown>>

\* readStream.Recv returns the client's next message.
SenderRecv ==
    /\ snd = "recv"
    /\ ~sgone
    /\ snd' = "limit"
    /\ UNCHANGED <<ends, sgone, pipes, reader, receiver, shutdown>>

\* The loop sees ctx.Done, Recv fails, or limiter.Wait fails.
SenderSeesHangUp ==
    /\ snd \in {"recv", "limit"}
    /\ sgone
    /\ SenderExit
    /\ UNCHANGED <<ends, pipes, reader, receiver, shutdown>>

\* limiter.Wait has returned: length prefix and payload go out in one Write.
WriteMsg(len) ==
    /\ snd = "limit"
    /\ ~sgone
    /\ ~closed1
    /\ Len(ends) < MaxMsgs
    /\ ends' = Append(ends, Written + len)
    /\ snd' = "write"
    /\ UNCHANGED <<sgone, pipes, reader, receiver, shutdown>>

\* The copier has read the whole message.  Write does not look at ctx.
WriteReturns ==
    /\ snd = "write"
    /\ acked1 = Written
    /\ snd' = "recv"
    /\ UNCHANGED <<ends, sgone, pipes, reader, receiver, shutdown>>

\* Write on a closed pipe fails, at its start or in the middle of a message.
WriteFails ==
    /\ closed1
    /\ \/ snd = "limit" /\ ~sgone
       \/ snd = "write" /\ acked1 < Written
    /\ SenderExit
    /\ UNCHANGED <<ends, pipes, reader, receiver, shutdown>>

-------------------------------------------------------------------------------
(***************************************************************************)
(* The copier goroutine: io.Copy from pipe 1 to pipe 2                     *)
(***************************************************************************)

\* The count of a short Read is ignored.
CopierRead_bug ==
    /\ cp = "read"
    /\ ~closed1
    /\ snd = "write"
    /\ acked1 < Written
    /\ acked1' = acked1 + CopySize
    /\ cp' = "write"
    /\ UNCHANGED <<sender, acked2, reader, receiver, shutdown>>

\* One Read never returns bytes of two Writes.
CopierRead ==
    /\ cp = "read"
    /\ ~closed1
    /\ snd = "write"
    /\ acked1 < Written
    /\ acked1' = acked1 + Min({CopySize, Written - acked1})
    /\ cp' = "write"
    /\ UNCHANGED <<sender, acked2, reader, receiver, shutdown>>

CopierWriteReturns ==
    /\ cp = "write"
    /\ acked2 = acked1
    /\ cp' = "read"
    /\ UNCHANGED <<sender, acked1, acked2, reader, receiver, shutdown>>

\* io.Copy ends with EOF, and both pipes are closed.
CopierEOF ==
    /\ cp = "read"
    /\ closed1
    /\ cp' = "exited"
    /\ closed2' = TRUE
    /\ UNCHANGED <<sender, acked1, acked2, reader, receiver, closed1, quit, kept>>

-------------------------------------------------------------------------------
(***************************************************************************)
(* The reader goroutine                                                    *)
(***************************************************************************)

\* A Read that fills the buffer is taken to mean that there is more.
ReaderRead ==
    /\ rg \in {"read", "more"}
    /\ cp = "write"
    /\ acked2 < acked1
    /\ LET numBytes == Min({BufSize, acked1 - acked2})
       IN  /\ acked2' = acked2 + numBytes
           /\ rg' = IF numBytes = BufSize THEN "more" ELSE "offer"
    /\ from' = IF rg = "read" THEN acked2 ELSE from
    /\ UNCHANGED <<sender, acked1, cp, readErr, receiver, shutdown>>

ReaderEOF ==
    /\ rg \in {"read", "more"}
    /\ closed2
    /\ readErr' = TRUE
    /\ rg' = "exited"
    /\ UNCHANGED <<sender, pipes, from, receiver, shutdown>>

\* A default case in the place of quit: bytes nobody waits for are dropped.
ReaderQuit_bug ==
    /\ rg = "offer"
    /\ rg' = "read"
    /\ UNCHANGED <<sender, pipes, from, readErr, receiver, shutdown>>

\* No case for quit.
ReaderStays_bug ==
    /\ rg = "offer"
    /\ quit
    /\ UNCHANGED vars

\* select: nobody took the bytes and the stream is torn down.
ReaderQuit ==
    /\ rg = "offer"
    /\ quit
    /\ rg' = "read"
    /\ UNCHANGED <<sender, pipes, from, readErr, receiver, shutdown>>

-------------------------------------------------------------------------------
(***************************************************************************)
(* RecvStream and ReadNextMsg                                              *)
(***************************************************************************)

ReceiverExit ==
    /\ rcv' = "none"
    /\ rgone' = FALSE
    /\ msg' = NoMsg

\* LookUpReadStream hands out the read handle.
RecvStream ==
    /\ rcv = "none"
    /\ InMap
    /\ rcv' = "read"
    /\ UNCHANGED <<sender, pipes, reader, rgone, msg, received, shutdown>>

ReceiverHangsUp ==
    /\ rcv # "none"
    /\ rgone' = TRUE
    /\ UNCHANGED <<sender, pipes, reader, rcv, msg, received, shutdown>>

\* The message at the head of a buffer: the length prefix says how many bytes
\* LimitReader may take, and the rest of the buffer is dropped.
FirstMsg(lo, hi) ==
    LET starts == {k \in 1 .. Len(ends) : Start(k) = lo}
    IN  IF starts = {}
        THEN NoMsg
        ELSE LET k == Min(starts)
             IN  [num |-> k, whole |-> ends[k] <= hi]

\* The bytes are offered again.
ReadNextMsg_bug ==
    /\ rcv = "read"
    /\ rg = "offer"
    /\ msg' = FirstMsg(from, acked2)
    /\ received' = Append(received, msg')
    /\ rcv' = "send"
    /\ Len(received) < MaxMsgs
    /\ UNCHANGED <<sender, pipes, rg, from, readErr, rgone, shutdown>>

\* The reader goroutine has no outer loop.
ReadOnce_bug ==
    /\ rcv = "read"
    /\ rg = "offer"
    /\ msg' = FirstMsg(from, acked2)
    /\ received' = Append(received, msg')
    /\ rcv' = "send"
    /\ rg' = "exited"
    /\ UNCHANGED <<sender, pipes, from, readErr, rgone, shutdown>>

\* readBytesChan is unbuffered: reader goroutine and receiver meet.
ReadNextMsg ==
    /\ rcv = "read"
    /\ rg = "offer"
    /\ msg' = FirstMsg(from, acked2)
    /\ received' = Append(received, msg')
    /\ rcv' = "send"
    /\ rg' = "read"
    /\ UNCHANGED <<sender, pipes, from, readErr, rgone, shutdown>>

\* ReadNextMsg returns the error of readErrChan.
ReceiverError ==
    /\ rcv = "read"
    /\ readErr
    /\ readErr' = FALSE
    /\ ReceiverExit
    /\ UNCHANGED <<sender, pipes, rg, from, received, shutdown>>

\* ReadNextMsg does not look at ctx.
ReceiverSeesHangUp_bug ==
    /\ rcv = "read"
    /\ rgone
    /\ UNCHANGED vars

\* ctx.Done, in the loop or in ReadNextMsg.
ReceiverSeesHangUp ==
    /\ rcv = "read"
    /\ rgone
    /\ ReceiverExit
    /\ UNCHANGED <<sender, pipes, reader, received, shutdown>>

SendToClient ==
    /\ rcv = "send"
    /\ \/ ~rgone /\ rcv' = "read" /\ msg' = NoMsg /\ UNCHANGED rgone
       \/ rgone /\ ReceiverExit
    /\ UNCHANGED <<sender, pipes, reader, received, shutdown>>

-------------------------------------------------------------------------------
(***************************************************************************)
(* stream.tearDown: close the pipe, then quit.  Its caller is DelCipherBox *)
(* or the stale timer, or Stop, which keeps the stream in the map.         *)
(***************************************************************************)
TearDownClose ==
    /\ ~closed1
    /\ closed1' = TRUE
    /\ kept' \in BOOLEAN
    /\ UNCHANGED <<sender, pipes, reader, receiver, closed2, quit>>

TearDownQuit ==
    /\ closed1
    /\ ~quit
    /\ quit' = TRUE
    /\ UNCHANGED <<sender, pipes, reader, receiver, closed1, closed2, kept>>

-------------------------------------------------------------------------------
Next ==
    \/ SendStream \/ SenderHangsUp \/ SenderRecv \/ SenderSeesHangUp
    \/ \E len \in Lengths : WriteMsg(len)
    \/ WriteReturns \/ WriteFails
    \/ CopierRead \/ CopierWriteReturns \/ CopierEOF
    \/ ReaderRead \/ ReaderEOF \/ ReaderQuit
    \/ RecvStream \/ ReceiverHangsUp \/ ReadNextMsg \/ ReceiverError
    \/ ReceiverSeesHangUp \/ SendToClient
    \/ TearDownClose \/ TearDownQuit

(***************************************************************************)
(* Fairness: goroutines that can run do run, tearDown runs to its end once *)
(* begun, and a Send to a client ends one way or the other (gRPC fails it  *)
(* when the connection is gone).  Clients may stay silent, hang up, come   *)
(* and go as they like.                                                    *)
(***************************************************************************)
Fairness ==
    /\ WF_vars(SenderSeesHangUp) /\ WF_vars(WriteReturns)
    /\ WF_vars(WriteFails)
    /\ WF_vars(CopierRead) /\ WF_vars(CopierWriteReturns)
    /\ WF_vars(CopierEOF)
    /\ WF_vars(ReaderRead) /\ WF_vars(ReaderEOF) /\ WF_vars(ReaderQuit)
    /\ WF_vars(ReadNextMsg) /\ WF_vars(ReceiverError)
    /\ WF_vars(ReceiverSeesHangUp) /\ WF_vars(SendToClient)
    /\ WF_vars(TearDownQuit)

Spec == Init /\ [][Next]_vars

FairSpec == Spec /\ Fairness

-------------------------------------------------------------------------------
(***************************************************************************)
(* Properties                                                              *)
(***************************************************************************)

\* The types of the variables.
TypeOK ==
    /\ ends \in Seq(Nat) /\ Len(ends) <= MaxMsgs
    /\ snd \in {"none", "recv", "limit", "write"} /\ sgone \in BOOLEAN
    /\ acked1 \in 0 .. Written /\ acked2 \in 0 .. acked1
    /\ from \in 0 .. acked2
    /\ cp \in {"read", "write", "exited"}
    /\ rg \in {"read", "more", "offer", "exited"} /\ readErr \in BOOLEAN
    /\ rcv \in {"none", "read", "send"} /\ rgone \in BOOLEAN
    /\ msg \in [num : 0 .. MaxMsgs, whole : BOOLEAN]
    /\ received \in Seq([num : 0 .. MaxMsgs, whole : BOOLEAN])
    /\ closed1 \in BOOLEAN /\ closed2 \in BOOLEAN /\ quit \in BOOLEAN
    /\ kept \in BOOLEAN

\* What ReadNextMsg returns are whole messages, each at most once and in the
\* order they were written, across hang-ups, new receivers and tearDown.
ReceivedInOrder ==
    \A i \in 1 .. Len(received) :
        /\ received[i].whole
        /\ \A j \in 1 .. i - 1 : received[j].num < received[i].num

(***************************************************************************)
(* The reader takes a Read that fills its buffer to mean that the message  *)
(* goes on.  Until tearDown closes quit, which lets the reader drop a      *)
(* buffer, a message is skipped for this reason only: the message received *)
(* before it fills its buffers exactly, and so does every skipped message  *)
(* but the last.                                                           *)
(***************************************************************************)
SkipsOnlyFullBuffers ==
    ~quit => \A i \in 1 .. Len(received) :
        LET prev == IF i = 1 THEN 0 ELSE received[i - 1].num
        IN  \A k \in prev + 1 .. received[i].num - 1 :
                k > 1 /\ Length(k - 1) % BufSize = 0

\* tearDown's wg.Wait returns: both goroutines of a closed stream end, even
\* with bytes in flight and no receiver.
GoroutinesEnd == closed1 ~> cp = "exited" /\ rg = "exited"

(***************************************************************************)
(* Handlers do not outlive what they wait for.  A receiver is released     *)
(* when its client hangs up.  tearDown releases the receiver in the call;  *)
(* after Stop a later one finds the stream again and is released if the    *)
(* reader's error is still there (readErrChan holds one, for one receiver) *)
(* and else waits for its client to hang up.  tearDown gets a sender out   *)
(* of WriteMsg, and out of the call if its client has hung up.             *)
(***************************************************************************)
HandlersReleased ==
    /\ [](rgone => <>(rcv = "none"))
    /\ [](closed1 /\ (~kept \/ rg # "exited" \/ readErr) => <>(rcv = "none"))
    /\ [](closed1 => <>(snd \in {"none", "recv"}))
    /\ [](closed1 /\ sgone => <>(snd = "none"))

\* Message k is written and not yet taken out by a receiver.
InStream(k) ==
    /\ k <= Len(ends)
    /\ acked2 < ends[k] \/ (acked2 = ends[k] /\ rg = "offer")

\* Nothing stalls between the two handlers: a message that does not fill the
\* reader's buffer leaves the stream, unless there is no receiver or the
\* stream is torn down.
ShortMessagesDrain ==
    \A k \in 1 .. MaxMsgs :
        (InStream(k) /\ Length(k) % BufSize # 0)
            ~> (~InStream(k) \/ rcv = "none" \/ closed1)
===============================================================================
