------------------------ MODULE HashMailStream_proofs -------------------------
(***************************************************************************)
(* Proofs about the data path of a mailbox: what the receivers are handed  *)
(* are whole messages, in order and without duplicates, and only messages  *)
(* that fill the reader's buffer exactly can hide their successors, for    *)
(* any message lengths, any buffer size and any copy buffer that is a      *)
(* multiple of it.                                                         *)
(*                                                                         *)
(* The argument is about positions.  io.Copy restarts at every message and *)
(* its buffer is a multiple of the reader's, so both goroutines always     *)
(* stand a whole number of reader buffers beyond the start of a message,   *)
(* or at its end; a Read that does not fill the buffer therefore ends at   *)
(* the end of a message.                                                   *)
(***************************************************************************)
EXTENDS HashMailStream, TLAPS

(***************************************************************************)
(* The inductive invariant, in parts.                                      *)
(***************************************************************************)

\* Messages are not empty, so the ends increase.
Increasing ==
    /\ \A k \in 1 .. Len(ends) : 0 < ends[k]
    /\ \A j, k \in 1 .. Len(ends) : j < k => ends[j] < ends[k]

\* x is in message m, a whole number of reader buffers from its start.
Whole(m, x) == Start(m) <= x /\ x <= ends[m] /\ (x - Start(m)) % BufSize = 0

\* ... or at its end.
At(m, x) == Whole(m, x) \/ x = ends[m]

\* The copier has read all messages but the last one, and of that one whole
\* copy buffers or all of it; all of it, unless a Write of it is under way
\* or the pipe was closed.  What it has in its hands is of one message.
CopierOK ==
    /\ ends # <<>> => At(Len(ends), acked1)
    /\ ~closed1 /\ snd # "write" => acked1 = Written
    /\ cp # "write" => acked2 = acked1
    /\ ends # <<>> =>
           \E m \in 1 .. Len(ends) : At(m, acked1) /\ At(m, acked2)

\* The buffer of the reader begins where message k does and ends in message
\* m, and the messages from k on fill it exactly up to m.
Buffered(k, m) ==
    /\ k <= m
    /\ Start(k) = from
    /\ Start(m) < acked2 /\ acked2 <= ends[m]
    /\ \A j \in k .. m - 1 : Length(j) % BufSize = 0
    /\ IF rg = "more" THEN Whole(m, acked2) ELSE acked2 = ends[m]

\* Between two buffers the reader is at the end of a message.
ReaderOK ==
    /\ rg = "read" => acked2 = 0 \/ \E m \in 1 .. Len(ends) : acked2 = ends[m]
    /\ rg \in {"more", "offer"} =>
           \E k \in 1 .. Len(ends), m \in 1 .. Len(ends) : Buffered(k, m)

\* Where the buffer of the reader begins, or the next one will.
Base == IF rg = "read" THEN acked2 ELSE from

\* What was received was written, and lies before the reader's buffer.
ReceivedOK ==
    \A i \in 1 .. Len(received) :
        /\ received[i].num \in 1 .. Len(ends)
        /\ rg # "exited" => ends[received[i].num] <= Base

LastNum == IF received = <<>> THEN 0 ELSE received[Len(received)].num

\* A message before the reader's buffer and after the one received last was
\* hidden by its predecessor.
HiddenOK ==
    ~quit /\ rg # "exited" =>
        \A k \in LastNum + 1 .. Len(ends) :
            ends[k] <= Base => k > 1 /\ Length(k - 1) % BufSize = 0

IInv ==
    /\ TypeOK
    /\ Increasing
    /\ CopierOK
    /\ ReaderOK
    /\ ReceivedOK
    /\ ReceivedInOrder
    /\ HiddenOK
    /\ SkipsOnlyFullBuffers

-------------------------------------------------------------------------------
(***************************************************************************)
(* Multiples of the reader's buffer size.                                  *)
(***************************************************************************)
\* What % says in terms of products.
LEMMA MultipleIff ==
    ASSUME NEW x \in Nat
    PROVE  x % BufSize = 0 <=> \E q \in Nat : x = q * BufSize
<1>1. ASSUME x % BufSize = 0
      PROVE  \E q \in Nat : x = q * BufSize
  BY <1>1, SizeAssumption
<1>2. ASSUME NEW q \in Nat, x = q * BufSize
      PROVE  x % BufSize = 0
  BY <1>2, SizeAssumption
<1> QED  BY Zenon, <1>1, <1>2

\* The sum of two multiples is one.
LEMMA MultipleSum ==
    ASSUME NEW x \in Nat, NEW y \in Nat, x % BufSize = 0, y % BufSize = 0
    PROVE  (x + y) % BufSize = 0
<1>1. PICK p \in Nat : x = p * BufSize
  BY Zenon, MultipleIff
<1>2. PICK q \in Nat : y = q * BufSize
  BY Zenon, MultipleIff
<1>3. p * BufSize + q * BufSize = (p + q) * BufSize
  BY SizeAssumption
<1>4. p + q \in Nat /\ x + y \in Nat /\ x + y = (p + q) * BufSize
  BY <1>1, <1>2, <1>3
<1> QED  BY Zenon, <1>4, MultipleIff

\* Two different multiples are at least a buffer apart.
LEMMA MultipleGap ==
    ASSUME NEW x \in Nat, NEW y \in Nat, x % BufSize = 0, y % BufSize = 0, x < y
    PROVE  x + BufSize <= y
<1>1. PICK p \in Nat : x = p * BufSize
  BY Zenon, MultipleIff
<1>2. PICK q \in Nat : y = q * BufSize
  BY Zenon, MultipleIff
<1>3. p * BufSize < q * BufSize
  BY Zenon, <1>1, <1>2
<1>4. p < q
  BY <1>3, SizeAssumption
<1>5. p * BufSize + BufSize <= q * BufSize
  BY <1>4, SizeAssumption
<1> QED  BY Zenon, <1>1, <1>2, <1>5

\* 0, the buffer itself and the buffer of io.Copy are multiples.
LEMMA MultipleSizes ==
    /\ 0 % BufSize = 0
    /\ BufSize % BufSize = 0
    /\ CopySize \in Nat \ {0} /\ CopySize % BufSize = 0
<1>1. PICK n \in 1 .. CopySize : CopySize = n * BufSize
  BY Zenon, SizeAssumption
<1>2. n \in Nat \ {0} /\ BufSize \in Nat \ {0}
  BY SizeAssumption
<1>3. CopySize \in Nat \ {0}
  BY <1>1, <1>2
<1>4. CopySize % BufSize = 0
  BY Zenon, <1>1, <1>2, <1>3, MultipleIff
<1>5. 0 = 0 * BufSize /\ BufSize = 1 * BufSize /\ 0 \in Nat /\ 1 \in Nat
  BY <1>2
<1>6. 0 % BufSize = 0 /\ BufSize % BufSize = 0
  BY Zenon, <1>2, <1>5, MultipleIff
<1> QED  BY Zenon, <1>3, <1>4, <1>6

\* The smaller of two numbers.
LEMMA MinOfTwo ==
    ASSUME NEW x \in Nat, NEW y \in Nat
    PROVE  Min({x, y}) = IF x <= y THEN x ELSE y
BY DEF Min

\* The only member of a set is its least.
LEMMA MinOfOne ==
    ASSUME NEW x \in Nat
    PROVE  Min({x}) = x
BY DEF Min

-------------------------------------------------------------------------------
(***************************************************************************)
(* Messages and offsets.                                                   *)
(***************************************************************************)
\* A message begins where the one before it ends.
LEMMA EndsFacts ==
    ASSUME TypeOK, Increasing
    PROVE  /\ Len(ends) \in Nat
           /\ \A k \in 1 .. Len(ends) :
                  /\ ends[k] \in Nat /\ Start(k) \in Nat
                  /\ Start(k) < ends[k]
                  /\ ends[k] <= Written
           /\ \A j, k \in 1 .. Len(ends) : j < k => ends[j] <= Start(k)
           /\ ends # <<>> => Len(ends) \in 1 .. Len(ends) /\ Written = ends[Len(ends)]
           /\ ends = <<>> => Written = 0
           /\ Written \in Nat
<1>1. ends \in Seq(Nat)
  BY Zenon DEF TypeOK
<1>2. Len(ends) \in Nat /\ \A k \in 1 .. Len(ends) : ends[k] \in Nat
  BY <1>1
<1>3. ends # <<>> => Len(ends) \in 1 .. Len(ends)
  BY <1>1
<1>4. ASSUME NEW k \in 1 .. Len(ends)
      PROVE  Start(k) \in Nat /\ Start(k) < ends[k]
  <2>1. CASE k = 1
    BY Zenon, <2>1, <1>2 DEF Start, Increasing
  <2>2. CASE k # 1
    <3>1. k - 1 \in 1 .. Len(ends) /\ k - 1 < k
      BY <2>2, <1>2
    <3> QED  BY Zenon, <2>2, <3>1, <1>2 DEF Start, Increasing
  <2> QED  BY Zenon, <2>1, <2>2
<1>5. ASSUME NEW j \in 1 .. Len(ends), NEW k \in 1 .. Len(ends), j < k
      PROVE  ends[j] <= Start(k)
  <2>1. k - 1 \in 1 .. Len(ends) /\ k # 1 /\ (j = k - 1 \/ j < k - 1)
    BY <1>2, <1>5
  <2>2. ends[j] = ends[k - 1] \/ ends[j] < ends[k - 1]
    BY Zenon, <2>1 DEF Increasing
  <2> QED  BY <1>2, <2>1, <2>2 DEF Start
<1>6. ASSUME NEW k \in 1 .. Len(ends)
      PROVE  ends[k] <= Written
  <2>1. ends # <<>> /\ Len(ends) \in 1 .. Len(ends) /\ (k = Len(ends) \/ k < Len(ends))
    BY <1>1, <1>2
  <2>2. ends[k] = ends[Len(ends)] \/ ends[k] < ends[Len(ends)]
    BY Zenon, <2>1 DEF Increasing
  <2> QED  BY <1>2, <2>1, <2>2 DEF Written
<1>7. Written \in Nat
  BY Zenon, <1>2, <1>3 DEF Written
<1> QED  BY Zenon, <1>2, <1>3, <1>4, <1>5, <1>6, <1>7 DEF Written

\* The four offsets are in order.
LEMMA Offsets ==
    ASSUME TypeOK, Increasing
    PROVE  /\ from \in Nat /\ acked2 \in Nat /\ acked1 \in Nat /\ Written \in Nat
           /\ from <= acked2 /\ acked2 <= acked1 /\ acked1 <= Written
<1>1. Written \in Nat
  BY Zenon, EndsFacts
<1> QED  BY <1>1 DEF TypeOK

\* An offset is inside one message, or where two meet.
LEMMA Located ==
    ASSUME TypeOK, Increasing, NEW x \in Nat,
           NEW j \in 1 .. Len(ends), Start(j) < x, x <= ends[j],
           NEW k \in 1 .. Len(ends), Start(k) <= x, x < ends[k]
    PROVE  \/ k = j
           \/ k = j + 1 /\ x = ends[j] /\ Start(k) = x
<1>1. ~(k < j)
  BY EndsFacts
<1>2. CASE j < k
  <2>1. ends[j] <= Start(k) /\ ends[j] \in Nat /\ Start(k) \in Nat
    BY Zenon, EndsFacts, <1>2
  <2>2. x = ends[j] /\ Start(k) = x
    BY <2>1
  <2>3. k - 1 \in 1 .. Len(ends) /\ Start(k) = ends[k - 1] /\ ~(k - 1 < j)
    BY <1>2, EndsFacts DEF Start
  <2>4. j < k - 1 => ends[j] < ends[k - 1]
    BY Zenon, <2>3 DEF Increasing
  <2>5. k = j + 1
    BY <2>1, <2>2, <2>3, <2>4
  <2> QED  BY Zenon, <2>2, <2>5
<1> QED  BY <1>1, <1>2

\* WriteMsg leaves the messages before it where they are.
LEMMA AppendEnds ==
    ASSUME TypeOK, Increasing, NEW w \in Nat, ends' = Append(ends, w)
    PROVE  /\ Len(ends') = Len(ends) + 1
           /\ ends'[Len(ends) + 1] = w
           /\ Written' = w
           /\ Start(Len(ends))' = Written
           /\ \A k \in 1 .. Len(ends) :
                  /\ k \in 1 .. Len(ends')
                  /\ ends'[k] = ends[k] /\ Start(k)' = Start(k)
                  /\ Length(k)' = Length(k)
<1>1. ends \in Seq(Nat)
  BY Zenon DEF TypeOK
<1>2. /\ Len(ends') = Len(ends) + 1 /\ ends' # <<>>
      /\ ends'[Len(ends) + 1] = w
      /\ \A k \in 1 .. Len(ends) : k \in 1 .. Len(ends') /\ ends'[k] = ends[k]
  BY <1>1
<1>3. \A k \in 1 .. Len(ends) : Start(k)' = Start(k)
  BY <1>1, <1>2 DEF Start
<1>4. Written' = w
  BY Zenon, <1>2 DEF Written
<1>5. Start(Len(ends))' = Written
  <2>1. CASE ends = <<>>
    BY <1>2, <2>1 DEF Start, Written
  <2>2. CASE ends # <<>>
    <3>1. Len(ends) \in 1 .. Len(ends) /\ Len(ends) + 1 # 1 /\ (Len(ends) + 1) - 1 = Len(ends)
      BY <1>1, <2>2
    <3> QED  BY Zenon, <1>2, <2>2, <3>1 DEF Start, Written
  <2> QED  BY Zenon, <2>1, <2>2
<1> QED  BY Zenon, <1>2, <1>3, <1>4, <1>5 DEF Length

\* FirstMsg reads the length prefix of the message that begins the buffer.
LEMMA FirstMsgIs ==
    ASSUME TypeOK, Increasing, NEW k \in 1 .. Len(ends), NEW hi \in Nat
    PROVE  FirstMsg(Start(k), hi) = [num |-> k, whole |-> ends[k] <= hi]
<1> DEFINE starts == {j \in 1 .. Len(ends) : Start(j) = Start(k)}
<1>1. ASSUME NEW j \in 1 .. Len(ends), Start(j) = Start(k)
      PROVE  j = k
  BY <1>1, EndsFacts
<1>2. starts = {k}
  BY Zenon, <1>1
<1>3. Min(starts) = k
  BY <1>2, MinOfOne
<1>4. starts # {}
  BY Zenon, <1>2
<1> QED  BY Zenon, <1>3, <1>4 DEF FirstMsg

\* Every message received has a number, and there may be a last one.
LEMMA ReceivedEntry ==
    ASSUME TypeOK
    PROVE  /\ Len(received) \in Nat
           /\ \A i \in 1 .. Len(received) : received[i].num \in Nat
           /\ LastNum \in Nat
<1> DEFINE M == [num : 0 .. MaxMsgs, whole : BOOLEAN]
<1>1. received \in Seq(M)
  BY Zenon DEF TypeOK
<1>2. \A x \in M : x.num \in Nat
  BY SizeAssumption
<1> HIDE DEF M
<1>3. Len(received) \in Nat /\ \A i \in 1 .. Len(received) : received[i] \in M
  BY <1>1
<1>4. received # <<>> => Len(received) \in 1 .. Len(received)
  BY <1>1
<1>5. LastNum \in Nat
  BY Zenon, <1>2, <1>3, <1>4 DEF LastNum
<1> QED  BY Zenon, <1>2, <1>3, <1>5

-------------------------------------------------------------------------------
(***************************************************************************)
(* Every step preserves the types.                                         *)
(***************************************************************************)
\* What the copier reads is a part of the message that is being written.
LEMMA CopierReadEffect ==
    ASSUME TypeOK, Increasing, CopierRead
    PROVE  /\ acked1' \in Nat /\ acked1 < acked1' /\ acked1' <= Written
           /\ acked1' = Written \/ acked1' = acked1 + CopySize
<1>1. /\ acked1 \in Nat /\ Written \in Nat /\ acked1 < Written
      /\ acked1' = acked1 + Min({CopySize, Written - acked1})
  BY EndsFacts DEF CopierRead, TypeOK
<1>2. Written - acked1 \in Nat /\ CopySize \in Nat \ {0}
  BY <1>1, MultipleSizes
<1>3. Min({CopySize, Written - acked1}) =
          IF CopySize <= Written - acked1 THEN CopySize ELSE Written - acked1
  BY Zenon, <1>2, MinOfTwo
<1> QED  BY <1>1, <1>2, <1>3

\* What the reader reads is a part of what the copier writes.
LEMMA ReaderReadEffect ==
    ASSUME TypeOK, Increasing, ReaderRead
    PROVE  /\ acked1 \in Nat /\ acked2 \in Nat
           /\ acked2' \in Nat /\ acked2 < acked2' /\ acked2' <= acked1
           /\ \/ rg' = "more" /\ acked2' = acked2 + BufSize
              \/ rg' = "offer" /\ acked2' = acked1 /\ acked1 < acked2 + BufSize
<1>1. /\ acked1 \in Nat /\ acked2 \in Nat /\ acked2 < acked1
      /\ acked2' = acked2 + Min({BufSize, acked1 - acked2})
      /\ rg' = IF Min({BufSize, acked1 - acked2}) = BufSize THEN "more" ELSE "offer"
  BY EndsFacts DEF ReaderRead, TypeOK
<1>2. acked1 - acked2 \in Nat /\ BufSize \in Nat \ {0}
  BY <1>1, SizeAssumption
<1>3. Min({BufSize, acked1 - acked2}) =
          IF BufSize <= acked1 - acked2 THEN BufSize ELSE acked1 - acked2
  BY Zenon, <1>2, MinOfTwo
<1> QED  BY <1>1, <1>2, <1>3

\* What FirstMsg returns is a message number.
LEMMA ReadNextMsgEffect ==
    ASSUME TypeOK, Increasing, ReaderOK, ReadNextMsg
    PROVE  \E k \in 1 .. Len(ends), m \in 1 .. Len(ends) :
               /\ Buffered(k, m)
               /\ ends[k] <= acked2
               /\ msg' = [num |-> k, whole |-> TRUE]
               /\ received' = Append(received, msg')
<1>1. PICK k \in 1 .. Len(ends), m \in 1 .. Len(ends) : Buffered(k, m)
  BY Zenon DEF ReaderOK, ReadNextMsg
<1>2. acked2 \in Nat
  BY EndsFacts DEF TypeOK
<1>3. msg' = [num |-> k, whole |-> ends[k] <= acked2]
  BY Zenon, <1>1, <1>2, FirstMsgIs DEF ReadNextMsg, Buffered
<1>4. k <= m /\ acked2 = ends[m]
  BY Zenon, <1>1 DEF Buffered, ReadNextMsg
<1>5. ends[k] <= ends[m]
  <2>1. k = m \/ k < m
    BY <1>4
  <2>2. ends[k] \in Nat /\ ends[m] \in Nat /\ (k < m => ends[k] < ends[m])
    BY Zenon, EndsFacts DEF Increasing
  <2> QED  BY <2>1, <2>2
<1>6. (ends[k] <= acked2) = TRUE
  BY Zenon, <1>4, <1>5
<1>7. msg' = [num |-> k, whole |-> TRUE]
  BY Zenon, <1>3, <1>6
<1> QED  BY Zenon, <1>1, <1>4, <1>5, <1>7 DEF ReadNextMsg

\* The types are preserved.
LEMMA TypeStep ==
    ASSUME TypeOK, Increasing, ReaderOK, [Next]_vars
    PROVE  TypeOK'
<1>0. NoMsg \in [num : 0 .. MaxMsgs, whole : BOOLEAN]
  BY SizeAssumption DEF NoMsg
<1>00. ends' = ends => Written' = Written
  BY Zenon DEF Written
<1> USE DEF TypeOK
<1>1. CASE SendStream
  BY <1>0, <1>00, <1>1 DEF SendStream, pipes, reader, receiver, shutdown
<1>2. CASE SenderHangsUp
  BY <1>0, <1>00, <1>2 DEF SenderHangsUp, pipes, reader, receiver, shutdown
<1>3. CASE SenderRecv
  BY <1>0, <1>00, <1>3 DEF SenderRecv, pipes, reader, receiver, shutdown
<1>4. CASE SenderSeesHangUp
  <2>1. /\ snd' \in {"none", "recv", "limit", "write"} /\ sgone' \in BOOLEAN
        /\ UNCHANGED <<ends, pipes, reader, receiver, shutdown>>
    BY Zenon, <1>4 DEF SenderSeesHangUp, SenderExit
  <2> QED  BY <1>00, <2>1 DEF pipes, reader, receiver, shutdown
<1>5. ASSUME NEW len \in Lengths, WriteMsg(len)
      PROVE  TypeOK'
  <2>1. len \in Nat /\ Written \in Nat /\ ends' = Append(ends, Written + len)
    BY Zenon, <1>5, SizeAssumption, EndsFacts DEF WriteMsg
  <2>2. Written + len \in Nat /\ Written <= Written + len
    BY <2>1
  <2>3. Written' = Written + len /\ Len(ends') = Len(ends) + 1
    BY Zenon, <2>1, <2>2, AppendEnds
  <2>4. ends' \in Seq(Nat) /\ Len(ends') <= MaxMsgs
    BY <1>5, <2>1, <2>2, <2>3, SizeAssumption DEF WriteMsg
  <2>5. acked1 \in 0 .. Written'
    BY <2>1, <2>2, <2>3
  <2> QED
    BY <1>5, <2>4, <2>5 DEF WriteMsg, pipes, reader, receiver, shutdown
<1>6. CASE WriteReturns
  BY <1>0, <1>00, <1>6 DEF WriteReturns, pipes, reader, receiver, shutdown
<1>7. CASE WriteFails
  <2>1. /\ snd' \in {"none", "recv", "limit", "write"} /\ sgone' \in BOOLEAN
        /\ UNCHANGED <<ends, pipes, reader, receiver, shutdown>>
    BY Zenon, <1>7 DEF WriteFails, SenderExit
  <2> QED  BY <1>00, <2>1 DEF pipes, reader, receiver, shutdown
<1>8. CASE CopierRead
  <2>1. /\ acked1 \in Nat /\ acked1' \in Nat /\ Written \in Nat
        /\ acked1 < acked1' /\ acked1' <= Written
    BY <1>8, CopierReadEffect, EndsFacts
  <2>2. acked1' \in 0 .. Written /\ acked2 \in 0 .. acked1'
    BY <2>1
  <2> QED
    BY <1>00, <1>8, <2>2 DEF CopierRead, sender, reader, receiver, shutdown
<1>9. CASE CopierWriteReturns
  BY <1>0, <1>00, <1>9 DEF CopierWriteReturns, sender, reader, receiver, shutdown
<1>10. CASE CopierEOF
  BY <1>0, <1>00, <1>10 DEF CopierEOF, sender, reader, receiver
<1>11. CASE ReaderRead
  <2>1. /\ acked1 \in Nat /\ acked2 \in Nat /\ acked2' \in Nat
        /\ acked2 < acked2' /\ acked2' <= acked1 /\ rg' \in {"more", "offer"}
    BY Zenon, <1>11, ReaderReadEffect
  <2>2. from' = acked2 \/ from' = from
    BY Zenon, <1>11 DEF ReaderRead
  <2>3. acked2' \in 0 .. acked1 /\ from' \in 0 .. acked2'
    BY <2>1, <2>2
  <2> QED
    BY <1>00, <1>11, <2>1, <2>3 DEF ReaderRead, sender, receiver, shutdown
<1>12. CASE ReaderEOF
  BY <1>0, <1>00, <1>12 DEF ReaderEOF, sender, pipes, receiver, shutdown
<1>13. CASE ReaderQuit
  BY <1>0, <1>00, <1>13 DEF ReaderQuit, sender, pipes, receiver, shutdown
<1>14. CASE RecvStream
  BY <1>0, <1>00, <1>14 DEF RecvStream, sender, pipes, reader, shutdown
<1>15. CASE ReceiverHangsUp
  BY <1>0, <1>00, <1>15 DEF ReceiverHangsUp, sender, pipes, reader, shutdown
<1>16. CASE ReadNextMsg
  <2>1. PICK k \in 1 .. Len(ends) :
            /\ msg' = [num |-> k, whole |-> TRUE]
            /\ received' = Append(received, msg')
    BY Zenon, <1>16, ReadNextMsgEffect
  <2>2. k \in 0 .. MaxMsgs
    BY SizeAssumption
  <2>3. msg' \in [num : 0 .. MaxMsgs, whole : BOOLEAN]
    BY Zenon, <2>1, <2>2
  <2>4. received' \in Seq([num : 0 .. MaxMsgs, whole : BOOLEAN])
    BY <2>1, <2>3
  <2> QED
    BY <1>00, <1>16, <2>3, <2>4 DEF ReadNextMsg, sender, pipes, shutdown
<1>17. CASE ReceiverError
  <2>1. /\ readErr' \in BOOLEAN /\ rcv' \in {"none", "read", "send"} /\ rgone' \in BOOLEAN
        /\ msg' = NoMsg
        /\ UNCHANGED <<sender, pipes, rg, from, received, shutdown>>
    BY Zenon, <1>17 DEF ReceiverError, ReceiverExit
  <2> QED  BY <1>0, <1>00, <2>1 DEF sender, pipes, reader, shutdown
<1>18. CASE ReceiverSeesHangUp
  <2>1. /\ rcv' \in {"none", "read", "send"} /\ rgone' \in BOOLEAN
        /\ msg' = NoMsg
        /\ UNCHANGED <<sender, pipes, reader, received, shutdown>>
    BY Zenon, <1>18 DEF ReceiverSeesHangUp, ReceiverExit
  <2> QED  BY <1>0, <1>00, <2>1 DEF sender, pipes, reader, shutdown
<1>19. CASE SendToClient
  <2>1. /\ rcv' \in {"none", "read", "send"} /\ rgone' \in BOOLEAN
        /\ msg' = NoMsg
        /\ UNCHANGED <<sender, pipes, reader, received, shutdown>>
    BY Zenon, <1>19 DEF SendToClient, ReceiverExit, TypeOK
  <2> QED  BY <1>0, <1>00, <2>1 DEF sender, pipes, reader, shutdown
<1>20. CASE TearDownClose
  BY <1>0, <1>00, <1>20 DEF TearDownClose, sender, pipes, reader, receiver
<1>21. CASE TearDownQuit
  BY <1>0, <1>00, <1>21 DEF TearDownQuit, sender, pipes, reader, receiver
<1>22. CASE UNCHANGED vars
  BY <1>00, <1>22 DEF vars, sender, pipes, reader, receiver, shutdown
<1> QED
  BY Zenon, <1>1, <1>2, <1>3, <1>4, <1>5, <1>6, <1>7, <1>8, <1>9, <1>10,
     <1>11, <1>12, <1>13, <1>14, <1>15, <1>16, <1>17, <1>18, <1>19,
     <1>20, <1>21, <1>22 DEF Next

-------------------------------------------------------------------------------
(***************************************************************************)
(* Every step preserves the rest.                                          *)
(***************************************************************************)
\* The messages stay where they are when none is written.
LEMMA SameEnds ==
    ASSUME ends' = ends
    PROVE  /\ Written' = Written
           /\ \A k : Start(k)' = Start(k) /\ Length(k)' = Length(k)
           /\ \A m, x : Whole(m, x)' <=> Whole(m, x)
           /\ \A m, x : At(m, x)' <=> At(m, x)
<1>1. Written' = Written /\ \A k : Start(k)' = Start(k) /\ Length(k)' = Length(k)
  BY Zenon DEF Written, Start, Length
<1>2. \A m, x : Whole(m, x)' <=> Whole(m, x)
  BY Zenon, <1>1 DEF Whole
<1> QED  BY Zenon, <1>1, <1>2 DEF At

\* What hands out nothing and leaves the reader alone keeps the last parts.
LEMMA ReaderQuiet ==
    ASSUME IInv, UNCHANGED <<ends, acked2, rg, from, received>>, quit => quit'
    PROVE  /\ Increasing' /\ ReaderOK' /\ ReceivedOK' /\ ReceivedInOrder'
           /\ HiddenOK' /\ SkipsOnlyFullBuffers'
<1> USE DEF IInv
<1>1. Increasing'
  BY Zenon DEF Increasing
<1>2. ReaderOK'
  BY Zenon, SameEnds DEF ReaderOK, Buffered, Whole
<1>3. Base' = Base /\ LastNum' = LastNum
  BY Zenon DEF Base, LastNum
<1>4. ReceivedOK' /\ ReceivedInOrder'
  BY Zenon, <1>3 DEF ReceivedOK, ReceivedInOrder
<1>5. HiddenOK'
  BY Zenon, <1>3, SameEnds DEF HiddenOK
<1>6. SkipsOnlyFullBuffers'
  BY Zenon, SameEnds DEF SkipsOnlyFullBuffers
<1> QED  BY Zenon, <1>1, <1>2, <1>4, <1>5, <1>6

\* A step that moves no byte and hands out nothing: those of the handlers, of
\* tearDown, and the end of a Write.
LEMMA QuietStep ==
    ASSUME IInv, TypeOK',
           UNCHANGED <<ends, acked1, acked2, rg, from, received>>,
           quit => quit',
           cp' # "write" => acked2 = acked1,
           ~closed1' /\ snd' # "write" => acked1 = Written
    PROVE  IInv'
<1> USE DEF IInv
<1>1. CopierOK'
  BY Zenon, SameEnds DEF CopierOK, At, Whole
<1> QED  BY Zenon, <1>1, ReaderQuiet

\* A message that is received, or lies before the reader, stays where it is
\* when another one is written.
LEMMA WriteMsgStep ==
    ASSUME IInv, TypeOK', NEW len \in Lengths, WriteMsg(len)
    PROVE  IInv'
<1> USE DEF IInv
<1>1. PICK w \in Nat, n \in Nat, a1 \in Nat, a2 \in Nat :
          /\ w = Written + len /\ n = Len(ends) + 1 /\ a1 = acked1 /\ a2 = acked2
          /\ Written \in Nat /\ Written < w
          /\ ends' = Append(ends, w)
  <2>1. Written \in Nat /\ len \in Nat \ {0} /\ Len(ends) \in Nat
    BY Zenon, SizeAssumption, EndsFacts
  <2>2. Written + len \in Nat /\ Written < Written + len /\ Len(ends) + 1 \in Nat
    BY <2>1
  <2>3. acked1 \in Nat /\ acked2 \in Nat
    BY <2>1 DEF TypeOK
  <2> QED  BY Zenon, <2>1, <2>2, <2>3 DEF WriteMsg
<1>2. /\ UNCHANGED <<acked1, cp, acked2, rg, from, received, closed1, quit>>
      /\ snd' = "write" /\ ~closed1 /\ snd # "write"
  BY Zenon DEF WriteMsg, pipes, reader, receiver, shutdown
<1>3. /\ Len(ends') = n /\ ends'[n] = w /\ Written' = w
      /\ Start(n)' = Written /\ ends' # <<>> /\ n \in 1 .. n
      /\ \A k \in 1 .. Len(ends) :
             /\ k \in 1 .. n /\ k < n
             /\ ends'[k] = ends[k] /\ Start(k)' = Start(k)
             /\ Length(k)' = Length(k)
  BY <1>1, AppendEnds, EndsFacts
<1>4. \A k \in 1 .. n : k \in 1 .. Len(ends) \/ k = n
  BY <1>1, EndsFacts
<1>5. /\ a1 = Written /\ a2 <= Written /\ Base \in Nat /\ Base <= Written
  BY <1>1, <1>2, EndsFacts DEF CopierOK, TypeOK, Base
<1>6. Increasing'
  <2>1. \A k \in 1 .. Len(ends) : ends[k] < w /\ ends[k] \in Nat
    BY <1>1, EndsFacts
  <2>2. ASSUME NEW k \in 1 .. n
        PROVE  0 < ends'[k]
    BY <1>1, <1>3, <1>4 DEF Increasing
  <2>3. ASSUME NEW j \in 1 .. n, NEW k \in 1 .. n, j < k
        PROVE  ends'[j] < ends'[k]
    <3>1. CASE k \in 1 .. Len(ends) /\ j \in 1 .. Len(ends)
      BY Zenon, <1>3, <2>3, <3>1 DEF Increasing
    <3>2. CASE k = n /\ j \in 1 .. Len(ends)
      BY Zenon, <1>3, <2>1, <3>2
    <3>3. j # n
      BY <2>3
    <3> QED  BY Zenon, <1>4, <3>1, <3>2, <3>3
  <2> QED  BY Zenon, <1>3, <2>2, <2>3 DEF Increasing
<1>7. \A m \in 1 .. Len(ends), x \in Nat :
          (Whole(m, x) => Whole(m, x)') /\ (At(m, x) => At(m, x)')
  BY Zenon, <1>3 DEF Whole, At
<1>8. At(n, a1)'
  <2>1. a1 <= w /\ a1 <= a1 /\ a1 - a1 = 0
    BY <1>1, <1>5
  <2> QED  BY Zenon, <1>3, <1>5, <2>1, MultipleSizes DEF At, Whole
<1>9. CopierOK'
  <2>1. \E m \in 1 .. n : At(m, a1)' /\ At(m, a2)'
    <3>1. CASE ends # <<>>
      BY Zenon, <1>1, <1>3, <1>7, <3>1 DEF CopierOK
    <3>2. CASE ends = <<>>
      <4>1. a1 = a2
        BY <3>2, <1>1, <1>5, EndsFacts
      <4> QED  BY Zenon, <1>3, <1>8, <4>1
    <3> QED  BY Zenon, <3>1, <3>2
  <2> QED  BY Zenon, <1>1, <1>2, <1>3, <1>8, <2>1 DEF CopierOK
<1>10. ReaderOK'
  <2>1. ASSUME rg = "read"
        PROVE  acked2 = 0 \/ \E m \in 1 .. n : acked2 = ends'[m]
    BY Zenon, <1>3, <2>1 DEF ReaderOK
  <2>2. ASSUME NEW k \in 1 .. Len(ends), NEW m \in 1 .. Len(ends), Buffered(k, m)
        PROVE  Buffered(k, m)'
    <3>1. \A j \in k .. m - 1 : j \in 1 .. Len(ends)
      BY EndsFacts
    <3>2. \A j \in k .. m - 1 : Length(j)' % BufSize = 0
      BY Zenon, <1>3, <2>2, <3>1 DEF Buffered
    <3>3. Whole(m, a2) => Whole(m, a2)'
      BY Zenon, <1>7
    <3> QED  BY Zenon, <1>1, <1>2, <1>3, <2>2, <3>2, <3>3 DEF Buffered
  <2> QED  BY Zenon, <1>2, <1>3, <2>1, <2>2 DEF ReaderOK
<1>11. Base' = Base /\ LastNum' = LastNum
  BY Zenon, <1>2 DEF Base, LastNum
<1>12. ReceivedOK' /\ ReceivedInOrder'
  BY Zenon, <1>2, <1>3, <1>11 DEF ReceivedOK, ReceivedInOrder
<1>13. HiddenOK'
  <2>1. LastNum \in Nat
    BY Zenon, ReceivedEntry
  <2>2. ASSUME ~quit, rg # "exited", NEW k \in LastNum + 1 .. n, ends'[k] <= Base
        PROVE  k > 1 /\ Length(k - 1)' % BufSize = 0
    <3>1. k \in 1 .. n
      BY <2>1
    <3>2. k # n
      BY <1>1, <1>3, <1>5, <2>2
    <3>3. k \in LastNum + 1 .. Len(ends) /\ k \in 1 .. Len(ends)
      BY <1>1, <2>1, <3>1, <3>2, EndsFacts
    <3>4. k > 1 /\ Length(k - 1) % BufSize = 0
      BY Zenon, <1>3, <2>2, <3>3 DEF HiddenOK
    <3>5. k - 1 \in 1 .. Len(ends)
      BY <3>3, <3>4, EndsFacts
    <3> QED  BY Zenon, <1>3, <3>4, <3>5
  <2> QED  BY Zenon, <1>2, <1>3, <1>11, <2>2 DEF HiddenOK
<1>14. SkipsOnlyFullBuffers'
  <2>1. ASSUME ~quit, NEW i \in 1 .. Len(received),
               NEW k \in (IF i = 1 THEN 0 ELSE received[i - 1].num) + 1
                             .. received[i].num - 1
        PROVE  k > 1 /\ Length(k - 1)' % BufSize = 0
    <3>1. k > 1 /\ Length(k - 1) % BufSize = 0
      BY Zenon, <2>1 DEF SkipsOnlyFullBuffers
    <3>2. received[i].num \in 1 .. Len(ends)
      BY Zenon DEF ReceivedOK
    <3>3. (IF i = 1 THEN 0 ELSE received[i - 1].num) \in Nat
      BY ReceivedEntry
    <3>4. k - 1 \in 1 .. Len(ends)
      BY <3>1, <3>2, <3>3, EndsFacts
    <3> QED  BY Zenon, <1>3, <3>1, <3>4
  <2> QED  BY Zenon, <1>2, <2>1 DEF SkipsOnlyFullBuffers
<1> QED
  BY Zenon, <1>6, <1>9, <1>10, <1>12, <1>13, <1>14

\* The copier takes a whole buffer of the message that is being written, or
\* the rest of it.
LEMMA CopierReadStep ==
    ASSUME IInv, TypeOK', CopierRead
    PROVE  IInv'
<1> USE DEF IInv
<1>1. UNCHANGED <<ends, snd, acked2, rg, from, received, closed1, quit>>
  BY Zenon DEF CopierRead, sender, reader, receiver, shutdown
<1>2. PICK n \in Nat, a \in Nat, b \in Nat :
          /\ n = Len(ends) /\ a = acked1 /\ b = acked1'
          /\ acked2 = a /\ a < Written /\ a < b /\ b <= Written
          /\ b = Written \/ b = a + CopySize
          /\ snd = "write" /\ cp' = "write"
  <2>1. acked1 \in Nat /\ acked1' \in Nat /\ Len(ends) \in Nat
    BY CopierReadEffect, EndsFacts DEF TypeOK
  <2>2. acked2 = acked1 /\ acked1 < Written /\ snd = "write" /\ cp' = "write"
    BY Zenon DEF CopierRead, CopierOK
  <2> QED  BY Zenon, <2>1, <2>2, CopierReadEffect
<1>3. ends # <<>> /\ n \in 1 .. Len(ends) /\ Written = ends[n]
  BY <1>2, EndsFacts
<1>4. Start(n) \in Nat /\ ends[n] \in Nat /\ Start(n) <= a /\ (a - Start(n)) % BufSize = 0
  <2>1. At(n, a) /\ a # ends[n]
    BY <1>2, <1>3, EndsFacts DEF CopierOK
  <2> QED  BY Zenon, <1>3, <2>1, EndsFacts DEF At, Whole
<1>5. At(n, a)
  BY Zenon, <1>2, <1>3 DEF CopierOK
<1>6. At(n, b)
  <2>1. CASE b = Written
    BY Zenon, <1>3, <2>1 DEF At
  <2>2. CASE b = a + CopySize
    <3>1. a - Start(n) \in Nat /\ CopySize \in Nat
      BY <1>4, MultipleSizes
    <3>2. ((a - Start(n)) + CopySize) % BufSize = 0
      BY Zenon, <1>4, <3>1, MultipleSizes, MultipleSum
    <3>3. b - Start(n) = (a - Start(n)) + CopySize /\ Start(n) <= b /\ b <= ends[n]
      BY <1>2, <1>3, <1>4, <2>2, <3>1
    <3> QED  BY Zenon, <3>2, <3>3 DEF At, Whole
  <2> QED  BY Zenon, <1>2, <2>1, <2>2
<1>7. CopierOK'
  <2>1. At(n, b)' /\ At(n, a)' /\ n = Len(ends')
    BY Zenon, <1>1, <1>2, <1>5, <1>6, SameEnds
  <2>2. At(Len(ends), acked1)' /\ At(n, acked1)' /\ At(n, acked2)'
    BY Zenon, <1>1, <1>2, <2>1
  <2> QED  BY Zenon, <1>1, <1>2, <1>3, <2>2 DEF CopierOK
<1> QED  BY Zenon, <1>1, <1>7, ReaderQuiet

\* tearDown ends the reader, or makes it drop its buffer.
LEMMA ReaderEndStep ==
    ASSUME IInv, TypeOK', ReaderEOF \/ ReaderQuit
    PROVE  IInv'
<1> USE DEF IInv
<1>1. /\ UNCHANGED <<ends, snd, acked1, cp, acked2, from, received, closed1, quit>>
      /\ rg' = "exited" \/ (rg = "offer" /\ rg' = "read" /\ quit)
  BY Zenon DEF ReaderEOF, ReaderQuit, sender, pipes, receiver, shutdown
<1>2. Increasing'
  BY Zenon, <1>1 DEF Increasing
<1>3. CopierOK'
  BY Zenon, <1>1, SameEnds DEF CopierOK, At, Whole
<1>4. ReaderOK'
  <2>1. rg = "offer" => \E m \in 1 .. Len(ends) : acked2 = ends[m]
    BY Zenon DEF ReaderOK, Buffered
  <2> QED  BY Zenon, <1>1, <2>1 DEF ReaderOK
<1>5. ReceivedOK'
  <2>1. rg' # "exited" => Base = from /\ Base' = acked2 /\ rg # "exited"
    BY Zenon, <1>1 DEF Base
  <2>2. from \in Nat /\ acked2 \in Nat /\ from <= acked2
    BY EndsFacts DEF TypeOK
  <2>3. ASSUME NEW i \in 1 .. Len(received)
        PROVE  /\ received[i].num \in 1 .. Len(ends)
               /\ rg' # "exited" => ends[received[i].num] <= Base'
    <3>1. received[i].num \in 1 .. Len(ends) /\ ends[received[i].num] \in Nat
      BY Zenon, EndsFacts DEF ReceivedOK
    <3> QED  BY <2>1, <2>2, <3>1 DEF ReceivedOK
  <2> QED  BY Zenon, <1>1, <2>3 DEF ReceivedOK
<1>6. ReceivedInOrder'
  BY Zenon, <1>1 DEF ReceivedInOrder
<1>7. HiddenOK'
  BY Zenon, <1>1 DEF HiddenOK
<1>8. SkipsOnlyFullBuffers'
  BY Zenon, <1>1, SameEnds DEF SkipsOnlyFullBuffers
<1> QED  BY Zenon, <1>2, <1>3, <1>4, <1>5, <1>6, <1>7, <1>8

\* The reader takes a whole buffer of a message, or the rest of it; it does
\* not offer a message before its end.
LEMMA ReaderReadStep ==
    ASSUME IInv, TypeOK', ReaderRead
    PROVE  IInv'
<1> USE DEF IInv
<1>1. /\ UNCHANGED <<ends, snd, acked1, cp, received, closed1, quit>>
      /\ cp = "write" /\ acked2 < acked1
      /\ rg \in {"read", "more"} /\ from' = IF rg = "read" THEN acked2 ELSE from
  BY Zenon DEF ReaderRead, sender, receiver, shutdown
<1>2. PICK a1 \in Nat, x \in Nat, y \in Nat :
          /\ a1 = acked1 /\ x = acked2 /\ y = acked2' /\ x < a1 /\ x < y /\ y <= a1
          /\ \/ rg' = "more" /\ y = x + BufSize
             \/ rg' = "offer" /\ y = a1 /\ a1 < x + BufSize
  <2>1. acked1 \in Nat /\ acked2 \in Nat /\ acked2' \in Nat
    BY Zenon, ReaderReadEffect
  <2> QED  BY Zenon, <1>1, <2>1, ReaderReadEffect
<1>3. PICK m \in 1 .. Len(ends) : At(m, a1) /\ At(m, x)
  <2>1. ends # <<>>
    BY <1>2, EndsFacts DEF TypeOK
  <2> QED  BY Zenon, <1>2, <2>1 DEF CopierOK
<1>4. Start(m) \in Nat /\ ends[m] \in Nat /\ Start(m) < ends[m]
  BY Zenon, EndsFacts
<1>5. a1 <= ends[m] /\ Start(m) <= a1
  BY <1>4, <1>3 DEF At, Whole
<1>6. Start(m) <= x /\ x < ends[m] /\ (x - Start(m)) % BufSize = 0
  <2>1. x < ends[m] /\ x # ends[m]
    BY <1>2, <1>4, <1>5
  <2> QED  BY Zenon, <1>3, <2>1 DEF At, Whole
<1>7. rg' = "more" => Whole(m, y)
  <2>1. x - Start(m) \in Nat /\ BufSize \in Nat
    BY <1>2, <1>4, <1>6, SizeAssumption
  <2>2. ((x - Start(m)) + BufSize) % BufSize = 0
    BY Zenon, <1>6, <2>1, MultipleSizes, MultipleSum
  <2>3. ASSUME y = x + BufSize
        PROVE  /\ y - Start(m) = (x - Start(m)) + BufSize
               /\ Start(m) <= y /\ y <= ends[m]
    <3>1. y - Start(m) = (x - Start(m)) + BufSize
      BY <1>4, <2>1, <2>3
    <3>2. Start(m) <= y
      BY <1>2, <1>4, <1>6
    <3>3. y <= ends[m]
      BY <1>2, <1>4, <1>5
    <3> QED  BY Zenon, <3>1, <3>2, <3>3
  <2> QED  BY Zenon, <1>2, <2>2, <2>3 DEF Whole
<1>8. rg' = "offer" => y = ends[m]
  <2>1. SUFFICES ASSUME y = a1, a1 < x + BufSize, a1 # ends[m]
                 PROVE  FALSE
    BY Zenon, <1>2
  <2>2. (a1 - Start(m)) % BufSize = 0
    BY Zenon, <1>3, <2>1 DEF At, Whole
  <2>3. /\ x - Start(m) \in Nat /\ a1 - Start(m) \in Nat
        /\ x - Start(m) < a1 - Start(m)
    BY <1>2, <1>4, <1>5, <1>6
  <2>4. (x - Start(m)) + BufSize <= a1 - Start(m)
    BY Zenon, <1>6, <2>2, <2>3, MultipleGap
  <2> QED  BY <1>2, <1>4, <2>1, <2>4, SizeAssumption
<1>9. At(m, y)
  BY Zenon, <1>2, <1>7, <1>8 DEF At
<1>10. CopierOK'
  <2>1. At(m, a1)' /\ At(m, y)'
    BY Zenon, <1>1, <1>3, <1>9, SameEnds
  <2>2. At(m, acked1)' /\ At(m, acked2)'
    BY Zenon, <1>1, <1>2, <2>1
  <2>3. At(Len(ends), acked1)' <=> At(Len(ends), acked1)
    BY Zenon, <1>1, SameEnds
  <2> QED  BY Zenon, <1>1, <2>2, <2>3, SameEnds DEF CopierOK
<1>11. Increasing'
  BY Zenon, <1>1 DEF Increasing
<1>12. ReaderOK'
  <2>1. Start(m) < y /\ y <= ends[m]
    BY <1>2, <1>4, <1>5, <1>6
  <2>2. \E k \in 1 .. Len(ends) :
            /\ k <= m /\ Start(k) = from'
            /\ \A j \in k .. m - 1 : Length(j) % BufSize = 0
    <3>1. CASE rg = "read"
      <4>1. Start(m) = x
        <5>1. CASE x = 0
          BY <1>4, <1>6, <5>1
        <5>2. ASSUME NEW l \in 1 .. Len(ends), x = ends[l]
              PROVE  Start(m) = x
          <6>1. Start(l) < x /\ x <= ends[l]
            BY <5>2, EndsFacts
          <6>2. m # l
            BY <1>6, <5>2
          <6>3. m = l \/ (m = l + 1 /\ x = ends[l] /\ Start(m) = x)
            BY <1>6, <6>1, Located
          <6> QED  BY Zenon, <6>2, <6>3
        <5> QED  BY Zenon, <1>2, <3>1, <5>1, <5>2 DEF ReaderOK
      <4>2. m <= m /\ \A j \in m .. m - 1 : FALSE
        OBVIOUS
      <4> QED  BY Zenon, <1>1, <1>2, <3>1, <4>1, <4>2
    <3>2. CASE rg = "more"
      <4>1. PICK k \in 1 .. Len(ends), l \in 1 .. Len(ends) : Buffered(k, l)
        BY Zenon, <3>2 DEF ReaderOK
      <4>2. /\ k <= l /\ Start(k) = from' /\ Start(l) < x /\ x <= ends[l]
            /\ \A j \in k .. l - 1 : Length(j) % BufSize = 0
            /\ (x - Start(l)) % BufSize = 0
        BY Zenon, <1>1, <1>2, <3>2, <4>1 DEF Buffered, Whole
      <4>3. CASE m = l
        BY Zenon, <4>2, <4>3
      <4>4. CASE m = l + 1 /\ x = ends[l]
        <5>1. Length(l) % BufSize = 0
          BY Zenon, <4>2, <4>4 DEF Length
        <5>2. \A j \in k .. m - 1 : j \in k .. l - 1 \/ j = l
          BY <4>4
        <5>3. k <= m
          BY <4>2, <4>4
        <5> QED  BY Zenon, <4>2, <5>1, <5>2, <5>3
      <4> QED  BY Zenon, <1>6, <4>2, <4>3, <4>4, Located
    <3> QED  BY Zenon, <1>1, <3>1, <3>2
  <2>3. PICK k \in 1 .. Len(ends) :
            /\ k <= m /\ Start(k) = from'
            /\ \A j \in k .. m - 1 : Length(j) % BufSize = 0
    BY Zenon, <2>2
  <2>4. /\ Start(k)' = from' /\ Start(m)' < acked2' /\ acked2' <= ends'[m]
        /\ \A j \in k .. m - 1 : Length(j)' % BufSize = 0
    BY Zenon, <1>1, <1>2, <2>1, <2>3, SameEnds
  <2>5. IF rg' = "more" THEN Whole(m, acked2)' ELSE acked2' = ends'[m]
    <3>1. Whole(m, y)' <=> Whole(m, y)
      BY Zenon, <1>1, SameEnds
    <3> QED  BY Zenon, <1>1, <1>2, <1>7, <1>8, <3>1
  <2>6. Buffered(k, m)'
    BY Zenon, <2>3, <2>4, <2>5 DEF Buffered
  <2>7. rg' # "read"
    BY Zenon, <1>2
  <2> QED  BY Zenon, <1>1, <2>6, <2>7 DEF ReaderOK
<1>13. Base' = Base /\ LastNum' = LastNum /\ rg # "exited" /\ rg' # "exited"
  BY Zenon, <1>1, <1>2 DEF Base, LastNum
<1>14. ReceivedOK' /\ ReceivedInOrder'
  BY Zenon, <1>1, <1>13 DEF ReceivedOK, ReceivedInOrder
<1>15. HiddenOK'
  BY Zenon, <1>1, <1>13, SameEnds DEF HiddenOK
<1>16. SkipsOnlyFullBuffers'
  BY Zenon, <1>1, SameEnds DEF SkipsOnlyFullBuffers
<1> QED  BY Zenon, <1>10, <1>11, <1>12, <1>14, <1>15, <1>16

\* A receiver takes the first message of the buffer; the others of the buffer
\* are hidden behind messages that fill it exactly.
LEMMA ReadNextMsgStep ==
    ASSUME IInv, TypeOK', ReadNextMsg
    PROVE  IInv'
<1> USE DEF IInv
<1>1. /\ UNCHANGED <<ends, snd, acked1, cp, acked2, from, closed1, quit>>
      /\ rg = "offer" /\ rg' = "read"
  BY Zenon DEF ReadNextMsg, sender, pipes, shutdown
<1>2. PICK k \in 1 .. Len(ends), m \in 1 .. Len(ends) :
          /\ Buffered(k, m)
          /\ ends[k] <= acked2
          /\ msg' = [num |-> k, whole |-> TRUE]
          /\ received' = Append(received, msg')
  BY Zenon, ReadNextMsgEffect
<1>3. PICK n \in Nat : n = Len(received) + 1
  BY ReceivedEntry
<1>4. /\ Len(received') = n /\ received'[n] = [num |-> k, whole |-> TRUE]
      /\ received'[n].num = k /\ received'[n].whole /\ received' # <<>>
      /\ \A i \in 1 .. Len(received) : i # n /\ received'[i] = received[i]
      /\ \A i \in 1 .. n : i \in 1 .. Len(received) \/ i = n
  <2>1. received \in Seq([num : 0 .. MaxMsgs, whole : BOOLEAN])
    BY Zenon DEF TypeOK
  <2>2. /\ Len(received') = n /\ received'[n] = msg' /\ received' # <<>>
        /\ \A i \in 1 .. Len(received) : i # n /\ received'[i] = received[i]
    BY <1>2, <1>3, <2>1
  <2>3. \A i \in 1 .. n : i \in 1 .. Len(received) \/ i = n
    BY <1>3, ReceivedEntry
  <2>4. [num |-> k, whole |-> TRUE].num = k /\ [num |-> k, whole |-> TRUE].whole
    BY Zenon
  <2> QED  BY Zenon, <1>2, <2>2, <2>3, <2>4
<1>5. /\ k <= m /\ Start(k) = from /\ acked2 = ends[m]
      /\ \A j \in k .. m - 1 : Length(j) % BufSize = 0
  BY Zenon, <1>1, <1>2 DEF Buffered
<1>6. Base = from /\ Base' = acked2 /\ LastNum' = k
  BY Zenon, <1>1, <1>4 DEF Base, LastNum
<1>7. /\ from \in Nat /\ acked2 \in Nat /\ from <= acked2
      /\ \A j \in 1 .. Len(ends) : ends[j] \in Nat
  BY Zenon, EndsFacts, Offsets
<1>8. Increasing'
  BY Zenon, <1>1 DEF Increasing
<1>9. CopierOK'
  BY Zenon, <1>1, SameEnds DEF CopierOK, At, Whole
<1>10. ReaderOK'
  BY Zenon, <1>1, <1>5 DEF ReaderOK
<1>11. \A i \in 1 .. Len(received) :
           /\ received[i].num \in 1 .. Len(ends)
           /\ ends[received[i].num] <= from
  BY Zenon, <1>1, <1>6 DEF ReceivedOK
<1>12. ReceivedOK'
  <2>1. ASSUME NEW i \in 1 .. n
        PROVE  /\ received'[i].num \in 1 .. Len(ends)
               /\ ends[received'[i].num] <= acked2
    <3>1. CASE i = n
      BY Zenon, <1>2, <1>4, <3>1
    <3>2. CASE i \in 1 .. Len(received)
      BY <1>4, <1>7, <1>11, <3>2
    <3> QED  BY Zenon, <1>4, <3>1, <3>2
  <2> QED  BY Zenon, <1>1, <1>4, <1>6, <2>1 DEF ReceivedOK
<1>13. ReceivedInOrder'
  <2>1. ASSUME NEW i \in 1 .. Len(received)
        PROVE  received[i].num < k
    <3>1. received[i].num \in 1 .. Len(ends) /\ ends[received[i].num] <= Start(k)
      BY Zenon, <1>5, <1>11
    <3>2. k = received[i].num => ends[k] <= Start(k)
      BY Zenon, <3>1
    <3>3. ~(k < received[i].num /\ ends[received[i].num] <= Start(k))
      <4>1. k < received[i].num => ends[k] < ends[received[i].num]
        BY Zenon, <3>1 DEF Increasing
      <4>2. /\ Start(k) \in Nat /\ ends[k] \in Nat /\ Start(k) < ends[k]
            /\ ends[received[i].num] \in Nat
        BY Zenon, <3>1, EndsFacts
      <4> QED  BY <4>1, <4>2
    <3>4. ~(k = received[i].num)
      BY <3>2, EndsFacts
    <3> QED  BY <3>1, <3>3, <3>4
  <2>2. ASSUME NEW i \in 1 .. n
        PROVE  /\ received'[i].whole
               /\ \A j \in 1 .. i - 1 : received'[j].num < received'[i].num
    <3>1. CASE i = n
      <4>1. \A j \in 1 .. n - 1 : j \in 1 .. Len(received)
        BY <1>3
      <4> QED  BY Zenon, <1>4, <2>1, <3>1, <4>1
    <3>2. CASE i \in 1 .. Len(received)
      <4>1. \A j \in 1 .. i - 1 : j \in 1 .. Len(received)
        BY <3>2, ReceivedEntry
      <4> QED  BY Zenon, <1>4, <3>2, <4>1 DEF ReceivedInOrder
    <3> QED  BY Zenon, <1>4, <3>1, <3>2
  <2> QED  BY Zenon, <1>4, <2>2 DEF ReceivedInOrder
<1>14. HiddenOK'
  <2>1. ASSUME NEW j \in k + 1 .. Len(ends), ends[j] <= acked2
        PROVE  j > 1 /\ Length(j - 1) % BufSize = 0
    <3>1. j \in 1 .. Len(ends) /\ j > 1 /\ k <= j - 1
      BY EndsFacts
    <3>2. m < j => ends[m] < ends[j]
      BY Zenon, <3>1 DEF Increasing
    <3>3. ~(m < j)
      BY <1>5, <1>7, <2>1, <3>1, <3>2
    <3>4. j - 1 \in k .. m - 1
      BY <3>1, <3>3
    <3> QED  BY Zenon, <1>5, <3>1, <3>4
  <2> QED  BY Zenon, <1>1, <1>6, <2>1, SameEnds DEF HiddenOK
<1>15. SkipsOnlyFullBuffers'
  <2>1. SUFFICES ASSUME ~quit PROVE SkipsOnlyFullBuffers'
    BY Zenon, <1>1 DEF SkipsOnlyFullBuffers
  <2>2. ASSUME NEW i \in 1 .. n,
               NEW j \in (IF i = 1 THEN 0 ELSE received'[i - 1].num) + 1
                             .. received'[i].num - 1
        PROVE  j > 1 /\ Length(j - 1) % BufSize = 0
    <3>1. CASE i = n
      <4>1. (IF i = 1 THEN 0 ELSE received'[i - 1].num) = LastNum
        <5>1. n - 1 = Len(received) /\ (n = 1 <=> received = <<>>)
          <6>1. received \in Seq([num : 0 .. MaxMsgs, whole : BOOLEAN])
            BY Zenon DEF TypeOK
          <6> QED  BY <1>3, <6>1
        <5>2. n # 1 => Len(received) \in 1 .. Len(received)
          BY <1>3, ReceivedEntry
        <5> QED  BY Zenon, <1>4, <3>1, <5>1, <5>2 DEF LastNum
      <4>2. j \in LastNum + 1 .. k - 1 /\ j \in LastNum + 1 .. Len(ends) /\ j \in 1 .. Len(ends) /\ j < k
        <5>1. j \in LastNum + 1 .. k - 1
          BY Zenon, <1>4, <2>2, <3>1, <4>1
        <5> QED  BY <5>1, ReceivedEntry, EndsFacts
      <4>3. ends[j] <= from
        BY Zenon, <1>5, <4>2, EndsFacts
      <4> QED  BY Zenon, <1>1, <1>6, <2>1, <4>2, <4>3 DEF HiddenOK
    <3>2. CASE i \in 1 .. Len(received)
      <4>1. i # 1 => i - 1 \in 1 .. Len(received)
        BY <3>2, ReceivedEntry
      <4> QED  BY Zenon, <1>4, <2>1, <2>2, <3>2, <4>1 DEF SkipsOnlyFullBuffers
    <3> QED  BY Zenon, <1>4, <3>1, <3>2
  <2>3. \A i \in 1 .. n :
            \A j \in (IF i = 1 THEN 0 ELSE received'[i - 1].num) + 1
                         .. received'[i].num - 1 :
                j > 1 /\ Length(j - 1)' % BufSize = 0
    BY Zenon, <1>1, <2>2, SameEnds
  <2> QED  BY Zenon, <1>4, <2>3 DEF SkipsOnlyFullBuffers
<1> QED  BY Zenon, <1>8, <1>9, <1>10, <1>12, <1>13, <1>14, <1>15

-------------------------------------------------------------------------------
(***************************************************************************)
(* The theorems.                                                           *)
(***************************************************************************)
\* A new stream holds nothing.
LEMMA InitIInv == Init => IInv
<1> SUFFICES ASSUME Init PROVE IInv
  BY Zenon
<1> USE SizeAssumption DEF Init
<1>1. Len(ends) = 0 /\ Len(received) = 0 /\ Written = 0
  BY Zenon DEF Written
<1>2. TypeOK
  <2>1. ends \in Seq(Nat) /\ Len(ends) <= MaxMsgs
    BY <1>1
  <2>2. acked1 \in 0 .. Written /\ acked2 \in 0 .. acked1 /\ from \in 0 .. acked2
    BY <1>1
  <2>3. msg \in [num : 0 .. MaxMsgs, whole : BOOLEAN]
    BY DEF NoMsg
  <2>4. received \in Seq([num : 0 .. MaxMsgs, whole : BOOLEAN])
    OBVIOUS
  <2> QED  BY Zenon, <2>1, <2>2, <2>3, <2>4 DEF TypeOK
<1>3. Increasing /\ CopierOK /\ ReaderOK
  BY <1>1 DEF Increasing, CopierOK, ReaderOK
<1>4. ReceivedOK /\ ReceivedInOrder /\ SkipsOnlyFullBuffers
  BY <1>1 DEF ReceivedOK, ReceivedInOrder, SkipsOnlyFullBuffers
<1>5. HiddenOK
  BY <1>1 DEF HiddenOK, LastNum
<1> QED  BY Zenon, <1>2, <1>3, <1>4, <1>5 DEF IInv

\* Every step of the mailbox preserves the invariant.
LEMMA StepIInv ==
    ASSUME IInv, [Next]_vars
    PROVE  IInv'
<1>1. TypeOK'
  BY Zenon, TypeStep DEF IInv
<1>2. CopierOK
  BY Zenon DEF IInv
<1> USE DEF sender, pipes, reader, receiver, shutdown, CopierOK
<1>3. CASE SendStream
  BY Zenon, <1>1, <1>2, <1>3, QuietStep DEF SendStream
<1>4. CASE SenderHangsUp
  BY Zenon, <1>1, <1>2, <1>4, QuietStep DEF SenderHangsUp
<1>5. CASE SenderRecv
  BY Zenon, <1>1, <1>2, <1>5, QuietStep DEF SenderRecv
<1>6. CASE SenderSeesHangUp
  BY Zenon, <1>1, <1>2, <1>6, QuietStep DEF SenderSeesHangUp, SenderExit
<1>7. ASSUME NEW len \in Lengths, WriteMsg(len)
      PROVE  IInv'
  BY Zenon, <1>1, <1>7, WriteMsgStep
<1>8. CASE WriteReturns
  BY Zenon, <1>1, <1>2, <1>8, QuietStep DEF WriteReturns
<1>9. CASE WriteFails
  BY Zenon, <1>1, <1>2, <1>9, QuietStep DEF WriteFails, SenderExit
<1>10. CASE CopierRead
  BY Zenon, <1>1, <1>10, CopierReadStep
<1>11. CASE CopierWriteReturns
  BY Zenon, <1>1, <1>2, <1>11, QuietStep DEF CopierWriteReturns
<1>12. CASE CopierEOF
  BY Zenon, <1>1, <1>2, <1>12, QuietStep DEF CopierEOF
<1>13. CASE ReaderRead
  BY Zenon, <1>1, <1>13, ReaderReadStep
<1>14. CASE ReaderEOF
  BY Zenon, <1>1, <1>14, ReaderEndStep
<1>15. CASE ReaderQuit
  BY Zenon, <1>1, <1>15, ReaderEndStep
<1>16. CASE RecvStream
  BY Zenon, <1>1, <1>2, <1>16, QuietStep DEF RecvStream
<1>17. CASE ReceiverHangsUp
  BY Zenon, <1>1, <1>2, <1>17, QuietStep DEF ReceiverHangsUp
<1>18. CASE ReadNextMsg
  BY Zenon, <1>1, <1>18, ReadNextMsgStep
<1>19. CASE ReceiverError
  BY Zenon, <1>1, <1>2, <1>19, QuietStep DEF ReceiverError
<1>20. CASE ReceiverSeesHangUp
  BY Zenon, <1>1, <1>2, <1>20, QuietStep DEF ReceiverSeesHangUp
<1>21. CASE SendToClient
  BY Zenon, <1>1, <1>2, <1>21, QuietStep DEF SendToClient
<1>22. CASE TearDownClose
  BY Zenon, <1>1, <1>2, <1>22, QuietStep DEF TearDownClose
<1>23. CASE TearDownQuit
  BY Zenon, <1>1, <1>2, <1>23, QuietStep DEF TearDownQuit
<1>24. CASE UNCHANGED vars
  BY Zenon, <1>1, <1>2, <1>24, QuietStep DEF vars
<1> QED
  BY Zenon, <1>3, <1>4, <1>5, <1>6, <1>7, <1>8, <1>9, <1>10, <1>11,
     <1>12, <1>13, <1>14, <1>15, <1>16, <1>17, <1>18, <1>19, <1>20,
     <1>21, <1>22, <1>23, <1>24 DEF Next

\* The invariant holds throughout.
LEMMA Invariant == Spec => []IInv
<1>1. IInv /\ [Next]_vars => IInv'
  BY Zenon, StepIInv
<1> QED  BY InitIInv, <1>1, PTL DEF Spec

\* The types of the variables: the offsets of the two pipes and of the reader's
\* buffer stay in order, and never pass what was written.
THEOREM TypeCorrect == Spec => []TypeOK
<1>1. IInv => TypeOK
  BY Zenon DEF IInv
<1> QED  BY Invariant, <1>1, PTL

\* ReadNextMsg hands out whole messages, in the order of WriteMsg and each at
\* most once, whatever the lengths and wherever handlers hang up and tearDown
\* comes in.
THEOREM InOrder == Spec => []ReceivedInOrder
<1>1. IInv => ReceivedInOrder
  BY Zenon DEF IInv
<1> QED  BY Invariant, <1>1, PTL

\* Before quit is closed a message is lost only behind one that fills the
\* reader's buffer exactly (the loop of newStream that reads on after a full
\* buffer).
THEOREM OnlyFullBuffersHide == Spec => []SkipsOnlyFullBuffers
<1>1. IInv => SkipsOnlyFullBuffers
  BY Zenon DEF IInv
<1> QED  BY Invariant, <1>1, PTL
===============================================================================
