------------------------- MODULE L402Client_proofs -------------------------
(***************************************************************************)
(* Proofs about L402Client, for any number of calls, invoices and crashes: *)
(* no double payment, no forgotten payment, no unpaid credential, and the  *)
(* refinement of TokenCell.                                                *)
(***************************************************************************)
EXTENDS L402Client, TLAPS

(***************************************************************************)
(* The inductive invariant.  Files: which file may hold what, and that the *)
(* old names are empty once the store is up.  Ledger: lnd knows no payment *)
(* that the cell does not hold.  Mutex and Locals: what the call that      *)
(* holds the mutex knows about the cell at each of its steps.              *)
(***************************************************************************)
Files ==
    /\ \A n \in Names : (file[n].hash = None) <=> (file[n].kind \in {"absent", "torn"})
    /\ file["oldPaid"].kind \in {"absent", "paid"}
    /\ file["oldPending"].kind \in {"absent", "pending"}
    /\ file["oldPaid"].kind # "absent" => boot = "down" /\ file["paid"].kind = "absent"
    /\ file["oldPending"].kind # "absent" => boot # "up" /\ file["pending"].kind = "absent"
    /\ file["paid"].kind = "torn" => file["pending"].kind = "pending"

Ledger ==
    /\ \A h \in Hashes : pay[h] \in {"inflight", "succeeded"} => Cell.hash = h
    /\ Cell.kind \in {"paid", "torn"} /\ Cell.hash # None => pay[Cell.hash] = "succeeded"

Mutex == \A c \in Calls : pc[c] # "idle" => lock = c /\ boot = "up"

Unpaid(h) == h # None => pay[h] = "none"

Local(c) ==
    /\ pc[c] = "send" => tok[c] = Cell /\ Cell.kind # "torn"
    /\ pc[c] = "track" => tok[c] = Cell /\ Cell.kind = "pending" /\ Unpaid(inv[c])
    /\ pc[c] = "drop" => Cell.kind = "pending" /\ pay[Cell.hash] = "failed" /\ Unpaid(inv[c])
    /\ pc[c] = "reserve" => Cell = NoToken /\ Unpaid(inv[c])
    /\ pc[c] = "write" =>
          \/ /\ tok[c] = Token("pending", inv[c]) /\ inv[c] # None
             /\ pay[inv[c]] = "none" /\ Cell = Token("torn", None)
          \/ /\ tok[c] = Token("paid", tok[c].hash) /\ tok[c].hash # None
             /\ Cell = Token("torn", tok[c].hash)
    /\ pc[c] = "pay" => inv[c] # None /\ pay[inv[c]] = "none" /\ Cell = Token("pending", inv[c])
    /\ pc[c] = "paying" => inv[c] # None /\ Cell = Token("pending", inv[c])
    /\ pc[c] = "settle" => /\ tok[c] = Token("paid", tok[c].hash) /\ tok[c].hash # None
                           /\ pay[tok[c].hash] = "succeeded"
                           /\ Cell = Token("pending", tok[c].hash)
    /\ pc[c] \in {"remove", "resend"} => tok[c].kind = "paid" /\ tok[c] = Cell

Locals == \A c \in Calls : Local(c)

IInv == TypeOK /\ Files /\ Ledger /\ Mutex /\ Locals

(***************************************************************************)
(* What each action does to the cell.                                      *)
(***************************************************************************)
\* The cell of files that keep to their names: an empty cell has no hash,
\* every other whole token has one.
LEMMA CellType ==
    ASSUME TypeOK, Files
    PROVE  /\ Cell \in Tokens
           /\ Cell.kind = "absent" => Cell = NoToken
           /\ Cell.kind \in {"pending", "paid"} => Cell.hash \in Hashes
           /\ Cell = Token(Cell.kind, Cell.hash)
<1> USE ClientAssumption DEF TypeOK, Files, Tokens, Names, Token, NoToken
<1> DEFINE paid == Stored(file, "paid", "oldPaid")
           pending == Stored(file, "pending", "oldPending")
<1>1. /\ paid \in Tokens /\ pending \in Tokens
      /\ (paid.hash = None) <=> (paid.kind \in {"absent", "torn"})
      /\ (pending.hash = None) <=> (pending.kind \in {"absent", "torn"})
    BY Zenon DEF Stored
<1>2. Cell = IF paid.kind = "absent" THEN pending
             ELSE IF paid.kind = "torn" THEN Token("torn", pending.hash) ELSE paid
    BY Zenon DEF Cell, CellIn
<1> HIDE DEF paid, pending
<1> QED
    BY Zenon, <1>1, <1>2

\* Once the store is up the old names are out of the picture.
LEMMA UpCell ==
    ASSUME NEW f,
           f["oldPaid"] = NoToken, f["oldPending"] = NoToken,
           f["pending"].kind = "absent" => f["pending"] = NoToken
    PROVE  CellIn(f) = IF f["paid"].kind = "absent" THEN f["pending"]
                       ELSE IF f["paid"].kind = "torn" THEN Token("torn", f["pending"].hash)
                       ELSE f["paid"]
<1> USE DEF Token, NoToken
<1>2. Stored(f, "pending", "oldPending") = f["pending"]
    BY Zenon DEF Stored
<1>3. f["paid"].kind # "absent" => Stored(f, "paid", "oldPaid") = f["paid"]
    BY Zenon DEF Stored
<1>4. f["paid"].kind = "absent" => Stored(f, "paid", "oldPaid") = NoToken
    BY Zenon DEF Stored
<1> QED
    BY <1>2, <1>3, <1>4 DEF CellIn

\* While the client is up, the files of the older version are gone.
LEMMA UpFiles ==
    ASSUME TypeOK, Files, boot = "up"
    PROVE  /\ file \in [Names -> Tokens]
           /\ file["oldPaid"] = NoToken /\ file["oldPending"] = NoToken
           /\ file["pending"].kind = "absent" => file["pending"] = NoToken
           /\ file["paid"].kind = "absent" => file["paid"] = NoToken
           /\ Cell = IF file["paid"].kind = "absent" THEN file["pending"]
                       ELSE IF file["paid"].kind = "torn" THEN Token("torn", file["pending"].hash)
                       ELSE file["paid"]
<1> USE ClientAssumption DEF TypeOK, Files, Tokens, Names, Token, NoToken
<1>1. /\ file \in [Names -> Tokens]
      /\ file["oldPaid"] = NoToken /\ file["oldPending"] = NoToken
      /\ file["pending"].kind = "absent" => file["pending"] = NoToken
      /\ file["paid"].kind = "absent" => file["paid"] = NoToken
    BY Zenon
<1> HIDE DEF TypeOK, Files, Tokens, Names, Token, NoToken
<1> QED
    BY Zenon, <1>1, UpCell DEF Cell

\* As long as no file changes the cell does not.
LEMMA CellSame == ASSUME file' = file PROVE Cell' = Cell
BY Zenon DEF Cell, CellIn, Stored

\* Moving a file to its new name keeps the cell.
LEMMA CellRename ==
    ASSUME TypeOK, Files, StartRename \/ Started
    PROVE  Cell' = Cell
<1> USE ClientAssumption DEF TypeOK, Files, Tokens, Names, Token, NoToken
<1>1. /\ Stored(file', "paid", "oldPaid") = Stored(file, "paid", "oldPaid")
      /\ Stored(file', "pending", "oldPending") = Stored(file, "pending", "oldPending")
    BY DEF StartRename, Started, Rename, Stored
<1> QED
    BY Zenon, <1>1 DEF Cell, CellIn

\* Opening a file tears the cell, which keeps the hash it had.
LEMMA CellOpen ==
    ASSUME TypeOK, Files, Mutex, Locals, NEW c \in Calls, OpenFile(c)
    PROVE  /\ Cell' = Token("torn", Cell.hash)
           /\ pc[c] = "reserve" => Cell = NoToken /\ file["paid"].kind = "absent"
           /\ pc[c] = "settle" => /\ Cell = Token("pending", tok[c].hash)
                                  /\ file["paid"].kind = "absent" /\ file["pending"] = Cell
           /\ file' = [file EXCEPT ![IF pc[c] = "reserve" THEN "pending" ELSE "paid"]
                                       = Token("torn", None)]
<1>1. boot = "up" /\ Local(c) /\ pc[c] \in {"reserve", "settle"}
    BY Zenon DEF OpenFile, Mutex, Locals
<1> USE ClientAssumption DEF Tokens, Names, Token, NoToken
<1>2. CASE pc[c] = "reserve"
  <2>1. Cell = NoToken /\ file["paid"].kind = "absent" /\ file["pending"].kind = "absent"
      BY <1>1, <1>2, UpFiles DEF Local, Files
  <2>2. file' = [file EXCEPT !["pending"] = Token("torn", None)]
      BY Zenon, <1>2, <2>1 DEF OpenFile, ToStore, StoreTarget, CurrentToken
  <2>4. /\ file'["pending"] = Token("torn", None) /\ file'["paid"] = file["paid"]
        /\ file'["oldPaid"] = NoToken /\ file'["oldPending"] = NoToken
      BY Zenon, <1>1, <2>2, UpFiles
  <2>3. CellIn(file') = Token("torn", None)
      BY <2>1, <2>4, UpCell
  <2> QED
      BY <1>2, <2>1, <2>2, <2>3 DEF Cell
<1>3. CASE pc[c] = "settle"
  <2>5. Cell = Token("pending", tok[c].hash)
      BY Zenon, <1>1, <1>3 DEF Local
  <2>1. /\ Cell = Token("pending", tok[c].hash) /\ file["paid"].kind = "absent"
        /\ file["pending"] = Cell
      BY <1>1, <2>5, UpFiles DEF TypeOK
  <2>2. file' = [file EXCEPT !["paid"] = Token("torn", None)]
      BY Zenon, <1>3, <2>1 DEF OpenFile, ToStore, StoreTarget, CurrentToken
  <2>4. /\ file'["paid"] = Token("torn", None) /\ file'["pending"] = Cell
        /\ file'["oldPaid"] = NoToken /\ file'["oldPending"] = NoToken
      BY Zenon, <1>1, <2>1, <2>2, UpFiles
  <2>3. CellIn(file') = Token("torn", Cell.hash)
      BY <2>1, <2>4, UpCell
  <2> QED
      BY Zenon, <1>3, <2>1, <2>2, <2>3 DEF Cell
<1> QED
    BY Zenon, <1>1, <1>2, <1>3

\* The write that completes puts the token of the call into the cell.
LEMMA CellWrite ==
    ASSUME TypeOK, Files, Mutex, Locals, NEW c \in Calls, WriteDone(c)
    PROVE  Cell' = tok[c]
<1>1. boot = "up" /\ Local(c) /\ pc[c] = "write"
    BY Zenon DEF WriteDone, Mutex, Locals
<1> USE ClientAssumption DEF Tokens, Names, Token, NoToken
<1>2. CASE tok[c].kind = "pending"
  <2>1. file["paid"].kind = "absent" /\ tok[c] = Token("pending", inv[c]) /\ inv[c] \in Hashes
      BY <1>1, <1>2, UpFiles DEF Local, Files, TypeOK
  <2>2. file' = [file EXCEPT !["pending"] = tok[c]]
      BY Zenon, <1>2 DEF WriteDone
  <2>4. /\ file'["pending"] = tok[c] /\ file'["paid"] = file["paid"]
        /\ file'["oldPaid"] = NoToken /\ file'["oldPending"] = NoToken
      BY Zenon, <1>1, <2>2, UpFiles
  <2>3. CellIn(file') = tok[c]
      BY <2>1, <2>4, UpCell
  <2> QED
      BY Zenon, <2>3 DEF Cell
<1>3. CASE tok[c].kind = "paid"
  <2>1. tok[c] = Token("paid", tok[c].hash) /\ tok[c].hash \in Hashes
      BY <1>1, <1>3 DEF Local, TypeOK
  <2>2. file' = [file EXCEPT !["paid"] = tok[c]]
      BY Zenon, <1>3 DEF WriteDone
  <2>4. /\ file'["paid"] = tok[c] /\ file'["pending"] = file["pending"]
        /\ file'["oldPaid"] = NoToken /\ file'["oldPending"] = NoToken
      BY Zenon, <1>1, <2>2, UpFiles
  <2>3. CellIn(file') = tok[c]
      BY <1>1, <2>1, <2>4, UpCell, UpFiles
  <2> QED
      BY Zenon, <2>3 DEF Cell
<1> QED
    BY <1>1, <1>2, <1>3 DEF Local

\* Removing the pending file behind a paid one keeps the cell.
LEMMA CellRemove ==
    ASSUME TypeOK, Files, Mutex, Locals, NEW c \in Calls, RemovePending(c)
    PROVE  Cell' = Cell /\ file["paid"].kind = "paid"
<1>1. boot = "up" /\ Local(c) /\ pc[c] = "remove"
    BY Zenon DEF RemovePending, Mutex, Locals
<1> USE ClientAssumption DEF Tokens, Names, Token, NoToken
<1>2. file["paid"].kind = "paid" /\ Cell = file["paid"]
  <2>1. Cell.kind = "paid"
      BY Zenon, <1>1 DEF Local
  <2>2. file["pending"].kind # "paid"
      BY Zenon DEF TypeOK
  <2> QED
      BY <1>1, <2>1, <2>2, UpFiles
<1>3. CASE file' = file
    BY Zenon, <1>2, <1>3, CellSame
<1>4. CASE file' = [file EXCEPT !["pending"] = NoToken]
  <2>2. /\ file'["pending"] = NoToken /\ file'["paid"] = file["paid"]
        /\ file'["oldPaid"] = NoToken /\ file'["oldPending"] = NoToken
      BY Zenon, <1>1, <1>4, UpFiles
  <2>1. CellIn(file') = file["paid"]
      BY Zenon, <1>2, <2>2, UpCell
  <2> QED
      BY Zenon, <1>2, <2>1 DEF Cell
<1> QED
    BY Zenon, <1>2, <1>3, <1>4 DEF RemovePending

\* Dropping the pending token empties the cell.
LEMMA CellDrop ==
    ASSUME TypeOK, Files, Mutex, Locals, NEW c \in Calls, DropPending(c)
    PROVE  Cell' = NoToken /\ file["paid"].kind = "absent"
<1>1. boot = "up" /\ Local(c) /\ pc[c] = "drop"
    BY Zenon DEF DropPending, Mutex, Locals
<1> USE ClientAssumption DEF Tokens, Names, Token, NoToken
<1>2. file["paid"].kind = "absent"
    BY <1>1, UpFiles DEF Local, Files, TypeOK
<1>3. file' = [file EXCEPT !["pending"] = NoToken]
    BY Zenon DEF DropPending
<1>5. /\ file'["pending"] = NoToken /\ file'["paid"] = file["paid"]
      /\ file'["oldPaid"] = NoToken /\ file'["oldPending"] = NoToken
    BY Zenon, <1>1, <1>3, UpFiles
<1>4. CellIn(file') = NoToken
    BY Zenon, <1>2, <1>5, UpCell
<1> QED
    BY Zenon, <1>2, <1>4 DEF Cell

\* Every step keeps the types, and each kind of token in its own file.
LEMMA TypeStep ==
    ASSUME TypeOK, Files, Mutex, Locals, [Next]_vars
    PROVE  TypeOK'
<1> USE ClientAssumption DEF TypeOK, PayStates, Local, Locals, Tokens, Names,
        Token, NoToken, disk, locals
<1>1. CASE StartRename
    BY Zenon, <1>1 DEF StartRename, Rename, Files
<1>2. CASE Started
    BY Zenon, <1>2 DEF Started, Rename, Files
<1>3. ASSUME NEW c \in Calls, Enter(c) PROVE TypeOK'
    BY Zenon, <1>3 DEF Enter, Goto, CurrentToken
<1>4. ASSUME NEW c \in Calls, StoreUnreadable(c) PROVE TypeOK'
    BY Zenon, <1>4 DEF StoreUnreadable, vars
<1>5. ASSUME NEW c \in Calls, SendReturns(c) PROVE TypeOK'
    BY Zenon, <1>5 DEF SendReturns, Return
<1>6. ASSUME NEW c \in Calls, Challenged(c) PROVE TypeOK'
    BY <1>6 DEF Challenged, Goto, Decision, Challenges
<1>7. ASSUME NEW c \in Calls, OpenFile(c) PROVE TypeOK'
    BY Zenon, <1>7 DEF OpenFile, Goto, ToStore, StoreTarget, CurrentToken
<1>8. ASSUME NEW c \in Calls, StoreFails(c) PROVE TypeOK'
    BY Zenon, <1>8 DEF StoreFails, Return
<1>9. ASSUME NEW c \in Calls, WriteDone(c) PROVE TypeOK'
    BY Zenon, <1>9 DEF WriteDone, Goto
<1>10. ASSUME NEW c \in Calls, WriteFails(c) PROVE TypeOK'
    BY Zenon, <1>10 DEF WriteFails, Return
<1>11. ASSUME NEW c \in Calls, RemovePending(c) PROVE TypeOK'
    BY <1>11 DEF RemovePending, Goto
<1>12. ASSUME NEW c \in Calls, PayInvoice(c) PROVE TypeOK'
    BY <1>12 DEF PayInvoice, Goto
<1>13. ASSUME NEW c \in Calls, PaySucceeded(c) PROVE TypeOK'
    BY Zenon, <1>13 DEF PaySucceeded, Goto
<1>14. ASSUME NEW c \in Calls, PayAborted(c) PROVE TypeOK'
    BY Zenon, <1>14 DEF PayAborted, Return
<1>15. ASSUME NEW c \in Calls, TrackSucceeded(c) PROVE TypeOK'
    BY Zenon, <1>15 DEF TrackSucceeded, Goto
<1>16. ASSUME NEW c \in Calls, TrackFailed(c) PROVE TypeOK'
    BY Zenon, <1>16 DEF TrackFailed, Goto
<1>17. ASSUME NEW c \in Calls, TrackAborted(c) PROVE TypeOK'
    BY Zenon, <1>17 DEF TrackAborted, Return
<1>18. ASSUME NEW c \in Calls, DropPending(c) PROVE TypeOK'
    BY Zenon, <1>18 DEF DropPending, Goto
<1>19. ASSUME NEW c \in Calls, DropFails(c) PROVE TypeOK'
    BY Zenon, <1>19 DEF DropFails, Return
<1>20. ASSUME NEW c \in Calls, Resend(c) PROVE TypeOK'
    BY Zenon, <1>20 DEF Resend, Return
<1>21. ASSUME NEW h \in Hashes, LndResolves(h) PROVE TypeOK'
    BY <1>21 DEF LndResolves
<1>22. CASE Crash
    BY <1>22 DEF Crash
<1>23. CASE UNCHANGED vars
    BY Zenon, <1>23 DEF vars
<1> HIDE DEF TypeOK, PayStates, Local, Locals, Tokens, Names, Token, NoToken,
        disk, locals
<1> QED
    BY Zenon, <1>1, <1>2, <1>3, <1>4, <1>5, <1>6, <1>7, <1>8, <1>9, <1>10, <1>11,
       <1>12, <1>13, <1>14, <1>15, <1>16, <1>17, <1>18, <1>19, <1>20, <1>21,
       <1>22, <1>23 DEF Next

\* Every step keeps the old and the new file names apart.
LEMMA FilesStep ==
    ASSUME TypeOK, Files, Mutex, Locals, [Next]_vars
    PROVE  Files'
<1> USE ClientAssumption DEF TypeOK, Files, Mutex, Local, Locals, Tokens,
        Names, Token, NoToken, disk, locals
<1>1. CASE StartRename
    BY <1>1 DEF StartRename, Rename
<1>2. CASE Started
    BY <1>2 DEF Started, Rename
<1>3. ASSUME NEW c \in Calls, Enter(c) PROVE Files'
    BY Zenon, <1>3 DEF Enter, Goto, CurrentToken
<1>4. ASSUME NEW c \in Calls, StoreUnreadable(c) PROVE Files'
    BY Zenon, <1>4 DEF StoreUnreadable, vars
<1>5. ASSUME NEW c \in Calls, SendReturns(c) PROVE Files'
    BY Zenon, <1>5 DEF SendReturns, Return
<1>6. ASSUME NEW c \in Calls, Challenged(c) PROVE Files'
    BY Zenon, <1>6 DEF Challenged, Goto, Decision, Challenges
<1>7. ASSUME NEW c \in Calls, OpenFile(c) PROVE Files'
  <2>1. boot = "up" /\ boot' = boot /\ pc[c] \in {"reserve", "settle"}
      BY Zenon, <1>7 DEF OpenFile
  <2>2. CASE pc[c] = "reserve"
    <3>1. /\ file' = [file EXCEPT !["pending"] = Token("torn", None)]
          /\ file["paid"].kind = "absent"
        BY Zenon, <1>7, <2>2, CellOpen
    <3> QED
        BY Zenon, <2>1, <3>1 DEF Files
  <2>3. CASE pc[c] = "settle"
    <3>1. /\ file' = [file EXCEPT !["paid"] = Token("torn", None)]
          /\ file["pending"].kind = "pending"
        BY <1>7, <2>3, CellOpen
    <3> QED
        BY <2>1, <3>1 DEF Files
  <2> QED
      BY Zenon, <2>1, <2>2, <2>3
<1>8. ASSUME NEW c \in Calls, StoreFails(c) PROVE Files'
    BY Zenon, <1>8 DEF StoreFails, Return
<1>9. ASSUME NEW c \in Calls, WriteDone(c) PROVE Files'
    BY <1>9, CellWrite DEF WriteDone, Goto
<1>10. ASSUME NEW c \in Calls, WriteFails(c) PROVE Files'
    BY Zenon, <1>10 DEF WriteFails, Return
<1>11. ASSUME NEW c \in Calls, RemovePending(c) PROVE Files'
  <2>1. boot = "up" /\ boot' = boot /\ file["paid"].kind \in {"absent", "paid"}
      BY Zenon, <1>11, CellRemove DEF RemovePending, Goto
  <2>2. file' = file \/ file' = [file EXCEPT !["pending"] = NoToken]
      BY Zenon, <1>11 DEF RemovePending
  <2> QED
      BY <2>1, <2>2 DEF Files
<1>12. ASSUME NEW c \in Calls, PayInvoice(c) PROVE Files'
    BY Zenon, <1>12 DEF PayInvoice, Goto
<1>13. ASSUME NEW c \in Calls, PaySucceeded(c) PROVE Files'
    BY Zenon, <1>13 DEF PaySucceeded, Goto
<1>14. ASSUME NEW c \in Calls, PayAborted(c) PROVE Files'
    BY Zenon, <1>14 DEF PayAborted, Return
<1>15. ASSUME NEW c \in Calls, TrackSucceeded(c) PROVE Files'
    BY Zenon, <1>15 DEF TrackSucceeded, Goto
<1>16. ASSUME NEW c \in Calls, TrackFailed(c) PROVE Files'
    BY Zenon, <1>16 DEF TrackFailed, Goto
<1>17. ASSUME NEW c \in Calls, TrackAborted(c) PROVE Files'
    BY Zenon, <1>17 DEF TrackAborted, Return
<1>18. ASSUME NEW c \in Calls, DropPending(c) PROVE Files'
  <2>1. boot = "up" /\ boot' = boot /\ file["paid"].kind \in {"absent", "paid"}
      BY Zenon, <1>18, CellDrop DEF DropPending, Goto
  <2>2. file' = file \/ file' = [file EXCEPT !["pending"] = NoToken]
      BY Zenon, <1>18 DEF DropPending
  <2> QED
      BY <2>1, <2>2 DEF Files
<1>19. ASSUME NEW c \in Calls, DropFails(c) PROVE Files'
    BY Zenon, <1>19 DEF DropFails, Return
<1>20. ASSUME NEW c \in Calls, Resend(c) PROVE Files'
    BY <1>20 DEF Resend, Return
<1>21. ASSUME NEW h \in Hashes, LndResolves(h) PROVE Files'
    BY Zenon, <1>21 DEF LndResolves
<1>22. CASE Crash
    BY Zenon, <1>22 DEF Crash
<1>23. CASE UNCHANGED vars
    BY Zenon, <1>23 DEF vars
<1> HIDE DEF TypeOK, Files, Mutex, Local, Locals, Tokens, Names, Token,
        NoToken, disk, locals
<1> QED
    BY Zenon, <1>1, <1>2, <1>3, <1>4, <1>5, <1>6, <1>7, <1>8, <1>9, <1>10, <1>11,
       <1>12, <1>13, <1>14, <1>15, <1>16, <1>17, <1>18, <1>19, <1>20, <1>21,
       <1>22, <1>23 DEF Next

\* Only the holder of the mutex is past the lock.
LEMMA MutexStep ==
    ASSUME TypeOK, Mutex, [Next]_vars
    PROVE  Mutex'
<1> USE ClientAssumption DEF TypeOK, Mutex, disk, locals
<1>1. CASE StartRename
    BY Zenon, <1>1 DEF StartRename, Rename
<1>2. CASE Started
    BY Zenon, <1>2 DEF Started, Rename
<1>3. ASSUME NEW c \in Calls, Enter(c) PROVE Mutex'
    BY Zenon, <1>3 DEF Enter, Goto, CurrentToken
<1>4. ASSUME NEW c \in Calls, StoreUnreadable(c) PROVE Mutex'
    BY Zenon, <1>4 DEF StoreUnreadable, vars
<1>5. ASSUME NEW c \in Calls, SendReturns(c) PROVE Mutex'
    BY Zenon, <1>5 DEF SendReturns, Return
<1>6. ASSUME NEW c \in Calls, Challenged(c) PROVE Mutex'
    BY Zenon, <1>6 DEF Challenged, Goto, Decision, Challenges
<1>7. ASSUME NEW c \in Calls, OpenFile(c) PROVE Mutex'
    BY Zenon, <1>7 DEF OpenFile, Goto, ToStore, StoreTarget, CurrentToken
<1>8. ASSUME NEW c \in Calls, StoreFails(c) PROVE Mutex'
    BY Zenon, <1>8 DEF StoreFails, Return
<1>9. ASSUME NEW c \in Calls, WriteDone(c) PROVE Mutex'
    BY Zenon, <1>9 DEF WriteDone, Goto
<1>10. ASSUME NEW c \in Calls, WriteFails(c) PROVE Mutex'
    BY Zenon, <1>10 DEF WriteFails, Return
<1>11. ASSUME NEW c \in Calls, RemovePending(c) PROVE Mutex'
    BY Zenon, <1>11 DEF RemovePending, Goto
<1>12. ASSUME NEW c \in Calls, PayInvoice(c) PROVE Mutex'
    BY Zenon, <1>12 DEF PayInvoice, Goto
<1>13. ASSUME NEW c \in Calls, PaySucceeded(c) PROVE Mutex'
    BY Zenon, <1>13 DEF PaySucceeded, Goto
<1>14. ASSUME NEW c \in Calls, PayAborted(c) PROVE Mutex'
    BY Zenon, <1>14 DEF PayAborted, Return
<1>15. ASSUME NEW c \in Calls, TrackSucceeded(c) PROVE Mutex'
    BY Zenon, <1>15 DEF TrackSucceeded, Goto
<1>16. ASSUME NEW c \in Calls, TrackFailed(c) PROVE Mutex'
    BY Zenon, <1>16 DEF TrackFailed, Goto
<1>17. ASSUME NEW c \in Calls, TrackAborted(c) PROVE Mutex'
    BY Zenon, <1>17 DEF TrackAborted, Return
<1>18. ASSUME NEW c \in Calls, DropPending(c) PROVE Mutex'
    BY Zenon, <1>18 DEF DropPending, Goto
<1>19. ASSUME NEW c \in Calls, DropFails(c) PROVE Mutex'
    BY Zenon, <1>19 DEF DropFails, Return
<1>20. ASSUME NEW c \in Calls, Resend(c) PROVE Mutex'
    BY Zenon, <1>20 DEF Resend, Return
<1>21. ASSUME NEW h \in Hashes, LndResolves(h) PROVE Mutex'
    BY Zenon, <1>21 DEF LndResolves
<1>22. CASE Crash
    BY Zenon, <1>22 DEF Crash
<1>23. CASE UNCHANGED vars
    BY Zenon, <1>23 DEF vars
<1> HIDE DEF TypeOK, Mutex, disk, locals
<1> QED
    BY Zenon, <1>1, <1>2, <1>3, <1>4, <1>5, <1>6, <1>7, <1>8, <1>9, <1>10, <1>11,
       <1>12, <1>13, <1>14, <1>15, <1>16, <1>17, <1>18, <1>19, <1>20, <1>21,
       <1>22, <1>23 DEF Next

\* Every step keeps lnd's payments within what the cell holds.
LEMMA LedgerStep ==
    ASSUME TypeOK, Files, Ledger, Mutex, Locals, [Next]_vars
    PROVE  Ledger'
<1> USE ClientAssumption DEF TypeOK, PayStates, Ledger, Token, NoToken, disk,
        locals
<1>1. CASE StartRename
    BY Zenon, <1>1, CellRename DEF StartRename, Rename
<1>2. CASE Started
    BY Zenon, <1>2, CellRename DEF Started, Rename
<1>3. ASSUME NEW c \in Calls, Enter(c) PROVE Ledger'
    BY Zenon, <1>3, CellSame DEF Enter, Goto, CurrentToken
<1>4. ASSUME NEW c \in Calls, StoreUnreadable(c) PROVE Ledger'
    BY Zenon, <1>4, CellSame DEF StoreUnreadable, vars
<1>5. ASSUME NEW c \in Calls, SendReturns(c) PROVE Ledger'
    BY Zenon, <1>5, CellSame DEF SendReturns, Return
<1>6. ASSUME NEW c \in Calls, Challenged(c) PROVE Ledger'
    BY Zenon, <1>6, CellSame DEF Challenged, Goto, Decision, Challenges
<1>7. ASSUME NEW c \in Calls, OpenFile(c) PROVE Ledger'
  <2>1. Local(c)
      BY Zenon DEF Locals
  <2>2. Cell'.kind = "torn" /\ Cell'.hash = Cell.hash
      BY <1>7, CellOpen
  <2>4. pay' = pay
      BY Zenon, <1>7 DEF OpenFile
  <2>3. Cell.hash # None => pay[Cell.hash] = "succeeded"
      BY <1>7, <2>1, CellOpen DEF OpenFile, Local
  <2> QED
      BY Zenon, <2>2, <2>3, <2>4
<1>8. ASSUME NEW c \in Calls, StoreFails(c) PROVE Ledger'
    BY Zenon, <1>8, CellSame DEF StoreFails, Return
<1>9. ASSUME NEW c \in Calls, WriteDone(c) PROVE Ledger'
  <2>1. Local(c)
      BY Zenon DEF Locals
  <2>2. Cell' = tok[c] /\ pay' = pay
      BY Zenon, <1>9, CellWrite DEF WriteDone
  <2>3. CASE tok[c].kind = "pending" /\ Cell.hash = None
      BY Zenon, <2>2, <2>3
  <2>4. CASE tok[c].hash = Cell.hash /\ Cell.hash # None /\ Cell.kind = "torn"
      BY Zenon, <2>2, <2>4
  <2>5. \/ tok[c].kind = "pending" /\ Cell.hash = None
        \/ tok[c].hash = Cell.hash /\ Cell.hash # None /\ Cell.kind = "torn"
      BY <1>9, <2>1 DEF WriteDone, Local
  <2> QED
      BY Zenon, <2>3, <2>4, <2>5
<1>10. ASSUME NEW c \in Calls, WriteFails(c) PROVE Ledger'
    BY Zenon, <1>10, CellSame DEF WriteFails, Return
<1>11. ASSUME NEW c \in Calls, RemovePending(c) PROVE Ledger'
    BY Zenon, <1>11, CellRemove DEF RemovePending, Goto
<1>12. ASSUME NEW c \in Calls, PayInvoice(c) PROVE Ledger'
  <2>1. Local(c)
      BY Zenon DEF Locals
  <2> QED
      BY <1>12, <2>1, CellSame DEF PayInvoice, Local, Unpaid, Goto
<1>13. ASSUME NEW c \in Calls, PaySucceeded(c) PROVE Ledger'
  <2>1. Local(c)
      BY Zenon DEF Locals
  <2> QED
      BY Zenon, <1>13, <2>1, CellSame DEF PaySucceeded, Local, Unpaid, Goto
<1>14. ASSUME NEW c \in Calls, PayAborted(c) PROVE Ledger'
    BY Zenon, <1>14, CellSame DEF PayAborted, Return
<1>15. ASSUME NEW c \in Calls, TrackSucceeded(c) PROVE Ledger'
    BY Zenon, <1>15, CellSame DEF TrackSucceeded, Goto
<1>16. ASSUME NEW c \in Calls, TrackFailed(c) PROVE Ledger'
    BY Zenon, <1>16, CellSame DEF TrackFailed, Goto
<1>17. ASSUME NEW c \in Calls, TrackAborted(c) PROVE Ledger'
    BY Zenon, <1>17, CellSame DEF TrackAborted, Return
<1>18. ASSUME NEW c \in Calls, DropPending(c) PROVE Ledger'
  <2>1. Local(c)
      BY Zenon DEF Locals
  <2>2. Cell' = NoToken /\ pay' = pay
      BY Zenon, <1>18, CellDrop DEF DropPending
  <2>3. pay[Cell.hash] = "failed"
      BY Zenon, <1>18, <2>1 DEF DropPending, Local
  <2> QED
      BY Zenon, <2>2, <2>3
<1>19. ASSUME NEW c \in Calls, DropFails(c) PROVE Ledger'
    BY Zenon, <1>19, CellSame DEF DropFails, Return
<1>20. ASSUME NEW c \in Calls, Resend(c) PROVE Ledger'
    BY Zenon, <1>20, CellSame DEF Resend, Return
<1>21. ASSUME NEW h \in Hashes, LndResolves(h) PROVE Ledger'
    BY Zenon, <1>21, CellSame DEF LndResolves
<1>22. CASE Crash
    BY Zenon, <1>22, CellSame DEF Crash
<1>23. CASE UNCHANGED vars
    BY Zenon, <1>23, CellSame DEF vars
<1> HIDE DEF TypeOK, PayStates, Ledger, Token, NoToken, disk, locals
<1> QED
    BY Zenon, <1>1, <1>2, <1>3, <1>4, <1>5, <1>6, <1>7, <1>8, <1>9, <1>10, <1>11,
       <1>12, <1>13, <1>14, <1>15, <1>16, <1>17, <1>18, <1>19, <1>20, <1>21,
       <1>22, <1>23 DEF Next

\* A call past the lock is alone: what it does to the files and to itself
\* leaves nothing to show about the other calls.
LEMMA Others ==
    ASSUME TypeOK, Mutex, NEW c \in Calls, NEW l, pc' = [pc EXCEPT ![c] = l],
           pc[c] # "idle" \/ lock = None, Local(c)'
    PROVE  Locals'
<1> SUFFICES ASSUME NEW d \in Calls, d # c PROVE Local(d)'
    BY Zenon DEF Locals
<1>1. pc'[d] = "idle"
    BY Zenon, ClientAssumption DEF TypeOK, Mutex
<1> QED
    BY Zenon, <1>1 DEF Local

\* Every step of a call finds the cell as the call left it.
LEMMA LocalsStep ==
    ASSUME IInv, [Next]_vars
    PROVE  Locals'
<1> USE ClientAssumption DEF IInv
<1>1. CASE StartRename
  <2>1. \A d \in Calls : pc'[d] = "idle"
      BY Zenon, <1>1 DEF StartRename, Mutex, locals
  <2> QED
      BY Zenon, <2>1 DEF Locals, Local
<1>2. CASE Started
  <2>1. \A d \in Calls : pc'[d] = "idle"
      BY Zenon, <1>2 DEF Started, Mutex, locals
  <2> QED
      BY Zenon, <2>1 DEF Locals, Local
<1>3. ASSUME NEW c \in Calls, Enter(c) PROVE Locals'
  <2>1. /\ pc' = [pc EXCEPT ![c] = "send"] /\ pc'[c] = "send"
        /\ pc[c] # "idle" \/ lock = None
      BY Zenon, <1>3 DEF Enter, Goto, TypeOK
  <2>3. Local(c)
      BY Zenon DEF Locals
  <2>2. Local(c)'
      BY <1>3, <2>1, <2>3, CellSame, UpFiles DEF Enter, CurrentToken, Local,
         Unpaid, TypeOK, Token, NoToken, Tokens, disk
  <2> QED
      BY Zenon, <2>1, <2>2, Others
<1>4. ASSUME NEW c \in Calls, StoreUnreadable(c) PROVE Locals'
    BY <1>4, CellSame DEF StoreUnreadable, vars, Locals, Local, Unpaid
<1>5. ASSUME NEW c \in Calls, SendReturns(c) PROVE Locals'
  <2>1. /\ pc' = [pc EXCEPT ![c] = "idle"] /\ pc'[c] = "idle"
        /\ pc[c] # "idle" \/ lock = None
      BY Zenon, <1>5 DEF SendReturns, Return, TypeOK
  <2>2. Local(c)'
      BY Zenon, <2>1 DEF Local
  <2> QED
      BY Zenon, <2>1, <2>2, Others
<1>6. ASSUME NEW c \in Calls, Challenged(c) PROVE Locals'
  <2>1. /\ pc' = [pc EXCEPT ![c] = Decision(tok[c])] /\ pc'[c] = Decision(tok[c])
        /\ pc[c] # "idle" \/ lock = None
      BY Zenon, <1>6 DEF Challenged, Goto, TypeOK
  <2>3. Local(c)
      BY Zenon DEF Locals
  <2>2. Local(c)'
      BY <1>6, <2>1, <2>3, CellSame, CellType DEF Challenged, Decision,
         Challenges, Local, Unpaid, TypeOK, Token, NoToken, Tokens, disk
  <2> QED
      BY Zenon, <2>1, <2>2, Others
<1>7. ASSUME NEW c \in Calls, OpenFile(c) PROVE Locals'
  <2>1. /\ pc' = [pc EXCEPT ![c] = "write"] /\ pc'[c] = "write"
        /\ pc[c] # "idle" \/ lock = None
      BY Zenon, <1>7 DEF OpenFile, Goto, TypeOK
  <2>3. Local(c)
      BY Zenon DEF Locals
  <2>4. /\ pc[c] \in {"reserve", "settle"} /\ tok'[c] = ToStore(c) /\ inv' = inv /\ pay' = pay
        /\ ToStore(c).hash # None /\ inv[c] \in Hashes \union {None}
      BY Zenon, <1>7 DEF OpenFile, TypeOK
  <2>5. /\ Cell' = Token("torn", Cell.hash)
        /\ pc[c] = "reserve" => Cell = NoToken
        /\ pc[c] = "settle" => Cell = Token("pending", tok[c].hash)
      BY Zenon, <1>7, CellOpen
  <2>6. ASSUME pc[c] = "reserve" PROVE Local(c)'
    <3>1. tok'[c] = Token("pending", inv[c]) /\ inv[c] # None /\ Cell' = Token("torn", None)
        BY <2>4, <2>5, <2>6 DEF ToStore, Token, NoToken
    <3>2. pay'[inv[c]] = "none"
        BY Zenon, <2>3, <2>4, <2>6, <3>1 DEF Local, Unpaid
    <3> QED
        BY Zenon, <2>1, <2>4, <3>1, <3>2 DEF Local, Token
  <2>7. ASSUME pc[c] = "settle" PROVE Local(c)'
    <3>1. tok'[c] = Token("paid", tok[c].hash) /\ tok[c].hash # None
        BY Zenon, <2>4, <2>7 DEF ToStore, Token
    <3>2. tok'[c].hash = tok[c].hash /\ Cell' = Token("torn", tok[c].hash)
        BY <2>5, <2>7, <3>1 DEF Token
    <3> QED
        BY Zenon, <2>1, <3>1, <3>2 DEF Local, Token
  <2>2. Local(c)'
      BY Zenon, <2>4, <2>6, <2>7
  <2> QED
      BY Zenon, <2>1, <2>2, Others
<1>8. ASSUME NEW c \in Calls, StoreFails(c) PROVE Locals'
  <2>1. /\ pc' = [pc EXCEPT ![c] = "idle"] /\ pc'[c] = "idle"
        /\ pc[c] # "idle" \/ lock = None
      BY Zenon, <1>8 DEF StoreFails, Return, TypeOK
  <2>2. Local(c)'
      BY Zenon, <2>1 DEF Local
  <2> QED
      BY Zenon, <2>1, <2>2, Others
<1>9. ASSUME NEW c \in Calls, WriteDone(c) PROVE Locals'
  <2>1. /\ pc' = [pc EXCEPT ![c] = IF tok[c].kind = "pending" THEN "pay" ELSE "remove"]
        /\ pc'[c] = IF tok[c].kind = "pending" THEN "pay" ELSE "remove"
        /\ pc[c] # "idle" \/ lock = None
      BY Zenon, <1>9 DEF WriteDone, Goto, TypeOK
  <2>3. Local(c)
      BY Zenon DEF Locals
  <2>4. Cell' = tok[c] /\ tok' = tok /\ inv' = inv /\ pay' = pay /\ pc[c] = "write"
      BY Zenon, <1>9, CellWrite DEF WriteDone
  <2>5. \/ /\ tok[c] = Token("pending", inv[c]) /\ tok[c].kind = "pending"
           /\ inv[c] # None /\ pay[inv[c]] = "none"
        \/ tok[c].kind = "paid"
      BY <2>3, <2>4 DEF Local, Token
  <2>2. Local(c)'
      BY <2>1, <2>4, <2>5 DEF Local
  <2> QED
      BY Zenon, <2>1, <2>2, Others
<1>10. ASSUME NEW c \in Calls, WriteFails(c) PROVE Locals'
  <2>1. /\ pc' = [pc EXCEPT ![c] = "idle"] /\ pc'[c] = "idle"
        /\ pc[c] # "idle" \/ lock = None
      BY Zenon, <1>10 DEF WriteFails, Return, TypeOK
  <2>2. Local(c)'
      BY Zenon, <2>1 DEF Local
  <2> QED
      BY Zenon, <2>1, <2>2, Others
<1>11. ASSUME NEW c \in Calls, RemovePending(c) PROVE Locals'
  <2>1. /\ pc' = [pc EXCEPT ![c] = "resend"] /\ pc'[c] = "resend"
        /\ pc[c] # "idle" \/ lock = None
      BY Zenon, <1>11 DEF RemovePending, Goto, TypeOK
  <2>3. Local(c)
      BY Zenon DEF Locals
  <2>2. Local(c)'
      BY Zenon, <1>11, <2>1, <2>3, CellRemove DEF RemovePending, Goto, Local,
         Unpaid, TypeOK, Token, NoToken, Tokens, disk
  <2> QED
      BY Zenon, <2>1, <2>2, Others
<1>12. ASSUME NEW c \in Calls, PayInvoice(c) PROVE Locals'
  <2>1. /\ pc' = [pc EXCEPT ![c] = "paying"] /\ pc'[c] = "paying"
        /\ pc[c] # "idle" \/ lock = None
      BY Zenon, <1>12 DEF PayInvoice, Goto, TypeOK
  <2>3. Local(c)
      BY Zenon DEF Locals
  <2>2. Local(c)'
      BY Zenon, <1>12, <2>1, <2>3, CellSame DEF PayInvoice, Goto, Local, Unpaid,
         TypeOK, Token, NoToken, Tokens, disk
  <2> QED
      BY Zenon, <2>1, <2>2, Others
<1>13. ASSUME NEW c \in Calls, PaySucceeded(c) PROVE Locals'
  <2>1. /\ pc' = [pc EXCEPT ![c] = "settle"] /\ pc'[c] = "settle"
        /\ pc[c] # "idle" \/ lock = None
      BY Zenon, <1>13 DEF PaySucceeded, Goto, TypeOK
  <2>3. Local(c)
      BY Zenon DEF Locals
  <2>2. Local(c)'
      BY Zenon, <1>13, <2>1, <2>3, CellSame DEF PaySucceeded, Goto, Local, Unpaid,
         TypeOK, Token, NoToken, Tokens, disk
  <2> QED
      BY Zenon, <2>1, <2>2, Others
<1>14. ASSUME NEW c \in Calls, PayAborted(c) PROVE Locals'
  <2>1. /\ pc' = [pc EXCEPT ![c] = "idle"] /\ pc'[c] = "idle"
        /\ pc[c] # "idle" \/ lock = None
      BY Zenon, <1>14 DEF PayAborted, Return, TypeOK
  <2>2. Local(c)'
      BY Zenon, <2>1 DEF Local
  <2> QED
      BY Zenon, <2>1, <2>2, Others
<1>15. ASSUME NEW c \in Calls, TrackSucceeded(c) PROVE Locals'
  <2>1. /\ pc' = [pc EXCEPT ![c] = "settle"] /\ pc'[c] = "settle"
        /\ pc[c] # "idle" \/ lock = None
      BY Zenon, <1>15 DEF TrackSucceeded, Goto, TypeOK
  <2>3. Local(c)
      BY Zenon DEF Locals
  <2>2. Local(c)'
      BY <1>15, <2>1, <2>3, CellSame, CellType DEF TrackSucceeded, Goto,
         Local, Unpaid, TypeOK, Token, NoToken, Tokens, disk
  <2> QED
      BY Zenon, <2>1, <2>2, Others
<1>16. ASSUME NEW c \in Calls, TrackFailed(c) PROVE Locals'
  <2>1. /\ pc' = [pc EXCEPT ![c] = "drop"] /\ pc'[c] = "drop"
        /\ pc[c] # "idle" \/ lock = None
      BY Zenon, <1>16 DEF TrackFailed, Goto, TypeOK
  <2>3. Local(c)
      BY Zenon DEF Locals
  <2>2. Local(c)'
      BY <1>16, <2>1, <2>3, CellSame, CellType DEF TrackFailed, Goto, Local,
         Unpaid, TypeOK, Token, NoToken, Tokens, disk
  <2> QED
      BY Zenon, <2>1, <2>2, Others
<1>17. ASSUME NEW c \in Calls, TrackAborted(c) PROVE Locals'
  <2>1. /\ pc' = [pc EXCEPT ![c] = "idle"] /\ pc'[c] = "idle"
        /\ pc[c] # "idle" \/ lock = None
      BY Zenon, <1>17 DEF TrackAborted, Return, TypeOK
  <2>2. Local(c)'
      BY Zenon, <2>1 DEF Local
  <2> QED
      BY Zenon, <2>1, <2>2, Others
<1>18. ASSUME NEW c \in Calls, DropPending(c) PROVE Locals'
  <2>1. /\ pc' = [pc EXCEPT ![c] = "reserve"] /\ pc'[c] = "reserve"
        /\ pc[c] # "idle" \/ lock = None
      BY Zenon, <1>18 DEF DropPending, Goto, TypeOK
  <2>3. Local(c)
      BY Zenon DEF Locals
  <2>2. Local(c)'
      BY Zenon, <1>18, <2>1, <2>3, CellDrop DEF DropPending, Goto, Local, Unpaid,
         TypeOK, Token, NoToken, Tokens, disk
  <2> QED
      BY Zenon, <2>1, <2>2, Others
<1>19. ASSUME NEW c \in Calls, DropFails(c) PROVE Locals'
  <2>1. /\ pc' = [pc EXCEPT ![c] = "idle"] /\ pc'[c] = "idle"
        /\ pc[c] # "idle" \/ lock = None
      BY Zenon, <1>19 DEF DropFails, Return, TypeOK
  <2>2. Local(c)'
      BY Zenon, <2>1 DEF Local
  <2> QED
      BY Zenon, <2>1, <2>2, Others
<1>20. ASSUME NEW c \in Calls, Resend(c) PROVE Locals'
  <2>1. /\ pc' = [pc EXCEPT ![c] = "idle"] /\ pc'[c] = "idle"
        /\ pc[c] # "idle" \/ lock = None
      BY Zenon, <1>20 DEF Resend, Return, TypeOK
  <2>2. Local(c)'
      BY Zenon, <2>1 DEF Local
  <2> QED
      BY Zenon, <2>1, <2>2, Others
<1>21. ASSUME NEW h \in Hashes, LndResolves(h) PROVE Locals'
  <2> SUFFICES ASSUME NEW d \in Calls PROVE Local(d)'
      BY Zenon DEF Locals
  <2>1. Local(d) /\ Cell' = Cell
      BY Zenon, <1>21, CellSame DEF Locals, LndResolves
  <2>2. \A g \in Hashes : pay[g] # "inflight" => pay'[g] = pay[g]
      BY Zenon, <1>21 DEF LndResolves, TypeOK
  <2>3. Cell.kind = "pending" => Cell.hash \in Hashes
      BY Zenon, CellType
  <2>4. UNCHANGED <<pc, tok, inv>> /\ inv[d] \in Hashes \union {None} /\ tok[d] \in Tokens
      BY Zenon, <1>21 DEF LndResolves, locals, TypeOK
  <2> QED
      BY <2>1, <2>2, <2>3, <2>4 DEF Local, Unpaid, Token, Tokens
<1>22. CASE Crash
  <2>1. \A d \in Calls : pc'[d] = "idle"
      BY Zenon, <1>22 DEF Crash
  <2> QED
      BY Zenon, <2>1 DEF Locals, Local
<1>23. CASE UNCHANGED vars
    BY <1>23, CellSame DEF vars, Locals, Local, Unpaid
<1> HIDE DEF IInv
<1> QED
    BY Zenon, <1>1, <1>2, <1>3, <1>4, <1>5, <1>6, <1>7, <1>8, <1>9, <1>10, <1>11,
       <1>12, <1>13, <1>14, <1>15, <1>16, <1>17, <1>18, <1>19, <1>20, <1>21,
       <1>22, <1>23 DEF Next

\* The invariant holds before the first start.
LEMMA InitIInv == Init => IInv
<1> SUFFICES ASSUME Init PROVE IInv
    BY Zenon
<1> USE ClientAssumption DEF Init, Tokens, Names, Token, NoToken
<1>1. TypeOK
    BY DEF TypeOK, PayStates
<1>2. Files
    BY DEF Files
<1>3. Cell = IF file["oldPaid"].kind = "absent" THEN file["oldPending"] ELSE file["oldPaid"]
    BY DEF Cell, CellIn, Stored
<1>4. Ledger
  <2>1. CASE file["oldPaid"].kind = "absent"
    <3>1. Cell = file["oldPending"] /\ Cell.kind \notin {"paid", "torn"}
        BY <1>3, <2>1
    <3>2. \A h \in Hashes : pay[h] # "none" => Cell.hash = h
        BY <2>1, <3>1
    <3> QED
        BY Zenon, <3>1, <3>2 DEF Ledger
  <2>2. CASE file["oldPaid"].kind = "paid"
    <3>1. Cell = file["oldPaid"] /\ pay[Cell.hash] = "succeeded"
        BY <1>3, <2>2
    <3>2. \A h \in Hashes : pay[h] # "none" => Cell.hash = h
        BY <2>2, <3>1
    <3> QED
        BY Zenon, <3>1, <3>2 DEF Ledger
  <2> QED
      BY <2>1, <2>2
<1>5. Mutex /\ Locals
    BY Zenon DEF Mutex, Locals, Local
<1> QED
    BY Zenon, <1>1, <1>2, <1>4, <1>5 DEF IInv

\* Every step preserves the invariant.
LEMMA NextIInv == IInv /\ [Next]_vars => IInv'
    BY Zenon, TypeStep, FilesStep, MutexStep, LedgerStep, LocalsStep DEF IInv

\* The invariant holds in every reachable state.
LEMMA Invariance == Spec => []IInv
    BY InitIInv, NextIInv, PTL DEF Spec

(***************************************************************************)
(* The theorems.                                                           *)
(***************************************************************************)
\* Each token file holds only tokens of its kind, for any number of calls,
\* invoices and crashes.
THEOREM TypeCorrect == Spec => []TypeOK
    BY Invariance, PTL DEF IInv

\* The client never has two payments that took or may take money
\* (handlePayment, StoreToken and the mutex together).
THEOREM PaysOnce == Spec => []NeverPaysTwice
<1>1. IInv => NeverPaysTwice
    BY Zenon DEF IInv, Ledger, NeverPaysTwice
<1> QED
    BY <1>1, Invariance, PTL

\* Wherever StoreToken or NewFileStore is cut off by a crash, a token file
\* still holds the hash of the payment.
THEOREM Remembers == Spec => []PaidIsRemembered
<1>1. ASSUME IInv PROVE PaidIsRemembered
  <2> SUFFICES ASSUME NEW h \in Hashes, pay[h] \in {"inflight", "succeeded"}
               PROVE  \E n \in Names : file[n].hash = h
      BY Zenon DEF PaidIsRemembered
  <2>1. Cell.hash = h
      BY Zenon, <1>1 DEF IInv, Ledger
  <2>2. \E n \in Names : Cell.hash = file[n].hash
      BY Zenon DEF Cell, CellIn, Stored, Names, Token
  <2> QED
      BY Zenon, <2>1, <2>2
<1> QED
    BY <1>1, Invariance, PTL

\* No credential is attached to a request before its payment has succeeded
\* (newInterceptContext, handlePayment).
THEOREM SendsPaid == Spec => []SentIsPaid
<1>1. ASSUME IInv PROVE SentIsPaid
  <2> SUFFICES ASSUME NEW c \in Calls,
                      pc[c] = "resend" \/ (pc[c] = "send" /\ tok[c].kind = "paid")
               PROVE  tok[c].hash # None /\ pay[tok[c].hash] = "succeeded"
      BY Zenon DEF SentIsPaid
  <2>1. tok[c] = Cell /\ Cell.kind = "paid"
      BY Zenon, <1>1 DEF IInv, Locals, Local
  <2>2. Cell.hash \in Hashes
      BY Zenon, <1>1, <2>1, CellType DEF IInv
  <2> QED
      BY Zenon, <1>1, <2>1, <2>2, ClientAssumption DEF IInv, Ledger
<1> QED
    BY <1>1, Invariance, PTL

(***************************************************************************)
(* The refinement: OpenFile tears the cell, WriteDone reserves or settles  *)
(* it, DropPending empties it; the steps of lnd are steps of the abstract  *)
(* payments; everything else leaves the cell and the payments alone.       *)
(***************************************************************************)
LEMMA InitCell == Init => Abstract!Init
<1> SUFFICES ASSUME Init PROVE Abstract!Init
    BY Zenon
<1>1. IInv
    BY Zenon, InitIInv
<1>2. pay \in [Hashes -> {"none", "inflight", "succeeded", "failed"}]
    BY DEF Init, PayStates
<1>3. Cell = IF file["oldPaid"].kind = "absent" THEN file["oldPending"] ELSE file["oldPaid"]
    BY DEF Init, Cell, CellIn, Stored, Token, NoToken, Names
<1>4. Cell \in {Abstract!Empty} \union {Abstract!Token(k, h) : k \in {"pending", "paid"}, h \in Hashes}
  <2>1. file["oldPaid"] \in {NoToken} \union {Token(k, h) : k \in {"pending", "paid"}, h \in Hashes}
      BY DEF Init, Names
  <2>2. file["oldPending"] \in {NoToken} \union {Token(k, h) : k \in {"pending", "paid"}, h \in Hashes}
      BY DEF Init, Names
  <2> QED
      BY <1>3, <2>1, <2>2 DEF Abstract!Empty, Abstract!Token, NoToken, Token
<1>5. \A h \in Hashes : pay[h] # "none" => Cell.hash = h
    BY <1>3, ClientAssumption DEF Init, NoToken, Token, Names
<1>6. Cell.kind = "paid" => pay[Cell.hash] = "succeeded"
    BY <1>3 DEF Init
<1> QED
    BY <1>2, <1>4, <1>5, <1>6 DEF Abstract!Init

\* Every step of the client is a step of the cell, or leaves it alone.
LEMMA CellStep ==
    ASSUME IInv, [Next]_vars
    PROVE  [Abstract!Next]_<<Cell, pay>>
<1>1. CASE StartRename
    BY Zenon, <1>1, CellRename DEF IInv, StartRename
<1>2. CASE Started
    BY Zenon, <1>2, CellRename DEF IInv, Started
<1>3. ASSUME NEW c \in Calls, Enter(c) PROVE [Abstract!Next]_<<Cell, pay>>
    BY Zenon, <1>3, CellSame DEF Enter, disk
<1>4. ASSUME NEW c \in Calls, StoreUnreadable(c) PROVE [Abstract!Next]_<<Cell, pay>>
    BY Zenon, <1>4, CellSame DEF StoreUnreadable, vars
<1>5. ASSUME NEW c \in Calls, SendReturns(c) PROVE [Abstract!Next]_<<Cell, pay>>
    BY Zenon, <1>5, CellSame DEF SendReturns, disk
<1>6. ASSUME NEW c \in Calls, Challenged(c) PROVE [Abstract!Next]_<<Cell, pay>>
    BY Zenon, <1>6, CellSame DEF Challenged, disk
<1>7. ASSUME NEW c \in Calls, OpenFile(c) PROVE [Abstract!Next]_<<Cell, pay>>
  <2>1. Local(c) /\ pc[c] \in {"reserve", "settle"}
      BY Zenon, <1>7 DEF IInv, Locals, OpenFile
  <2>2. Cell' = Token("torn", Cell.hash) /\ pay' = pay
      BY Zenon, <1>7, CellOpen DEF IInv, OpenFile
  <2>3. Cell = NoToken \/ (Cell.kind = "pending" /\ pay[Cell.hash] = "succeeded")
    <3>1. CASE pc[c] = "reserve"
      <4>1. Cell = NoToken
          BY Zenon, <2>1, <3>1 DEF Local
      <4> QED
          BY Zenon, <4>1
    <3>2. CASE pc[c] = "settle"
      <4>1. Cell = Token("pending", tok[c].hash) /\ pay[tok[c].hash] = "succeeded"
          BY Zenon, <2>1, <3>2 DEF Local
      <4> QED
          BY Zenon, <4>1 DEF Token
    <3> QED
        BY Zenon, <2>1, <3>1, <3>2
  <2>4. Abstract!Tear
      BY Zenon, <2>2, <2>3 DEF Abstract!Tear, Abstract!Empty, Abstract!Token, Token,
         NoToken
  <2> QED
      BY Zenon, <2>4 DEF Abstract!Next
<1>8. ASSUME NEW c \in Calls, StoreFails(c) PROVE [Abstract!Next]_<<Cell, pay>>
    BY Zenon, <1>8, CellSame DEF StoreFails, disk
<1>9. ASSUME NEW c \in Calls, WriteDone(c) PROVE [Abstract!Next]_<<Cell, pay>>
  <2>1. Local(c) /\ pc[c] = "write"
      BY Zenon, <1>9 DEF IInv, Locals, WriteDone
  <2>2. Cell' = tok[c] /\ pay' = pay
      BY Zenon, <1>9, CellWrite DEF IInv, WriteDone
  <2>3. CASE /\ tok[c] = Token("pending", inv[c]) /\ inv[c] # None
             /\ pay[inv[c]] = "none" /\ Cell = Token("torn", None)
    <3>1. inv[c] \in Hashes
        BY Zenon, <2>3 DEF IInv, TypeOK
    <3>2. Abstract!Reserve(inv[c])
        BY Zenon, <2>2, <2>3 DEF Abstract!Reserve, Abstract!Token, Token
    <3> QED
        BY Zenon, <3>1, <3>2 DEF Abstract!Next
  <2>4. CASE /\ tok[c] = Token("paid", tok[c].hash) /\ tok[c].hash # None
             /\ Cell = Token("torn", tok[c].hash)
    <3>1. Cell.kind = "torn" /\ Cell.hash = tok[c].hash
        BY Zenon, <2>4 DEF Token
    <3>2. Abstract!Settle
        BY Zenon, <2>2, <2>4, <3>1 DEF Abstract!Settle, Abstract!Token, Token
    <3> QED
        BY Zenon, <3>2 DEF Abstract!Next
  <2> QED
      BY Zenon, <2>1, <2>3, <2>4 DEF Local
<1>10. ASSUME NEW c \in Calls, WriteFails(c) PROVE [Abstract!Next]_<<Cell, pay>>
    BY Zenon, <1>10, CellSame DEF WriteFails, disk
<1>11. ASSUME NEW c \in Calls, RemovePending(c) PROVE [Abstract!Next]_<<Cell, pay>>
    BY Zenon, <1>11, CellRemove DEF IInv, RemovePending
<1>12. ASSUME NEW c \in Calls, PayInvoice(c) PROVE [Abstract!Next]_<<Cell, pay>>
  <2>1. inv[c] \in Hashes /\ pay[inv[c]] = "none" /\ Cell = Token("pending", inv[c])
      BY Zenon, <1>12 DEF IInv, TypeOK, Locals, Local, PayInvoice
  <2>2. Cell' = Cell
      BY Zenon, <1>12, CellSame DEF PayInvoice
  <2>3. CASE pay' = [pay EXCEPT ![inv[c]] = "none"]
      BY Zenon, <2>1, <2>2, <2>3 DEF IInv, TypeOK
  <2>4. CASE pay' = [pay EXCEPT ![inv[c]] = "inflight"]
    <3>1. Abstract!StartPayment(inv[c])
        BY Zenon, <2>1, <2>2, <2>4 DEF Abstract!StartPayment, Abstract!Token, Token
    <3> QED
        BY Zenon, <2>1, <3>1 DEF Abstract!Next
  <2> QED
      BY Zenon, <1>12, <2>3, <2>4 DEF PayInvoice
<1>13. ASSUME NEW c \in Calls, PaySucceeded(c) PROVE [Abstract!Next]_<<Cell, pay>>
    BY Zenon, <1>13, CellSame DEF PaySucceeded, disk
<1>14. ASSUME NEW c \in Calls, PayAborted(c) PROVE [Abstract!Next]_<<Cell, pay>>
    BY Zenon, <1>14, CellSame DEF PayAborted, disk
<1>15. ASSUME NEW c \in Calls, TrackSucceeded(c) PROVE [Abstract!Next]_<<Cell, pay>>
    BY Zenon, <1>15, CellSame DEF TrackSucceeded, disk
<1>16. ASSUME NEW c \in Calls, TrackFailed(c) PROVE [Abstract!Next]_<<Cell, pay>>
    BY Zenon, <1>16, CellSame DEF TrackFailed, disk
<1>17. ASSUME NEW c \in Calls, TrackAborted(c) PROVE [Abstract!Next]_<<Cell, pay>>
    BY Zenon, <1>17, CellSame DEF TrackAborted, disk
<1>18. ASSUME NEW c \in Calls, DropPending(c) PROVE [Abstract!Next]_<<Cell, pay>>
  <2>1. Cell.kind = "pending" /\ pay[Cell.hash] = "failed"
      BY Zenon, <1>18 DEF IInv, Locals, Local, DropPending
  <2>2. Cell' = NoToken /\ pay' = pay
      BY Zenon, <1>18, CellDrop DEF IInv, DropPending
  <2>3. Abstract!Drop
      BY Zenon, <2>1, <2>2 DEF Abstract!Drop, Abstract!Empty, Abstract!Token, Token,
         NoToken
  <2> QED
      BY Zenon, <2>3 DEF Abstract!Next
<1>19. ASSUME NEW c \in Calls, DropFails(c) PROVE [Abstract!Next]_<<Cell, pay>>
    BY Zenon, <1>19, CellSame DEF DropFails, disk
<1>20. ASSUME NEW c \in Calls, Resend(c) PROVE [Abstract!Next]_<<Cell, pay>>
    BY Zenon, <1>20, CellSame DEF Resend, disk
<1>21. ASSUME NEW h \in Hashes, LndResolves(h) PROVE [Abstract!Next]_<<Cell, pay>>
  <2>1. Abstract!Resolve(h)
      BY Zenon, <1>21, CellSame DEF LndResolves, Abstract!Resolve
  <2> QED
      BY Zenon, <2>1 DEF Abstract!Next
<1>22. CASE Crash
    BY Zenon, <1>22, CellSame DEF Crash, disk
<1>23. CASE UNCHANGED vars
    BY Zenon, <1>23, CellSame DEF vars
<1> QED
    BY Zenon, <1>1, <1>2, <1>3, <1>4, <1>5, <1>6, <1>7, <1>8, <1>9, <1>10, <1>11,
       <1>12, <1>13, <1>14, <1>15, <1>16, <1>17, <1>18, <1>19, <1>20, <1>21,
       <1>22, <1>23 DEF Next

\* The FileStore, the mutex and the payment logic implement one cell with one
\* token in it (TokenCell), whatever runs at the same time and wherever the
\* client dies.
THEOREM Refinement == Spec => ImplementsCell
<1>1. IInv /\ [Next]_vars => [Abstract!Next]_<<Cell, pay>>
    BY Zenon, CellStep
<1> QED
    BY <1>1, InitCell, Invariance, PTL DEF Spec, ImplementsCell, Abstract!Spec
=============================================================================
