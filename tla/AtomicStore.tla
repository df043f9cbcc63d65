---------------------------- MODULE AtomicStore ----------------------------
(***************************************************************************)
(* What a caller of the stores may rely on: an operation takes effect at   *)
(* once, at most once, and between its call and its return.  One that      *)
(* succeeds has taken effect; one that fails with an error of the database *)
(* may have.  Module ApertureDB shows that transactions with retries, a    *)
(* bounded pool of connections and timeouts implement it.                  *)
(***************************************************************************)
EXTENDS StoreOps

CONSTANTS Callers, Ops

VARIABLES mem,   \* the contents
          st,    \* of each caller: "idle", "called", or "read" (has its answer)
          op,    \* the operation of each caller
          ans    \* the answer a caller got or will get

vars == <<mem, st, op, ans>>
NoOp == Op("none", None, None)

Init ==
    /\ mem = Empty
    /\ st = [c \in Callers |-> "idle"]
    /\ op = [c \in Callers |-> NoOp]
    /\ ans = [c \in Callers |-> Ok]

Call(c, o) ==
    /\ st[c] = "idle"
    /\ st' = [st EXCEPT ![c] = "called"]
    /\ op' = [op EXCEPT ![c] = o]
    /\ ans' = [ans EXCEPT ![c] = Ok]
    /\ mem' = mem

Return(c, a) ==
    /\ st' = [st EXCEPT ![c] = "idle"]
    /\ op' = [op EXCEPT ![c] = NoOp]
    /\ ans' = [ans EXCEPT ![c] = a]

\* A read is answered from the contents of this moment.
Read(c) ==
    /\ st[c] = "called" /\ op[c].kind \in Reads
    /\ st' = [st EXCEPT ![c] = "read"]
    /\ ans' = [ans EXCEPT ![c] = Answer(op[c], mem)]
    /\ UNCHANGED <<mem, op>>

ReadReturns(c) == st[c] = "read" /\ Return(c, ans[c]) /\ mem' = mem

Write(c) ==
    /\ st[c] = "called" /\ op[c].kind \notin Reads
    /\ Answer(op[c], mem).st = "ok"
    /\ mem' = Effect(op[c], mem)
    /\ Return(c, Answer(op[c], mem)) \/ Return(c, Failed)

Refuse(c) ==
    /\ st[c] = "called" /\ Answer(op[c], mem).st # "ok"
    /\ Return(c, Answer(op[c], mem))
    /\ mem' = mem

Fail(c) == st[c] # "idle" /\ Return(c, Failed) /\ mem' = mem

\* The process dies; what it was about to write is lost or done.
Crash ==
    /\ st' = [c \in Callers |-> "idle"]
    /\ op' = [c \in Callers |-> NoOp]
    /\ ans' = [c \in Callers |-> Ok]
    /\ mem' = mem

Next ==
    \/ \E c \in Callers : \/ \E o \in Ops : Call(c, o)
                          \/ Read(c) \/ ReadReturns(c) \/ Write(c) \/ Refuse(c) \/ Fail(c)
    \/ Crash

Spec == Init /\ [][Next]_vars
=============================================================================
