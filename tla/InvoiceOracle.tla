--------------------------- MODULE InvoiceOracle ---------------------------
(***************************************************************************)
(* What the challenger promises the authenticator (auth.InvoiceChecker in  *)
(* auth/interface.go, mint.Challenger in mint/mint.go): it adds invoices,  *)
(* sooner or later it sees which of them are paid, and it vouches for an   *)
(* invoice only when it has seen the payment.  What it has seen it does    *)
(* not forget.  LndChallenger, with one subscription, implements this;     *)
(* Gateway relies on no more than this.                                    *)
(***************************************************************************)
CONSTANTS Invoices, Callers, None

VARIABLES state,    \* what happened to each invoice: none, open, paid, seen
          vouched   \* the invoice each caller has a positive answer for

Init ==
    /\ state = [i \in Invoices |-> "none"]
    /\ vouched = [c \in Callers |-> None]

Add(i) ==
    /\ state[i] = "none"
    /\ state' = [state EXCEPT ![i] = "open"]
    /\ vouched' = vouched

Pay(i) ==
    /\ state[i] = "open"
    /\ state' = [state EXCEPT ![i] = "paid"]
    /\ vouched' = vouched

\* One answer of lnd can be about several invoices.
See(paid) ==
    /\ \A i \in paid : state[i] = "paid"
    /\ state' = [i \in Invoices |-> IF i \in paid THEN "seen" ELSE state[i]]
    /\ vouched' = vouched

Vouch(c, i) ==
    /\ state[i] = "seen"
    /\ vouched' = [vouched EXCEPT ![c] = i]
    /\ state' = state

\* The callers are done with their answers.
Forget(done) ==
    /\ vouched' = [c \in Callers |-> IF c \in done THEN None ELSE vouched[c]]
    /\ state' = state

Next ==
    \/ \E i \in Invoices : Add(i) \/ Pay(i)
    \/ \E paid \in SUBSET Invoices : See(paid)
    \/ \E c \in Callers, i \in Invoices : Vouch(c, i)
    \/ \E done \in SUBSET Callers : Forget(done)

Spec == Init /\ [][Next]_<<state, vouched>>
=============================================================================
