----------------------------- MODULE Settlement -----------------------------
(***************************************************************************)
(* What billing promises of an invoice: it is paid by a success event that *)
(* was never received before, it stops being paid only by another event,   *)
(* and no event counts twice.                                              *)
(***************************************************************************)
EXTENDS Invoices

CONSTANT Events    \* payment events, records with a field kind

VARIABLES state,   \* one of InvoiceStates
          used     \* the events received so far

settlementVars == <<state, used>>

Init == state \in {"unpaid", "claimed"} /\ used = {}

\* Whoever pays may start again, except a payment that took effect
Open == state # "paid" /\ state' = "unpaid" /\ UNCHANGED used

\* An event is received once.  It may be refused, and is received all the same
Receive(e) ==
    /\ e \notin used
    /\ used' = used \cup {e}
    /\ state' \in {state, After(e.kind, state)}

Next == Open \/ \E e \in Events : Receive(e)

Spec == Init /\ [][Next]_settlementVars
=============================================================================
