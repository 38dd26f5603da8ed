--------------------------- MODULE RequestContract ---------------------------
(***************************************************************************)
(* What the marketplace promises about a service request, whatever its     *)
(* type and whoever calls: who owns it and which way its life may go.      *)
(***************************************************************************)
CONSTANTS Providers, NoProvider

VARIABLES
    phase,  \* open, engaged, executing, completed, cancelled or gone
    owner   \* the provider it is assigned to

vars == <<phase, owner>>

Waiting == {"open", "engaged"}

Init == phase = "open" /\ owner \in Providers \cup {NoProvider}

\* A provider takes a request that is free or already his
Take(p) ==
    /\ phase = "open" /\ owner \in {NoProvider, p}
    /\ phase' = "engaged" /\ owner' = p

\* The client chooses, or changes his choice, while nobody is engaged
Choose(p) == phase = "open" /\ owner' = p /\ UNCHANGED phase

\* The owner sends details; the client sends them back
Submit == phase = "open" /\ owner # NoProvider /\ phase' = "engaged" /\ UNCHANGED owner
SendBack == phase = "engaged" /\ phase' = "open" /\ UNCHANGED owner

\* Before execution the request may return to the pool
Withdraw == phase \in Waiting /\ phase' = "open" /\ owner' = NoProvider

\* Execution starts and ends; there is no way back
Start == phase \in Waiting /\ phase' = "executing" /\ UNCHANGED owner
Finish == phase = "executing" /\ phase' = "completed" /\ UNCHANGED owner

\* A cancelled request has no owner unless its execution had started
Cancel ==
    /\ phase \in Waiting \cup {"executing"}
    /\ phase' = "cancelled"
    /\ owner' = NoProvider \/ (phase = "executing" /\ UNCHANGED owner)

Reopen == phase = "cancelled" /\ phase' = "open" /\ owner' = NoProvider

\* The row is deleted, or an account is
Delete == phase # "gone" /\ phase' = "gone" /\ owner' = NoProvider
Orphan == owner # NoProvider /\ owner' = NoProvider /\ UNCHANGED phase

Next ==
    \/ \E p \in Providers : Take(p) \/ Choose(p)
    \/ Submit \/ SendBack \/ Withdraw
    \/ Start \/ Finish \/ Cancel \/ Reopen
    \/ Delete \/ Orphan

Spec == Init /\ [][Next]_vars
==============================================================================
