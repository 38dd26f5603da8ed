-------------------------------- MODULE Loyalty --------------------------------
(***************************************************************************)
(* The loyalty points of one client with one provider                      *)
(* (backend/apps/extras_portal): the membership with its ledger, the       *)
(* points column of the client's record, the award for a completed service *)
(* request and the provider's form over the column.                        *)
(*                                                                         *)
(* The award asks for an earlier one before it locks the membership.  The  *)
(* form locks nothing: it reads the membership, and writes it and then the *)
(* ledger, one statement after the other.                                  *)
(***************************************************************************)
EXTENDS Integers

CONSTANTS
    Completed,   \* service requests that are completed, saved again and again
    Savers,      \* processes that save them
    NoAward,     \* a process that gives none
    Award,       \* points per completed request
    MaxPoints    \* bound on the points

ASSUME LoyaltyAssumption == Award \in Nat \ {0} /\ MaxPoints \in Nat /\ NoAward \notin Completed

VARIABLES
    points,      \* points_balance of the LoyaltyMembership, -1 without one
    column,      \* loyalty_points_added of the ClientRecord
    ledger,      \* sum of the LoyaltyTransaction rows
    awarded,     \* requests with an EARN transaction
    twice,       \* a request has two
    awarding,    \* the request that each process has found without an award
    sheet,       \* the form that the provider has open
    seeded,      \* the form has created the membership, with points
    trampled     \* an award met the form between its statements, the form
                 \* died there, or two processes awarded a request at once

loyaltyVars == <<points, column, ledger, awarded, twice, awarding, sheet, seeded, trampled>>

SheetClosed == [step |-> "closed", points |-> 0, read |-> 0]
Saving == sheet.step \in {"saved", "read", "written"}

LoyaltyTypeOK ==
    /\ points \in -1..MaxPoints /\ column \in 0..MaxPoints
    /\ ledger \in Int
    /\ awarded \subseteq Completed /\ twice \in BOOLEAN
    /\ awarding \in [Savers -> Completed \cup {NoAward}]
    /\ sheet \in [step : {"closed", "open", "saved", "read", "written"},
                  points : 0..MaxPoints, read : 0..MaxPoints]
    /\ seeded \in BOOLEAN /\ trampled \in BOOLEAN

LoyaltyInit ==
    /\ points = -1 /\ column = 0 /\ ledger = 0
    /\ awarded = {} /\ twice = FALSE
    /\ awarding = [s \in Savers |-> NoAward]
    /\ sheet = SheetClosed
    /\ seeded = FALSE /\ trampled = FALSE
-----------------------------------------------------------------------------
(* A completed request, at each save of its status *)

Unawarded(q) == q \notin awarded

\* award_loyalty_points_for_completed_request finds no award ...
FindAward(s, q) ==
    /\ awarding[s] = NoAward /\ Unawarded(q)
    /\ awarding' = [awarding EXCEPT ![s] = q]
    /\ trampled' = (trampled \/ \E t \in Savers : awarding[t] = q)
    /\ UNCHANGED <<points, column, ledger, awarded, twice, sheet, seeded>>

\* The column follows the membership
ColumnAfter(earned) == earned

\* ... and gives the points: one transaction, which reads the membership
\* again under its lock
GiveAward(s) ==
    /\ awarding[s] # NoAward
    /\ LET earned == (IF points = -1 THEN 0 ELSE points) + Award IN
       /\ earned <= MaxPoints
       /\ points' = earned
       /\ column' = ColumnAfter(earned)
    /\ ledger' = ledger + Award
    /\ awarded' = awarded \cup {awarding[s]}
    /\ twice' = (twice \/ awarding[s] \in awarded)
    /\ awarding' = [awarding EXCEPT ![s] = NoAward]
    /\ trampled' = (trampled \/ Saving)
    /\ UNCHANGED <<sheet, seeded>>

\* The process ends without an award
DropAward(s) ==
    /\ awarding[s] # NoAward
    /\ awarding' = [awarding EXCEPT ![s] = NoAward]
    /\ UNCHANGED <<points, column, ledger, awarded, twice, sheet, seeded, trampled>>
-----------------------------------------------------------------------------
(* The form over the column *)

\* The provider sees the column, and changes it or does not
OpenSheet(n) ==
    /\ sheet = SheetClosed
    /\ sheet' = [step |-> "open", points |-> n, read |-> 0]
    /\ UNCHANGED <<points, column, ledger, awarded, twice, awarding, seeded, trampled>>

\* _save_client_records writes the column, whatever it is by now,
SaveColumn ==
    /\ sheet.step = "open"
    /\ column' = sheet.points
    /\ sheet' = [sheet EXCEPT !.step = "saved"]
    /\ UNCHANGED <<points, ledger, awarded, twice, awarding, seeded, trampled>>

\* _sync_loyalty_membership_points creates the membership, without a
\* transaction in the ledger,
CreateMember ==
    /\ sheet.step = "saved" /\ points = -1
    /\ points' = sheet.points
    /\ seeded' = (sheet.points > 0)
    /\ sheet' = SheetClosed
    /\ UNCHANGED <<column, ledger, awarded, twice, awarding, trampled>>

\* or reads it,
ReadMember ==
    /\ sheet.step = "saved" /\ points # -1
    /\ sheet' = IF points = sheet.points THEN SheetClosed
                ELSE [sheet EXCEPT !.step = "read", !.read = points]
    /\ UNCHANGED <<points, column, ledger, awarded, twice, awarding, seeded, trampled>>

\* writes the points of the form over those it has now,
WriteMember ==
    /\ sheet.step = "read"
    /\ points' = sheet.points
    /\ sheet' = [sheet EXCEPT !.step = "written"]
    /\ UNCHANGED <<column, ledger, awarded, twice, awarding, seeded, trampled>>

\* Mutation: the adjustment is the new number of points
AdjustmentWhole(from, to) == to

Adjustment(from, to) == to - from

\* and records the adjustment
WriteLedger ==
    /\ sheet.step = "written"
    /\ ledger' = ledger + Adjustment(sheet.read, sheet.points)
    /\ sheet' = SheetClosed
    /\ UNCHANGED <<points, column, awarded, twice, awarding, seeded, trampled>>

\* The form is left, or dies between two statements (once; a balance that
\* has left its ledger may go anywhere)
LeaveSheet ==
    /\ sheet # SheetClosed /\ ~(Saving /\ trampled)
    /\ sheet' = SheetClosed
    /\ trampled' = (trampled \/ Saving)
    /\ UNCHANGED <<points, column, ledger, awarded, twice, awarding, seeded>>

LoyaltyNext ==
    \/ \E s \in Savers : GiveAward(s) \/ DropAward(s) \/ \E q \in Completed : FindAward(s, q)
    \/ \E n \in 0..MaxPoints : OpenSheet(n)
    \/ SaveColumn \/ CreateMember \/ ReadMember \/ WriteMember \/ WriteLedger \/ LeaveSheet

LoyaltySpec == LoyaltyInit /\ [][LoyaltyNext]_loyaltyVars
-----------------------------------------------------------------------------
(* Properties *)

\* No request earns points twice, however often it is saved as completed,
\* unless two processes found it without an award at the same time.
EarnedOnce == twice => trampled

\* The balance is the sum of the ledger, awards and adjustments in any order,
\* unless the form created the membership or was interrupted between its
\* statements.
LedgerBalances ==
    seeded \/ trampled \/ points = -1 \/ sheet.step = "written" \/ points = ledger

\* The column is what the membership has, whoever changed the one or the
\* other, unless the form was interrupted.
ColumnMirrors ==
    trampled \/ Saving \/ points = -1 \/ column = points

\* Points are earned once, add up in the ledger and show in the column.
LoyaltySound == EarnedOnce /\ LedgerBalances /\ ColumnMirrors
================================================================================
