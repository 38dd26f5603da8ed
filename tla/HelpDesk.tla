-------------------------------- MODULE HelpDesk --------------------------------
(***************************************************************************)
(* One support ticket (backend/apps/support), its log, its mirror among    *)
(* the unified requests and the moderation case that follows it            *)
(* (backend/apps/moderation).                                              *)
(*                                                                         *)
(* change_ticket_status checks the status on the copy its caller has read, *)
(* saves it without a lock and carries on from that copy.  assign_ticket   *)
(* locks the row until its commit; the case is locked by nobody.           *)
(***************************************************************************)
EXTENDS Naturals

CONSTANTS
    Desks,       \* requests of the support staff being served
    Staff,       \* who may be assigned
    Unassigned   \* assigned_to is null

VARIABLES
    ticket,       \* status and assigned_to
    ticketLog,    \* to_status of the last SupportStatusLog
    ticketMirror, \* the unified request of the ticket
    case,         \* status and assigned_to of its moderation case
    desks,        \* what each request does, with its copies of the ticket and the case
    ticketPassed, \* the ticket was written while another request had a copy of it
    ticketLost,   \* a request ended after its write and before its other writes
    casePassed    \* the case was written while another request had a copy of it

deskVars == <<ticket, ticketLog, ticketMirror, case, desks, ticketPassed, ticketLost, casePassed>>

\* SUPPORT_STATUS_TRANSITIONS
TicketNext ==
    [new |-> {"in_progress", "returned", "closed"}, in_progress |-> {"returned", "closed"},
     returned |-> {"in_progress", "closed"}, closed |-> {}]

TicketStates == DOMAIN TicketNext

Assignees == Staff \cup {Unassigned}

Tickets == [status : TicketStates, assignee : Assignees]

\* "decided" stands for ACTION_TAKEN and for DISMISSED
Cases == [status : {"new", "under_review", "escalated", "decided"}, assignee : Assignees]

NewTicket == [status |-> "new", assignee |-> Unassigned]

NoDesk == [step |-> "idle", to |-> "new", copy |-> NewTicket, case |-> NewTicket]

DeskTypeOK ==
    /\ ticket \in Tickets /\ ticketMirror \in Tickets /\ ticketLog \in TicketStates
    /\ case \in Cases
    /\ desks \in [Desks -> [step : {"idle", "assigning", "opened", "saved", "logged", "mirrored",
                                    "followed"},
                            to : TicketStates, copy : Tickets, case : Cases]]
    /\ {ticketPassed, ticketLost, casePassed} \subseteq BOOLEAN

\* The complaint is registered, with its mirror and its case
DeskInit ==
    /\ ticket = NewTicket /\ ticketMirror = NewTicket /\ ticketLog = "new"
    /\ case = NewTicket
    /\ desks = [d \in Desks |-> NoDesk]
    /\ ticketPassed = FALSE /\ ticketLost = FALSE /\ casePassed = FALSE
-----------------------------------------------------------------------------
DeskAt(d, step) == desks[d].step = step

TicketTaken == \E d \in Desks : DeskAt(d, "assigning")

\* The ticket is written by d: whoever has a copy of it is passed
TicketWritten(d) ==
    ticketPassed' = (ticketPassed \/ \E f \in Desks \ {d} : desks[f] # NoDesk)

\* And so for the case, which the staff writes too
CaseWritten(others) ==
    casePassed' = (casePassed \/ \E d \in others : desks[d].step \in {"assigning", "followed"})

\* sync_support_ticket_case: the case, as it was read, after it is assigned
\* as the ticket (assign_case) and takes its status (change_case_status),
\* unless it is terminal or the ticket is closed
Followed(c, t) ==
    LET assigned == [status |-> IF c.assignee # t.assignee /\ c.status = "new"
                                THEN "under_review" ELSE c.status,
                     assignee |-> t.assignee]
        wanted == [new |-> "new", in_progress |-> "under_review", returned |-> "escalated"]
    IN IF assigned.status \in {"escalated", "decided"} \/ t.status = "closed"
       THEN assigned
       ELSE [assigned EXCEPT !.status = wanted[t.status]]

\* The case in the database: assign_case saves both fields, change_case_status
\* the status, each only if something changes
CaseAfter(c, t) ==
    IF c.assignee # t.assignee THEN Followed(c, t)
    ELSE IF Followed(c, t) # c THEN [case EXCEPT !.status = Followed(c, t).status]
    ELSE case

\* assign_ticket locks the ticket and, before its commit, reads the case; with
\* nobody given, the assignee stays
StartAssign(d, who) ==
    /\ desks[d] = NoDesk /\ ~TicketTaken
    /\ desks' = [desks EXCEPT ![d] =
         [NoDesk EXCEPT !.step = "assigning", !.case = case,
                        !.copy = [status |-> IF ticket.status = "new" THEN "in_progress"
                                             ELSE ticket.status,
                                  assignee |-> IF who = Unassigned THEN ticket.assignee
                                               ELSE who]]]
    /\ UNCHANGED <<ticket, ticketLog, ticketMirror, case, ticketPassed, ticketLost, casePassed>>

\* and commits everything at once; the dashboard then goes on to OpenTicket
CommitAssign(d) ==
    LET mine == desks[d].copy IN
    /\ DeskAt(d, "assigning")
    /\ ticket' = mine
    /\ ticketLog' = IF ticket.status = mine.status THEN ticketLog ELSE mine.status
    /\ ticketMirror' = mine
    /\ case' = CaseAfter(desks[d].case, mine)
    /\ desks' = [desks EXCEPT ![d] = NoDesk]
    /\ TicketWritten(d) /\ CaseWritten(Desks \ {d})
    /\ UNCHANGED ticketLost

\* SupportTicketStatusView and the dashboard: reads the ticket and checks the transition
OpenTicket(d, to) ==
    /\ desks[d] = NoDesk /\ to \in TicketNext[ticket.status]
    /\ desks' = [desks EXCEPT ![d] = [NoDesk EXCEPT !.step = "opened", !.to = to, !.copy = ticket]]
    /\ UNCHANGED <<ticket, ticketLog, ticketMirror, case, ticketPassed, ticketLost, casePassed>>

\* change_ticket_status: the status is saved, which waits for an assignment,
SaveTicket(d) ==
    /\ DeskAt(d, "opened") /\ ~TicketTaken
    /\ ticket' = [ticket EXCEPT !.status = desks[d].to]
    /\ desks' = [desks EXCEPT ![d].step = "saved", ![d].copy.status = desks[d].to]
    /\ TicketWritten(d)
    /\ UNCHANGED <<ticketLog, ticketMirror, case, ticketLost, casePassed>>

\* logged,
LogTicket(d) ==
    /\ DeskAt(d, "saved")
    /\ ticketLog' = desks[d].to
    /\ desks' = [desks EXCEPT ![d].step = "logged"]
    /\ UNCHANGED <<ticket, ticketMirror, case, ticketPassed, ticketLost, casePassed>>

\* the statuses of a ticket are canonical
MirroredTicket(t) == t

\* mirrored (_sync_ticket_to_unified),
MirrorTicket(d) ==
    /\ DeskAt(d, "logged")
    /\ ticketMirror' = MirroredTicket(desks[d].copy)
    /\ desks' = [desks EXCEPT ![d].step = "mirrored"]
    /\ UNCHANGED <<ticket, ticketLog, case, ticketPassed, ticketLost, casePassed>>

\* and the case, which is read
ReadCase(d) ==
    /\ DeskAt(d, "mirrored")
    /\ desks' = [desks EXCEPT ![d].step = "followed", ![d].case = case]
    /\ UNCHANGED <<ticket, ticketLog, ticketMirror, case, ticketPassed, ticketLost, casePassed>>

\* and written, follows; an error there is swallowed
WriteCase(d) ==
    /\ DeskAt(d, "followed")
    /\ case' = CaseAfter(desks[d].case, desks[d].copy)
    /\ desks' = [desks EXCEPT ![d] = NoDesk]
    /\ CaseWritten(Desks \ {d})
    /\ UNCHANGED <<ticket, ticketLog, ticketMirror, ticketPassed, ticketLost>>

\* The request dies; a transaction is undone
LeaveDesk(d) ==
    /\ desks[d] # NoDesk
    /\ desks' = [desks EXCEPT ![d] = NoDesk]
    /\ ticketLost' = (ticketLost \/ desks[d].step \notin {"assigning", "opened"})
    /\ UNCHANGED <<ticket, ticketLog, ticketMirror, case, ticketPassed, casePassed>>

\* record_decision, change_case_status: the staff moderates the case
Moderate(status) ==
    /\ status # "new"
    /\ case' = [case EXCEPT !.status = status]
    /\ CaseWritten(Desks)
    /\ UNCHANGED <<ticket, ticketLog, ticketMirror, desks, ticketPassed, ticketLost>>

DeskNext ==
    \/ \E d \in Desks :
         \/ \E who \in Assignees : StartAssign(d, who)
         \/ \E to \in TicketStates : OpenTicket(d, to)
         \/ CommitAssign(d) \/ SaveTicket(d) \/ LogTicket(d) \/ MirrorTicket(d)
         \/ ReadCase(d) \/ WriteCase(d) \/ LeaveDesk(d)
    \/ \E status \in {"under_review", "escalated", "decided"} : Moderate(status)

DeskSpec == DeskInit /\ [][DeskNext]_deskVars
-----------------------------------------------------------------------------
(* Properties *)

\* When nobody works on it, the last entry of the log and the mirror tell
\* the status and the assignee of the ticket, unless it was written while
\* another request had a copy of it, or a request died halfway.
TicketMirrored ==
    (\A d \in Desks : desks[d] = NoDesk) =>
      ticketPassed \/ ticketLost \/ (ticketMirror = ticket /\ ticketLog = ticket.status)

\* A closed ticket is not opened again but from a copy that was read before.
ClosedFinal ==
    [][ticket.status = "closed" /\ ticket'.status # "closed" => ticketPassed']_deskVars

\* A ticket that goes on never takes back what the moderators have decided
\* on its case, unless the case was written while a request had a copy of it.
DecisionStays ==
    [][(ticket' # ticket \/ desks' # desks) /\ case.status \in {"escalated", "decided"} =>
         case'.status = case.status \/ casePassed]_deskVars
================================================================================
