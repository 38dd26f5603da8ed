--------------------------- MODULE ScheduledMessages ---------------------------
(***************************************************************************)
(* A message of a provider to several clients, sent at once by the portal  *)
(* or later by a job (backend/apps/extras_portal).                         *)
(*                                                                         *)
(* The portal's page commits the row, then its recipients, then the        *)
(* copies, one by one.  A run of the job lists what is due without a lock, *)
(* cancels what has no recipients, creates all copies in one transaction   *)
(* with the status, and notifies the provider when that has committed,     *)
(* still inside the same try: if the notification fails, what was sent is  *)
(* marked as failed.  Runs may overlap.                                    *)
(***************************************************************************)
EXTENDS Naturals, FiniteSets

CONSTANTS
    Clients,   \* whom the message is for
    Senders    \* runs of the job that may overlap

VARIABLES
    bulk,         \* the ExtrasPortalScheduledMessage row
    readers,      \* its recipients
    copies,       \* Message rows of each client (2: or more)
    sendersAt,    \* what each run of the job does, with the recipients it has read
    pageAt,       \* whom the page is to create recipients of or to send to
    bulkCrossed,  \* two runs had the message at once
    noticeLost    \* the notification of the provider has failed

bulkVars == <<bulk, readers, copies, sendersAt, pageAt, bulkCrossed, noticeLost>>

Unlisted == [step |-> "idle", to |-> {}]
PageIdle == [step |-> "idle", to |-> {}]
More(n) == IF n < 2 THEN n + 1 ELSE n

BulkTypeOK ==
    /\ bulk \in [status : {"none", "pending", "sent", "failed", "cancelled"},
                 later : BOOLEAN, due : BOOLEAN]
    /\ readers \subseteq Clients
    /\ copies \in [Clients -> 0..2]
    /\ sendersAt \in [Senders -> [step : {"idle", "listed", "committed", "failing"}, to : SUBSET Clients]]
    /\ pageAt \in [step : {"idle", "drafting", "sending"}, to : SUBSET Clients]
    /\ bulkCrossed \in BOOLEAN /\ noticeLost \in BOOLEAN

BulkInit ==
    /\ bulk = [status |-> "none", later |-> FALSE, due |-> FALSE]
    /\ readers = {}
    /\ copies = [c \in Clients |-> 0]
    /\ sendersAt = [s \in Senders |-> Unlisted]
    /\ pageAt = PageIdle
    /\ bulkCrossed = FALSE /\ noticeLost = FALSE
-----------------------------------------------------------------------------
(* The page *)

NewBulk(later) == [status |-> "pending", later |-> later, due |-> FALSE]

\* The row is committed before its recipients are created,
DraftRow(later, chosen) ==
    /\ bulk.status = "none" /\ chosen # {}
    /\ bulk' = NewBulk(later)
    /\ pageAt' = [step |-> "drafting", to |-> chosen]
    /\ UNCHANGED <<readers, copies, sendersAt, bulkCrossed, noticeLost>>

\* all by one statement: a job that lists the row before it finds nobody
AddRecipients ==
    /\ pageAt.step = "drafting"
    /\ readers' = pageAt.to
    /\ pageAt' = IF bulk.later THEN PageIdle ELSE [step |-> "sending", to |-> pageAt.to]
    /\ UNCHANGED <<bulk, copies, sendersAt, bulkCrossed, noticeLost>>

PageSendsOne(c) ==
    /\ pageAt.step = "sending" /\ c \in pageAt.to \cap readers
    /\ copies' = [copies EXCEPT ![c] = More(@)]
    /\ pageAt' = [pageAt EXCEPT !.to = @ \ {c}]
    /\ UNCHANGED <<bulk, readers, sendersAt, bulkCrossed, noticeLost>>

\* All are sent, or one has failed; or the page dies
PageEnds ==
    /\ pageAt.step # "idle"
    /\ \/ pageAt.step = "sending" /\ pageAt.to = {} /\ bulk' = [bulk EXCEPT !.status = "sent"]
       \/ pageAt.step = "sending" /\ pageAt.to # {} /\ bulk' = [bulk EXCEPT !.status = "failed"]
       \/ bulk' = bulk
    /\ pageAt' = PageIdle
    /\ UNCHANGED <<readers, copies, sendersAt, bulkCrossed, noticeLost>>

BulkComes ==
    /\ bulk.status = "pending" /\ bulk.later /\ ~bulk.due
    /\ bulk' = [bulk EXCEPT !.due = TRUE]
    /\ UNCHANGED <<readers, copies, sendersAt, pageAt, bulkCrossed, noticeLost>>

\* A client's account goes, and its row with it
ClientLeaves(c) ==
    /\ c \in readers
    /\ readers' = readers \ {c}
    /\ UNCHANGED <<bulk, copies, sendersAt, pageAt, bulkCrossed, noticeLost>>
-----------------------------------------------------------------------------
(* process_due_scheduled_messages *)

SenderTo(s, step, to) == sendersAt' = [sendersAt EXCEPT ![s] = [step |-> step, to |-> to]]

ToSend == bulk.status = "pending" /\ bulk.due

ListBulk(s) ==
    /\ sendersAt[s] = Unlisted /\ ToSend
    /\ SenderTo(s, "listed", readers)
    /\ bulkCrossed' = (bulkCrossed \/ \E t \in Senders : sendersAt[t] # Unlisted)
    /\ UNCHANGED <<bulk, readers, copies, pageAt, noticeLost>>

CancelBulk(s) ==
    /\ sendersAt[s] = [step |-> "listed", to |-> {}]
    /\ bulk' = [bulk EXCEPT !.status = "cancelled"]
    /\ sendersAt' = [sendersAt EXCEPT ![s] = Unlisted]
    /\ UNCHANGED <<readers, copies, pageAt, bulkCrossed, noticeLost>>

Copied(to) == [c \in Clients |-> IF c \in to THEN More(copies[c]) ELSE copies[c]]

\* The transaction
SendBulk(s) ==
    /\ sendersAt[s].step = "listed" /\ sendersAt[s].to # {}
    /\ sendersAt[s].to \subseteq readers
    /\ copies' = Copied(sendersAt[s].to)
    /\ bulk' = [bulk EXCEPT !.status = "sent"]
    /\ SenderTo(s, "committed", {})
    /\ UNCHANGED <<readers, pageAt, bulkCrossed, noticeLost>>

\* A copy cannot be created: nothing is
RefuseBulk(s) ==
    /\ sendersAt[s].step = "listed" /\ sendersAt[s].to # {}
    /\ SenderTo(s, "failing", {})
    /\ UNCHANGED <<bulk, readers, copies, pageAt, bulkCrossed, noticeLost>>

\* on_commit: the provider is told
NoticeBulk(s) ==
    /\ sendersAt[s].step = "committed"
    /\ \/ SenderTo(s, "idle", {}) /\ UNCHANGED noticeLost
       \/ SenderTo(s, "failing", {}) /\ noticeLost' = TRUE
    /\ UNCHANGED <<bulk, readers, copies, pageAt, bulkCrossed>>

FailBulk(s) ==
    /\ sendersAt[s].step = "failing"
    /\ bulk' = [bulk EXCEPT !.status = "failed"]
    /\ SenderTo(s, "idle", {})
    /\ UNCHANGED <<readers, copies, pageAt, bulkCrossed, noticeLost>>

RunBulk(s) ==
    \/ ListBulk(s) \/ CancelBulk(s) \/ SendBulk(s) \/ RefuseBulk(s) \/ NoticeBulk(s) \/ FailBulk(s)

BulkNext ==
    \/ \E later \in BOOLEAN, chosen \in SUBSET Clients : DraftRow(later, chosen)
    \/ AddRecipients \/ BulkComes \/ PageEnds
    \/ \E c \in Clients : PageSendsOne(c) \/ ClientLeaves(c)
    \/ \E s \in Senders : RunBulk(s)

BulkSpec == BulkInit /\ [][BulkNext]_bulkVars

\* Beat starts runs for ever, and each takes its steps
FairBulkSpec == BulkSpec /\ \A s \in Senders : WF_bulkVars(RunBulk(s))
-----------------------------------------------------------------------------
(* Properties *)

\* Nobody gets a message twice, unless two runs had it at once.
SentOnce == bulkCrossed \/ \A c \in Clients : copies[c] <= 1

\* What is recorded as sent has reached every client who was chosen and is
\* still there, and what was to be sent by the job and is recorded as
\* failed has reached nobody, unless only the notification failed or two
\* runs had it at once.
RecordedAsSent ==
    /\ bulk.status = "sent" => \A c \in readers : copies[c] >= 1
    /\ bulk.status = "failed" /\ bulk.later =>
         bulkCrossed \/ noticeLost \/ \A c \in Clients : copies[c] = 0

\* A message that is due does not stay pending.
BulkSettled == (bulk.status = "pending" /\ bulk.due) ~> bulk.status # "pending"
================================================================================
