---------------------------- MODULE ClientReminders ----------------------------
(***************************************************************************)
(* The reminder that a provider sets on the record of a client, and the    *)
(* job of Celery beat that is to announce it (backend/apps/extras_portal). *)
(*                                                                         *)
(* The module of the job uses the name Q without importing it, so a run    *)
(* ends in a NameError before it has listed one record.  What the code     *)
(* says after that line is not reached and has no action.                  *)
(***************************************************************************)
VARIABLES
    reminder,    \* the ClientRecord: a time is set, it has come, reminder_sent
    job          \* what the run of the job does

reminderVars == <<reminder, job>>

RemindersTypeOK ==
    /\ reminder \in [set : BOOLEAN, due : BOOLEAN, sent : BOOLEAN]
    /\ job \in {"idle", "started"}

\* The row with another date or time, or with none
Reset(set) == [set |-> set, due |-> FALSE, sent |-> FALSE]

RemindersInit ==
    /\ reminder = Reset(FALSE)
    /\ job = "idle"
-----------------------------------------------------------------------------

\* _save_client_records: a changed date or time resets the flag
SetReminder ==
    /\ \E set \in BOOLEAN : reminder' = Reset(set)
    /\ UNCHANGED job

ReminderComes ==
    /\ reminder.set /\ ~reminder.due
    /\ reminder' = [reminder EXCEPT !.due = TRUE]
    /\ UNCHANGED job

\* Beat calls process_due_client_reminders again and again,
StartRun ==
    /\ job = "idle"
    /\ job' = "started"
    /\ UNCHANGED reminder

\* which builds its query: the NameError leaves the function, whose only try
\* surrounds the loop below it, and the task, which is not retried
BuildQuery ==
    /\ job = "started"
    /\ job' = "idle"
    /\ UNCHANGED reminder

RemindersNext == SetReminder \/ ReminderComes \/ StartRun \/ BuildQuery

\* Beat keeps starting runs, and a run that was started goes on
FairRemindersSpec ==
    /\ RemindersInit /\ [][RemindersNext]_reminderVars
    /\ WF_reminderVars(StartRun) /\ WF_reminderVars(BuildQuery)
-----------------------------------------------------------------------------
(* Properties *)

\* "Check all ClientRecord rows whose reminder datetime has arrived and fire
\* notifications" (extras_portal/services.py:242): a reminder that has come
\* and was not announced is announced, which its flag says, or moved to
\* another time or taken back.
EachReminderFires == (reminder.due /\ ~reminder.sent) ~> (reminder.sent \/ ~reminder.due)
================================================================================
