------------------------------ MODULE Conversations ------------------------------
(***************************************************************************)
(* One thread between two participants (backend/apps/messaging): its       *)
(* messages, who has read them, and the state each participant gives the   *)
(* thread (ThreadUserState).  A message is sent by the API, by the page or *)
(* by a socket, all in three steps without a transaction: the block of the *)
(* other is looked at, the message is inserted, and the thread comes back  *)
(* to the lists it was removed from.  The extras portal writes into the    *)
(* same thread for the provider, and does nothing but insert.              *)
(***************************************************************************)
EXTENDS Naturals, FiniteSets

CONSTANTS
    Participants,  \* the two participants
    Provider,      \* the one who has an extras portal
    Readers,       \* bound: who marks the thread as read
    MaxMessages    \* bound on the messages sent

ASSUME TalkAssumption ==
    /\ MaxMessages \in Nat /\ IsFiniteSet(Participants) /\ Cardinality(Participants) = 2
    /\ Provider \in Participants /\ Readers \subseteq Participants

VARIABLES
    messages,  \* the messages of the thread, with their sender, and by the portal or not
    lastId,    \* the last id given
    unread,    \* per participant, the messages of the other without a MessageRead
    removed,   \* who has archived and who has deleted the thread
    blocking,  \* who blocks the thread
    sending,   \* what each participant's send has done
    reading,   \* the ids a reader's mark-read has listed
    seenGone,  \* per participant, the last id when the thread left his list
    blockLate, \* a participant blocked the thread under a send of the other
    sendLost   \* a send ended after its insert

talkVars == <<messages, lastId, unread, removed, blocking, sending, reading, seenGone, blockLate,
              sendLost>>

Ids == 1..MaxMessages

Ways == {"archived", "deleted"}
Gone(p) == \E how \in Ways : <<p, how>> \in removed

NotReading == [on |-> FALSE, ids |-> {}]

TalkTypeOK ==
    /\ messages \subseteq [id : Ids, from : Participants, portal : BOOLEAN]
    /\ lastId \in 0..MaxMessages
    /\ unread \in [Participants -> SUBSET Ids]
    /\ removed \subseteq Participants \X Ways /\ blocking \subseteq Participants
    /\ sending \in [Participants -> {"idle", "allowed", "inserted"}]
    /\ reading \in [Readers -> [on : BOOLEAN, ids : SUBSET Ids]]
    /\ seenGone \in [Participants -> 0..MaxMessages]
    /\ blockLate \subseteq Participants /\ sendLost \in BOOLEAN

TalkInit ==
    /\ messages = {} /\ lastId = 0
    /\ unread = [p \in Participants |-> {}]
    /\ removed = {} /\ blocking = {}
    /\ sending = [p \in Participants |-> "idle"]
    /\ reading = [p \in Readers |-> NotReading]
    /\ seenGone = [p \in Participants |-> 0]
    /\ blockLate = {} /\ sendLost = FALSE
-----------------------------------------------------------------------------
Other(p) == CHOOSE q \in Participants : q # p

\* _is_blocked_by_other
BlockedByOther(p) == Other(p) \in blocking

StartSend(p) ==
    /\ sending[p] = "idle" /\ lastId < MaxMessages
    /\ ~BlockedByOther(p)
    /\ sending' = [sending EXCEPT ![p] = "allowed"]
    /\ UNCHANGED <<messages, lastId, unread, removed, blocking, reading, seenGone, blockLate, sendLost>>

\* A new Message row, which the other has not read
NewMessage(p, byPortal) ==
    /\ lastId < MaxMessages
    /\ lastId' = lastId + 1
    /\ messages' = messages \cup {[id |-> lastId + 1, from |-> p, portal |-> byPortal]}
    /\ unread' = [unread EXCEPT ![Other(p)] = @ \cup {lastId + 1}]

InsertMessage(p) ==
    /\ sending[p] = "allowed"
    /\ NewMessage(p, FALSE)
    /\ sending' = [sending EXCEPT ![p] = "inserted"]
    /\ blockLate' = blockLate \ {p}
    /\ UNCHANGED <<removed, blocking, reading, seenGone, sendLost>>

BroughtBack(p) == Participants

\* _unarchive_for_participants
BringBack(p) ==
    /\ sending[p] = "inserted"
    /\ removed' = removed \ (BroughtBack(p) \X Ways)
    /\ sending' = [sending EXCEPT ![p] = "idle"]
    /\ UNCHANGED <<messages, lastId, unread, blocking, reading, seenGone, blockLate, sendLost>>

\* The send fails or dies
BreakSend(p) ==
    /\ sending[p] # "idle"
    /\ sending' = [sending EXCEPT ![p] = "idle"]
    /\ sendLost' = (sendLost \/ sending[p] = "inserted")
    /\ blockLate' = blockLate \ {p}
    /\ UNCHANGED <<messages, lastId, unread, removed, blocking, reading, seenGone>>

\* The portal's page, its loyalty message and its job insert, and no more
\* (the ids of the job are taken to be given when it commits)
PortalSend ==
    /\ NewMessage(Provider, TRUE)
    /\ UNCHANGED <<removed, blocking, sending, reading, seenGone, blockLate, sendLost>>

\* ThreadDeleteView, ThreadArchiveView
RemoveThread(p, how) ==
    /\ removed' = removed \cup {<<p, how>>}
    /\ seenGone' = IF Gone(p) THEN seenGone ELSE [seenGone EXCEPT ![p] = lastId]
    /\ UNCHANGED <<messages, lastId, unread, blocking, sending, reading, blockLate, sendLost>>

RestoreThread(p, how) ==
    /\ removed' = removed \ {<<p, how>>}
    /\ UNCHANGED <<messages, lastId, unread, blocking, sending, reading, seenGone, blockLate, sendLost>>

\* ThreadBlockView
BlockThread(p) ==
    /\ blocking' = blocking \cup {p}
    /\ blockLate' = blockLate \cup {q \in {Other(p)} : sending[q] = "allowed"}
    /\ UNCHANGED <<messages, lastId, unread, removed, sending, reading, seenGone, sendLost>>

UnblockThread(p) ==
    /\ blocking' = blocking \ {p}
    /\ UNCHANGED <<messages, lastId, unread, removed, sending, reading, seenGone, blockLate, sendLost>>

\* DirectThreadMarkReadView lists what is unread,
ListUnread(p) ==
    /\ ~reading[p].on
    /\ reading' = [reading EXCEPT ![p] = [on |-> TRUE, ids |-> unread[p]]]
    /\ UNCHANGED <<messages, lastId, unread, removed, blocking, sending, seenGone, blockLate, sendLost>>

Remaining == {m.id : m \in messages}

\* and inserts the reads at once, none if a message listed is gone
MarkRead(p) ==
    /\ reading[p].on
    /\ unread' = IF reading[p].ids \subseteq Remaining
                 THEN [unread EXCEPT ![p] = @ \ reading[p].ids] ELSE unread
    /\ reading' = [reading EXCEPT ![p] = NotReading]
    /\ UNCHANGED <<messages, lastId, removed, blocking, sending, seenGone, blockLate, sendLost>>

\* ThreadMarkUnreadView: the read of the last message of the other goes
MarkUnread(p) ==
    LET theirs == {m.id : m \in {n \in messages : n.from # p}} IN
    /\ theirs # {}
    /\ unread' = [unread EXCEPT ![p] = @ \cup {CHOOSE i \in theirs : \A j \in theirs : j <= i}]
    /\ UNCHANGED <<messages, lastId, removed, blocking, sending, reading, seenGone, blockLate, sendLost>>

\* the reads of a message go with it
UnreadWithout(id) == [p \in Participants |-> unread[p] \ {id}]

\* ThreadDeleteMessageView, by its sender
DeleteMessage(p, m) ==
    /\ m.from = p
    /\ messages' = messages \ {m}
    /\ unread' = UnreadWithout(m.id)
    /\ UNCHANGED <<lastId, removed, blocking, sending, reading, seenGone, blockLate, sendLost>>

TalkNext ==
    \/ PortalSend
    \/ \E p \in Participants :
      \/ StartSend(p) \/ InsertMessage(p) \/ BringBack(p) \/ BreakSend(p)
      \/ \E how \in Ways : RemoveThread(p, how) \/ RestoreThread(p, how)
      \/ BlockThread(p) \/ UnblockThread(p)
      \/ p \in Readers /\ (ListUnread(p) \/ MarkRead(p))
      \/ MarkUnread(p)
      \/ \E m \in messages : DeleteMessage(p, m)

TalkSpec == TalkInit /\ [][TalkNext]_talkVars
-----------------------------------------------------------------------------
(* Properties *)

\* A thread that a participant archived or deleted is out of his list only
\* while the other has written nothing since, unless that send is still under
\* way or died, but for what the portal wrote.
NothingNewRemoved ==
    \A p \in Participants : Gone(p) =>
      \/ sendLost \/ sending[Other(p)] = "inserted"
      \/ \A m \in messages : m.from # p /\ ~m.portal => m.id <= seenGone[p]

\* Nobody but the portal writes into a thread that the other blocks, unless
\* the block came between the look at it and the insert.
BlockRespected ==
    [][\A m \in messages' \ messages :
         ~m.portal /\ m.from \notin blockLate => Other(m.from) \notin blocking]_talkVars
================================================================================
