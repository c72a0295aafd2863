---------------------------- MODULE Notification ----------------------------
(***************************************************************************)
(* Announcements, personal messages and the unread count of one user:      *)
(* NotificationService and its clean-up job.                               *)
(*                                                                         *)
(* Announcements belong to everybody, a row of SysNotificationRead records *)
(* what one user did with one; messages, those rows and the cached unread  *)
(* count carry the user's id, so one user is enough.  Every statement and  *)
(* every Redis command is an action of its own.  Pushes to open streams    *)
(* change no state of the service and are left out.                        *)
(***************************************************************************)
EXTENDS Integers, FiniteSets

CONSTANTS
    Request,       \* the requests and job runs that can be in flight at once
    Announcement,  \* the announcements that can be created
    Message,       \* the personal messages that can be sent to the user
    None,          \* no item, or no cached count
    Offered,       \* bound: the operations an instance of the model exercises
    Lossy          \* may a Redis command fail or an instance stop?

Item == Announcement \union Message

UserOperation == {"markAsRead", "markAllAsRead", "removeByUser", "getUnreadCount"}
AdminOperation == {"sendNotification", "createAnnouncement", "publishAnnouncement",
                   "revokeAnnouncement", "removeAnnouncement"}
Operation == UserOperation \union AdminOperation \union {"cleanup"}

ASSUME NotificationAssumption ==
    /\ IsFiniteSet(Announcement) /\ IsFiniteSet(Message)
    /\ Announcement \intersect Message = {}
    /\ None \notin Item
    /\ Offered \subseteq Operation
    /\ Lossy \in BOOLEAN

VARIABLES
    status,   \* the announcement rows
    read,     \* the user's rows of SysNotificationRead: none, read or hidden
    message,  \* the message rows
    cache,    \* notification:unread:<user>
    req,      \* the requests in flight
    late,     \* history: fills that read a number which has changed since
    stale,    \* history: the cached count was written late or lost its invalidation
    settled   \* history: announcements whose revocation returned undisturbed

rows == <<status, read, message>>
vars == <<rows, cache, req, late, stale, settled>>

-----------------------------------------------------------------------------
Exists(i) == IF i \in Announcement THEN status[i] \notin {"absent", "removed"}
                                   ELSE message[i] \notin {"absent", "removed"}

Published == {a \in Announcement : status[a] = "published"}

\* The three numbers getUnreadCount reads.
PersonalUnread == Cardinality({m \in Message : message[m] = "unread"})
PublishedCount == Cardinality(Published)
ReadCount == Cardinality({a \in Announcement : read[a] = "read"})

\* Mutant of CountOf: the difference is not cut off at zero.
CountOfUncut(system, published, seen) ==
    [system |-> system, announcement |-> published - seen]

CountOf(system, published, seen) ==
    [system |-> system,
     announcement |-> IF published > seen THEN published - seen ELSE 0]

UnreadCount == CountOf(PersonalUnread, PublishedCount, ReadCount)

-----------------------------------------------------------------------------
(* Requests.                                                                *)

NoRequest == "idle"
Filling == {"get", "load"}
Invalidating == {"findUnread", "createReads", "del", "scan", "delFound"}
Stage == {NoRequest, "create", "find", "write", "readMessages", "sweepMessages",
          "sweepAnnouncements", "sweepReads", "done"} \union Filling \union Invalidating

Unread == -1   \* a number not read yet

RequestState ==
    [op : Operation, stage : Stage, item : Item \union {None},
     found : SUBSET Announcement, due : SUBSET Announcement,
     system : Nat \union {Unread}, published : Nat \union {Unread},
     seen : Nat \union {Unread}]

Arrived(op, stage, item, due) ==
    [op |-> op, stage |-> stage, item |-> item, found |-> {}, due |-> due,
     system |-> Unread, published |-> Unread, seen |-> Unread]

Idle == Arrived("cleanup", NoRequest, None, {})

At(r, stage) == req[r].stage = stage

Begin(r, op, stage, item, due) ==
    /\ op \in Offered
    /\ At(r, NoRequest)
    /\ req' = [req EXCEPT ![r] = Arrived(op, stage, item, due)]
    /\ UNCHANGED <<rows, cache, late, stale, settled>>

Goto(r, stage) == req' = [req EXCEPT ![r].stage = stage]

Finish(r) == req' = [req EXCEPT ![r] = Idle]

\* What a request owes once the announcements of S are out of the question.
Excused(state, S) == [state EXCEPT !.due = @ \ S]

\* Moves r to a stage; S is out of the question for everybody.
GotoDropping(r, stage, S) ==
    req' = [q \in Request |->
              IF q = r THEN Excused([req[r] EXCEPT !.stage = stage], S) ELSE Excused(req[q], S)]

\* A number has changed: the fills that read it before are late.
Overtakes(number) == late' = late \union {q \in Request : req[q][number] # Unread}

-----------------------------------------------------------------------------
Init ==
    /\ status = [a \in Announcement |-> "absent"]
    /\ read = [a \in Announcement |-> "none"]
    /\ message = [m \in Message |-> "absent"]
    /\ cache = None
    /\ req = [r \in Request |-> Idle]
    /\ late = {} /\ stale = FALSE /\ settled = {}

(* Requests arrive.                                                         *)
BeginMarkAsRead(r) == \E i \in Item : Exists(i) /\ Begin(r, "markAsRead", "find", i, {})
BeginRemoveByUser(r) == \E i \in Item : Exists(i) /\ Begin(r, "removeByUser", "find", i, {})
BeginMarkAllAsRead(r) == Begin(r, "markAllAsRead", "readMessages", None, Published)
BeginGetUnreadCount(r) == Begin(r, "getUnreadCount", "get", None, {})

BeginSendNotification(r) ==
    \E m \in Message : Begin(r, "sendNotification", "create", m, {})
BeginCreateAnnouncement(r) ==
    \E a \in Announcement : Begin(r, "createAnnouncement", "create", a, {})
BeginAnnouncementChange(r) ==
    \E a \in Announcement, op \in AdminOperation \ {"sendNotification", "createAnnouncement"} :
        Exists(a) /\ Begin(r, op, "find", a, {})

BeginCleanup(r) == Begin(r, "cleanup", "sweepMessages", None, {})

-----------------------------------------------------------------------------
(* The administrators.                                                      *)

\* Ids are new: no two requests create the same row.
CreateMessage(r) ==
    LET m == req[r].item IN
    /\ At(r, "create") /\ req[r].op = "sendNotification"
    /\ \/ /\ message[m] = "absent"
          /\ message' = [message EXCEPT ![m] = "unread"]
          /\ Overtakes("system") /\ Goto(r, "del")
       \/ message[m] # "absent" /\ Finish(r) /\ UNCHANGED <<message, late>>
    /\ UNCHANGED <<status, read, cache, stale, settled>>

\* A published announcement invalidates every user's count, a draft none.
CreateAnnouncement(r) ==
    LET a == req[r].item IN
    /\ At(r, "create") /\ req[r].op = "createAnnouncement"
    /\ \/ /\ status[a] = "absent"
          /\ \/ /\ status' = [status EXCEPT ![a] = "published"]
                /\ Overtakes("published") /\ Goto(r, "scan")
             \/ /\ status' = [status EXCEPT ![a] = "draft"]
                /\ Finish(r) /\ UNCHANGED late
       \/ status[a] # "absent" /\ Finish(r) /\ UNCHANGED <<status, late>>
    /\ UNCHANGED <<read, message, cache, stale, settled>>

\* Mutant of Allowed: whatever is not published can be published.
AllowedUnlessPublished(op, current) ==
    CASE op = "publishAnnouncement" -> current \in {"draft", "revoked"}
      [] op = "revokeAnnouncement" -> current = "published"
      [] OTHER -> current \notin {"absent", "removed"}

\* The status an operation asks for in the row it has found.
Allowed(op, current) ==
    CASE op = "publishAnnouncement" -> current = "draft"
      [] op = "revokeAnnouncement" -> current = "published"
      [] OTHER -> current \notin {"absent", "removed"}

FindAnnouncement(r) ==
    /\ At(r, "find") /\ req[r].op \in AdminOperation
    /\ IF Allowed(req[r].op, status[req[r].item]) THEN Goto(r, "write") ELSE Finish(r)
    /\ UNCHANGED <<rows, cache, late, stale, settled>>

\* The update names the row by its id alone: what its status has become since
\* it was read does not matter, only a deleted row makes it fail.
Publish(r) ==
    LET a == req[r].item IN
    /\ At(r, "write") /\ req[r].op = "publishAnnouncement"
    /\ \/ /\ Exists(a)
          /\ status' = [status EXCEPT ![a] = "published"]
          /\ Overtakes("published") /\ Goto(r, "scan")
       \/ ~Exists(a) /\ Finish(r) /\ UNCHANGED <<status, late>>
    /\ UNCHANGED <<read, message, cache, stale, settled>>

Revoke(r) ==
    LET a == req[r].item IN
    /\ At(r, "write") /\ req[r].op = "revokeAnnouncement"
    /\ \/ /\ Exists(a)
          /\ status' = [status EXCEPT ![a] = "revoked"]
          /\ Overtakes("published") /\ GotoDropping(r, "scan", {a})
       \/ ~Exists(a) /\ Finish(r) /\ UNCHANGED <<status, late>>
    /\ UNCHANGED <<read, message, cache, stale, settled>>

\* Deletes announcements and, by the foreign key, the read rows on them.
DropAnnouncements(S) ==
    /\ status' = [a \in Announcement |-> IF a \in S THEN "removed" ELSE status[a]]
    /\ read' = [a \in Announcement |-> IF a \in S THEN "none" ELSE read[a]]
    /\ late' = late \union
          {q \in Request : S # {} /\ (req[q].published # Unread \/ req[q].seen # Unread)}

RemoveAnnouncement(r) ==
    LET a == req[r].item IN
    /\ At(r, "write") /\ req[r].op = "removeAnnouncement"
    /\ \/ Exists(a) /\ DropAnnouncements({a}) /\ GotoDropping(r, "scan", {a})
       \/ ~Exists(a) /\ Finish(r) /\ UNCHANGED <<status, read, late>>
    /\ UNCHANGED <<message, cache, stale, settled>>

-----------------------------------------------------------------------------
(* The user.                                                                *)

FindItem(r) ==
    /\ At(r, "find") /\ req[r].op \in UserOperation
    /\ IF Exists(req[r].item) THEN Goto(r, "write") ELSE Finish(r)
    /\ UNCHANGED <<rows, cache, late, stale, settled>>

\* Writes a read row; a new row has a new age.  The foreign key refuses one
\* for an announcement that has been deleted.
WriteRead(r, a, value) ==
    /\ \/ /\ Exists(a)
          /\ read' = [read EXCEPT ![a] = value]
          /\ IF (read[a] = "read") # (value = "read") THEN Overtakes("seen")
                                                      ELSE UNCHANGED late
          /\ Goto(r, "del")
       \/ ~Exists(a) /\ Finish(r) /\ UNCHANGED <<read, late>>
    /\ UNCHANGED <<status, message, cache, stale, settled>>

\* Writes or deletes a message row; a deleted one makes the statement fail.
WriteMessage(r, m, value) ==
    /\ \/ /\ Exists(m)
          /\ message' = [message EXCEPT ![m] = value]
          /\ IF message[m] = "unread" THEN Overtakes("system") ELSE UNCHANGED late
          /\ Goto(r, "del")
       \/ ~Exists(m) /\ Finish(r) /\ UNCHANGED <<message, late>>
    /\ UNCHANGED <<status, read, cache, stale, settled>>

\* Mutant of MarkAnnouncement: the upsert makes a hidden announcement visible.
MarkAnnouncementShows(r) ==
    LET a == req[r].item IN
    /\ At(r, "write") /\ req[r].op = "markAsRead" /\ a \in Announcement
    /\ WriteRead(r, a, "read")

\* An existing row is left as it is, hidden or not.
MarkAnnouncement(r) ==
    LET a == req[r].item IN
    /\ At(r, "write") /\ req[r].op = "markAsRead" /\ a \in Announcement
    /\ WriteRead(r, a, IF read[a] = "none" THEN "read" ELSE read[a])

MarkMessage(r) ==
    /\ At(r, "write") /\ req[r].op = "markAsRead" /\ req[r].item \in Message
    /\ WriteMessage(r, req[r].item, "read")

HideAnnouncement(r) ==
    /\ At(r, "write") /\ req[r].op = "removeByUser" /\ req[r].item \in Announcement
    /\ WriteRead(r, req[r].item, "hidden")

DeleteMessage(r) ==
    /\ At(r, "write") /\ req[r].op = "removeByUser" /\ req[r].item \in Message
    /\ WriteMessage(r, req[r].item, "removed")

(* markAllAsRead.                                                           *)
ReadMessages(r) ==
    LET S == {m \in Message : message[m] = "unread"} IN
    /\ At(r, "readMessages")
    /\ message' = [m \in Message |-> IF m \in S THEN "read" ELSE message[m]]
    /\ IF S # {} THEN Overtakes("system") ELSE UNCHANGED late
    /\ Goto(r, "findUnread")
    /\ UNCHANGED <<status, read, cache, stale, settled>>

\* Mutant of FindUnread: a cached count of zero is trusted.
FindUnreadCached(r) ==
    LET S == {a \in Published : read[a] = "none"} IN
    /\ At(r, "findUnread")
    /\ IF S = {} \/ cache = CountOf(0, 0, 0) THEN Goto(r, "del")
       ELSE req' = [req EXCEPT ![r] = [@ EXCEPT !.stage = "createReads", !.found = S]]
    /\ UNCHANGED <<rows, cache, late, stale, settled>>

FindUnread(r) ==
    LET S == {a \in Published : read[a] = "none"} IN
    /\ At(r, "findUnread")
    /\ IF S = {} THEN Goto(r, "del")
       ELSE req' = [req EXCEPT ![r] = [@ EXCEPT !.stage = "createReads", !.found = S]]
    /\ UNCHANGED <<rows, cache, late, stale, settled>>

\* One statement for all rows: if an announcement was deleted meanwhile, the
\* foreign key makes it fail, and the count is not invalidated.
CreateReads(r) ==
    LET new == {a \in req[r].found : read[a] = "none"} IN
    /\ At(r, "createReads")
    /\ \/ /\ \A a \in req[r].found : Exists(a)
          /\ read' = [a \in Announcement |-> IF a \in new THEN "read" ELSE read[a]]
          /\ IF new # {} THEN Overtakes("seen") ELSE UNCHANGED late
          /\ Goto(r, "del")
          /\ UNCHANGED stale
       \/ /\ \E a \in req[r].found : ~Exists(a)
          /\ Finish(r)
          /\ stale' = (stale \/ cache # None)
          /\ UNCHANGED <<read, late>>
    /\ UNCHANGED <<status, message, cache, settled>>

-----------------------------------------------------------------------------
(* The cached count.                                                        *)

\* Where a request goes once it has invalidated the count.
Invalidated(r) ==
    IF req[r].op = "sendNotification" THEN Goto(r, "get") ELSE Finish(r)

\* Mutant of DelCount: the key is not deleted.
DelCountForgotten(r) ==
    /\ At(r, "del")
    /\ Invalidated(r)
    /\ UNCHANGED <<rows, cache, late, stale, settled>>

DelCount(r) ==
    /\ At(r, "del")
    /\ cache' = None /\ stale' = FALSE
    /\ Invalidated(r)
    /\ UNCHANGED <<rows, late, settled>>

\* A revocation has returned, and no other request is about to publish.
Settles(r) ==
    LET a == req[r].item IN
    IF /\ req[r].op = "revokeAnnouncement"
       /\ status[a] = "revoked"
       /\ \A q \in Request : ~(req[q].op = "publishAnnouncement" /\ req[q].stage = "write"
                               /\ req[q].item = a)
    THEN {a} ELSE {}

\* delPattern: the keys a SCAN has returned are deleted by the next command.
ScanCounts(r) ==
    /\ At(r, "scan")
    /\ \/ cache # None /\ Goto(r, "delFound") /\ UNCHANGED settled
       \/ cache = None /\ Finish(r) /\ settled' = settled \union Settles(r)
    /\ UNCHANGED <<rows, cache, late, stale>>

DelFound(r) ==
    /\ At(r, "delFound")
    /\ cache' = None /\ stale' = FALSE
    /\ Finish(r)
    /\ settled' = settled \union Settles(r)
    /\ UNCHANGED <<rows, late>>

\* A cached count is the answer; so is a failing read a miss.
GetCount(r) ==
    /\ At(r, "get")
    /\ \/ cache # None /\ Finish(r)
       \/ (cache = None \/ Lossy) /\ Goto(r, "load")
    /\ UNCHANGED <<rows, cache, late, stale, settled>>

\* The three counts run concurrently.
Load(r, number, value) ==
    /\ At(r, "load") /\ req[r][number] = Unread
    /\ req' = [req EXCEPT ![r] = [@ EXCEPT ![number] = value]]
    /\ UNCHANGED <<rows, cache, late, stale, settled>>

LoadPersonal(r) == Load(r, "system", PersonalUnread)
LoadPublished(r) == Load(r, "published", PublishedCount)
LoadReads(r) == Load(r, "seen", ReadCount)

Loaded(r) == /\ req[r].system # Unread
             /\ req[r].published # Unread
             /\ req[r].seen # Unread

SetCount(r) ==
    /\ At(r, "load") /\ Loaded(r)
    /\ cache' = CountOf(req[r].system, req[r].published, req[r].seen)
    /\ stale' = (r \in late)
    /\ late' = late \ {r}
    /\ Finish(r)
    /\ UNCHANGED <<rows, settled>>

\* Redis fails to delete the key; the request goes on.
LoseDel(r) ==
    /\ Lossy
    /\ At(r, "del")
    /\ stale' = (stale \/ cache # None)
    /\ Invalidated(r)
    /\ UNCHANGED <<rows, cache, late, settled>>

\* A statement fails, Redis fails at the last command, or the instance stops.
Abort(r) ==
    /\ Lossy
    /\ ~At(r, NoRequest)
    /\ stale' = (stale \/ (cache # None /\ req[r].stage \in Invalidating))
    /\ late' = late \ {r}
    /\ Finish(r)
    /\ UNCHANGED <<rows, cache, settled>>

CountExpires ==
    /\ cache # None /\ cache' = None /\ stale' = FALSE
    /\ UNCHANGED <<rows, req, late, settled>>

-----------------------------------------------------------------------------
(* NotificationCleanupService: three statements, none of which invalidates  *)
(* a count.  Ages are not modelled: any row a statement looks at may be past *)
(* its retention.  A read row is as old as the first reading, so a dismissal *)
(* may be forgotten soon after it.                                           *)
SweepMessages(r) ==
    /\ At(r, "sweepMessages")
    /\ \E S \in SUBSET {m \in Message : message[m] = "read"} :
          message' = [m \in Message |-> IF m \in S THEN "removed" ELSE message[m]]
    /\ Goto(r, "sweepAnnouncements")
    /\ UNCHANGED <<status, read, cache, late, stale, settled>>

SweepAnnouncements(r) ==
    /\ At(r, "sweepAnnouncements")
    /\ \E S \in SUBSET {a \in Announcement : Exists(a)} :
          /\ DropAnnouncements(S)
          /\ GotoDropping(r, "sweepReads", S)
          /\ stale' = (stale \/ (cache # None /\ S # {}))
    /\ UNCHANGED <<message, cache, settled>>

\* A dismissed announcement becomes unread again, and nobody owes it any more.
SweepReads(r) ==
    /\ At(r, "sweepReads")
    /\ \E S \in SUBSET {a \in Announcement : read[a] = "hidden"} :
          /\ read' = [a \in Announcement |-> IF a \in S THEN "none" ELSE read[a]]
          /\ GotoDropping(r, "done", S)
    /\ UNCHANGED <<status, message, cache, late, stale, settled>>

\* The run of the job is over.
Done(r) ==
    /\ At(r, "done")
    /\ Finish(r)
    /\ UNCHANGED <<rows, cache, late, stale, settled>>

-----------------------------------------------------------------------------
Arrive(r) ==
    \/ BeginMarkAsRead(r) \/ BeginRemoveByUser(r) \/ BeginMarkAllAsRead(r)
    \/ BeginGetUnreadCount(r) \/ BeginSendNotification(r) \/ BeginCreateAnnouncement(r)
    \/ BeginAnnouncementChange(r) \/ BeginCleanup(r)

Step(r) ==
    \/ CreateMessage(r) \/ CreateAnnouncement(r) \/ FindAnnouncement(r)
    \/ Publish(r) \/ Revoke(r) \/ RemoveAnnouncement(r)
    \/ FindItem(r) \/ MarkAnnouncement(r) \/ MarkMessage(r)
    \/ HideAnnouncement(r) \/ DeleteMessage(r)
    \/ ReadMessages(r) \/ FindUnread(r) \/ CreateReads(r)
    \/ DelCount(r) \/ ScanCounts(r) \/ DelFound(r) \/ GetCount(r)
    \/ LoadPersonal(r) \/ LoadPublished(r) \/ LoadReads(r) \/ SetCount(r)
    \/ SweepMessages(r) \/ SweepAnnouncements(r) \/ SweepReads(r) \/ Done(r)

Next ==
    \/ \E r \in Request : Arrive(r) \/ Step(r) \/ LoseDel(r) \/ Abort(r)
    \/ CountExpires

Spec == Init /\ [][Next]_vars

-----------------------------------------------------------------------------
(* Properties.                                                              *)

TypeOK ==
    /\ status \in [Announcement -> {"absent", "draft", "published", "revoked", "removed"}]
    /\ read \in [Announcement -> {"none", "read", "hidden"}]
    /\ message \in [Message -> {"absent", "unread", "read", "removed"}]
    /\ cache \in [system : Nat, announcement : Nat] \union {None}
    /\ req \in [Request -> RequestState]
    /\ late \subseteq Request /\ stale \in BOOLEAN /\ settled \subseteq Announcement

\* The cached unread count is the one getUnreadCount would compute now, unless
\* a request has still to invalidate it.  The known exceptions (stale): a fill
\* that read a number before it changed and stored it after the invalidation,
\* an invalidation that was lost, and the clean-up, which invalidates nothing.
CountIsCurrent ==
    cache # None /\ ~stale =>
        \/ cache = UnreadCount
        \/ \E r \in Request : req[r].stage \in Invalidating

\* publishAnnouncement, "only a draft can be published": an announcement whose
\* revocation has returned, with no publication past its check, is never
\* published again, whatever administrators do concurrently.
StaysRevoked == \A a \in settled : status[a] \in {"revoked", "removed"}

\* markAllAsRead: an announcement that was published when the call began, and
\* was neither revoked, deleted nor forgotten since, is read when it returns,
\* although the call reads the list and writes the rows in two statements.
AllAreRead ==
    \A r \in Request : req[r].op = "markAllAsRead" /\ At(r, "del") =>
        \A a \in req[r].due : read[a] # "none"

\* Reading and dismissing are remembered: the rows behave like Inbox.
Promise == INSTANCE Inbox WITH
    offered <- Published \union {m \in Message : message[m] \in {"unread", "read"}},
    opened <- {a \in Announcement : read[a] # "none"}
                  \union {m \in Message : message[m] = "read"},
    dismissed <- {a \in Announcement : read[a] = "hidden"},
    deleted <- {a \in Announcement : status[a] = "removed"}
                  \union {m \in Message : message[m] = "removed"}
ImplementsInbox == Promise!Spec

-----------------------------------------------------------------------------
(* Why they hold.                                                           *)

\* A fill that is not late has read numbers that are still the right ones.
FillsAreCurrent ==
    \A r \in Request \ late :
        /\ req[r].system \in {Unread, PersonalUnread}
        /\ req[r].published \in {Unread, PublishedCount}
        /\ req[r].seen \in {Unread, ReadCount}

\* Numbers are only held by a fill.
OnlyFillsLoad ==
    \A r \in Request : ~At(r, "load") =>
        /\ r \notin late
        /\ req[r].system = Unread /\ req[r].published = Unread /\ req[r].seen = Unread

\* An administrator's request names a message or an announcement.
ItemsFit ==
    \A r \in Request : req[r].op \in AdminOperation =>
        req[r].item \in IF req[r].op = "sendNotification" THEN Message ELSE Announcement

\* A read row needs its announcement.
RowsNeedAnnouncements == \A a \in Announcement : ~Exists(a) => read[a] = "none"

\* Who is about to publish an announcement found it a draft: not settled.
PublishersAreEarly ==
    \A r \in Request : At(r, "write") /\ req[r].op = "publishAnnouncement" =>
        req[r].item \notin settled

\* What markAllAsRead owes is read already or in its list, and only a
\* publication brings a new announcement into existence.
OwedAreFound ==
    \A r \in Request : req[r].op = "markAllAsRead" =>
        /\ \A a \in req[r].due : status[a] = "published"
        /\ At(r, "createReads") => \A a \in req[r].due : a \in req[r].found \/ read[a] # "none"

NotificationInv ==
    /\ TypeOK
    /\ FillsAreCurrent
    /\ OnlyFillsLoad
    /\ ItemsFit
    /\ RowsNeedAnnouncements
    /\ PublishersAreEarly
    /\ OwedAreFound
    /\ CountIsCurrent
    /\ StaysRevoked
    /\ AllAreRead
=============================================================================
