------------------------- MODULE NotificationProofs -------------------------
(* What Notification and Stream guarantee, for constants of any size.         *)
EXTENDS Notification, Stream, FiniteSetTheorems, TLAPS

-----------------------------------------------------------------------------
(* How the helpers move requests.                                           *)

\* The other requests keep everything but what they may stop to owe.
OthersKept(r) ==
    \A q \in Request \ {r} :
        /\ req'[q].op = req[q].op /\ req'[q].stage = req[q].stage
        /\ req'[q].item = req[q].item /\ req'[q].found = req[q].found
        /\ req'[q].system = req[q].system /\ req'[q].published = req[q].published
        /\ req'[q].seen = req[q].seen /\ req'[q].due \subseteq req[q].due

\* The request itself keeps everything but its stage and what it owes.
Moved(r, stage) ==
    /\ req'[r].stage = stage /\ req'[r].op = req[r].op
    /\ req'[r].item = req[r].item /\ req'[r].found = req[r].found
    /\ req'[r].system = req[r].system /\ req'[r].published = req[r].published
    /\ req'[r].seen = req[r].seen /\ req'[r].due \subseteq req[r].due

\* Nothing but that happens to req.
Steps(r) == req' \in [Request -> RequestState] /\ OthersKept(r)

\* The stages of the handlers are stages.
LEMMA StageNames ==
    /\ {NoRequest, "create", "find", "write", "readMessages", "sweepMessages",
        "sweepAnnouncements", "sweepReads", "done"} \subseteq Stage
    /\ {"get", "load", "findUnread", "createReads", "del", "scan", "delFound"} \subseteq Stage
BY DEF Stage, Filling, Invalidating

\* Excusing a request changes nothing but what it owes.
LEMMA ExcusedKeeps ==
    ASSUME NEW x \in RequestState, NEW S
    PROVE  /\ Excused(x, S) \in RequestState
           /\ Excused(x, S).op = x.op /\ Excused(x, S).stage = x.stage
           /\ Excused(x, S).item = x.item /\ Excused(x, S).found = x.found
           /\ Excused(x, S).system = x.system /\ Excused(x, S).published = x.published
           /\ Excused(x, S).seen = x.seen /\ Excused(x, S).due = x.due \ S
BY DEF Excused, RequestState

\* A new stage, alone or with a list, keeps the type of a request.
LEMMA Restaged ==
    ASSUME NEW x \in RequestState, NEW stage \in Stage, NEW S \in SUBSET Announcement
    PROVE  /\ [x EXCEPT !.stage = stage] \in RequestState
           /\ [x EXCEPT !.stage = stage, !.found = S] \in RequestState
BY DEF RequestState

\* Goto changes the stage of one request.
LEMMA GotoMoves ==
    ASSUME TypeOK, NEW r \in Request, NEW stage \in Stage, Goto(r, stage)
    PROVE  /\ Steps(r) /\ Moved(r, stage)
           /\ \A q \in Request \ {r} : req'[q] = req[q]
           /\ req'[r].due = req[r].due
BY DEF TypeOK, Goto, Steps, OthersKept, Moved, RequestState

\* Finish makes a request idle.
LEMMA FinishReleases ==
    ASSUME TypeOK, NEW r \in Request, Finish(r)
    PROVE  /\ Steps(r) /\ req'[r] = Idle
           /\ \A q \in Request \ {r} : req'[q] = req[q]
<1>1. Idle \in RequestState
  BY StageNames DEF Idle, Arrived, RequestState, Operation
<1> QED BY <1>1 DEF TypeOK, Finish, Steps, OthersKept, RequestState

\* GotoDropping changes the stage of one request and what all of them owe.
LEMMA DroppingMoves ==
    ASSUME TypeOK, NEW r \in Request, NEW stage \in Stage, NEW S, GotoDropping(r, stage, S)
    PROVE  /\ Steps(r) /\ Moved(r, stage)
           /\ \A q \in Request : req'[q].due = req[q].due \ S
<1>1. \A q \in Request : req[q] \in RequestState
  BY DEF TypeOK
<1>2. \A q \in Request \ {r} : req'[q] = Excused(req[q], S)
  BY DEF GotoDropping
<1>3. PICK x \in RequestState : x = [req[r] EXCEPT !.stage = stage]
  BY <1>1, Restaged
<1>4. x.stage = stage /\ x.op = req[r].op /\ x.item = req[r].item /\ x.found = req[r].found
      /\ x.system = req[r].system /\ x.published = req[r].published
      /\ x.seen = req[r].seen /\ x.due = req[r].due
  BY <1>1, <1>3 DEF RequestState
<1>5. req'[r] = Excused(x, S)
  BY <1>3 DEF GotoDropping
<1>6. req' \in [Request -> RequestState]
  BY <1>1, <1>2, <1>5, ExcusedKeeps DEF GotoDropping
<1>7. OthersKept(r)
  BY <1>1, <1>2, ExcusedKeeps DEF OthersKept
<1>8. Moved(r, stage) /\ req'[r].due = req[r].due \ S
  BY <1>4, <1>5, ExcusedKeeps DEF Moved
<1> QED BY <1>1, <1>2, <1>6, <1>7, <1>8, ExcusedKeeps DEF Steps

\* A request that arrives has read no number.
LEMMA BeginMoves ==
    ASSUME TypeOK, NEW r \in Request, NEW op, NEW stage \in Stage,
           NEW item \in Item \union {None}, NEW owed \in SUBSET Announcement,
           Begin(r, op, stage, item, owed)
    PROVE  /\ Steps(r) /\ req'[r] = Arrived(op, stage, item, owed)
           /\ At(r, NoRequest) /\ op \in Operation
           /\ \A q \in Request \ {r} : req'[q] = req[q]
           /\ UNCHANGED <<rows, cache, late, stale, settled>>
<1>1. op \in Operation
  BY NotificationAssumption DEF Begin
<1>2. Arrived(op, stage, item, owed) \in RequestState
  BY <1>1 DEF Arrived, RequestState
<1> QED BY <1>1, <1>2 DEF TypeOK, Begin, Steps, OthersKept, RequestState

-----------------------------------------------------------------------------
(* Types.                                                                   *)

\* The three numbers are natural.
LEMMA NumbersAreNatural ==
    PersonalUnread \in Nat /\ PublishedCount \in Nat /\ ReadCount \in Nat
<1>1. IsFiniteSet({m \in Message : message[m] = "unread"})
  BY NotificationAssumption, FS_Subset
<1>2. IsFiniteSet(Published)
  BY NotificationAssumption, FS_Subset DEF Published
<1>3. IsFiniteSet({a \in Announcement : read[a] = "read"})
  BY NotificationAssumption, FS_Subset
<1> QED BY <1>1, <1>2, <1>3, FS_CardinalityType
        DEF PersonalUnread, PublishedCount, ReadCount

\* An arrival keeps the types.
LEMMA ArriveTyped ==
    ASSUME TypeOK, NEW r \in Request, Arrive(r)
    PROVE  TypeOK' /\ Steps(r) /\ UNCHANGED <<rows, cache, late, stale, settled>>
<1>1. /\ req' \in [Request -> RequestState] /\ Steps(r)
      /\ UNCHANGED <<rows, cache, late, stale, settled>>
  <2>1. Published \in SUBSET Announcement /\ {} \in SUBSET Announcement
    BY DEF Published
  <2> USE <2>1, BeginMoves, StageNames DEF Steps, Item
  <2>2. CASE BeginMarkAsRead(r) \/ BeginRemoveByUser(r)
    BY <2>2 DEF BeginMarkAsRead, BeginRemoveByUser
  <2>3. CASE BeginMarkAllAsRead(r) \/ BeginGetUnreadCount(r) \/ BeginCleanup(r)
    BY <2>3 DEF BeginMarkAllAsRead, BeginGetUnreadCount, BeginCleanup
  <2>4. CASE BeginSendNotification(r) \/ BeginCreateAnnouncement(r)
    BY <2>4 DEF BeginSendNotification, BeginCreateAnnouncement
  <2>5. CASE BeginAnnouncementChange(r)
    BY <2>5 DEF BeginAnnouncementChange
  <2> QED BY <2>2, <2>3, <2>4, <2>5 DEF Arrive
<1> QED BY <1>1 DEF TypeOK, rows

\* The list markAllAsRead has found, and the stage it brings.
LEMMA FoundMoves ==
    ASSUME TypeOK, NEW r \in Request, NEW S \in SUBSET Announcement,
           req' = [req EXCEPT ![r] = [@ EXCEPT !.stage = "createReads", !.found = S]]
    PROVE  /\ Steps(r)
           /\ req'[r].op = req[r].op /\ req'[r].item = req[r].item
           /\ req'[r].stage = "createReads" /\ req'[r].found = S
           /\ req'[r].due = req[r].due
           /\ req'[r].system = req[r].system /\ req'[r].published = req[r].published
           /\ req'[r].seen = req[r].seen
<1>1. req[r] \in RequestState
  BY DEF TypeOK
<1>2. [req[r] EXCEPT !.stage = "createReads", !.found = S] \in RequestState
  BY <1>1, Restaged, StageNames
<1>3. Steps(r)
  BY <1>2 DEF TypeOK, Steps, OthersKept
<1>4. req'[r] = [req[r] EXCEPT !.stage = "createReads", !.found = S]
  BY DEF TypeOK
<1>5. PICK x \in RequestState : x = req[r]
  BY <1>1
<1>6. PICK y : y = [x EXCEPT !.stage = "createReads", !.found = S]
  OBVIOUS
<1>7. y = req'[r]
  BY <1>4, <1>5, <1>6
<1>8. /\ y.op = x.op /\ y.item = x.item /\ y.due = x.due
      /\ y.stage = "createReads" /\ y.found = S
      /\ y.system = x.system /\ y.published = x.published /\ y.seen = x.seen
  BY <1>5, <1>6 DEF RequestState
<1> QED BY <1>3, <1>5, <1>7, <1>8

\* What findUnread does to its request.
LEMMA FindUnreadCases ==
    ASSUME NEW r \in Request, FindUnread(r)
    PROVE  LET S == {a \in Published : read[a] = "none"} IN
           /\ S \in SUBSET Announcement
           /\ \/ S = {} /\ Goto(r, "del")
              \/ req' = [req EXCEPT ![r] = [@ EXCEPT !.stage = "createReads", !.found = S]]
BY DEF FindUnread, Published

\* A number read by a fill, and nothing else.
LEMMA LoadMoves ==
    ASSUME TypeOK, NEW r \in Request, NEW number \in {"system", "published", "seen"},
           NEW value \in Nat, Load(r, number, value)
    PROVE  /\ Steps(r)
           /\ req'[r].op = req[r].op /\ req'[r].item = req[r].item
           /\ req'[r].stage = "load" /\ req'[r].found = req[r].found
           /\ req'[r].due = req[r].due
           /\ req'[r][number] = value
           /\ \A other \in {"system", "published", "seen"} \ {number} :
                 req'[r][other] = req[r][other]
           /\ \A q \in Request \ {r} : req'[q] = req[q]
<1>1. req[r] \in RequestState
  BY DEF TypeOK
<1>2. /\ [req[r] EXCEPT !.system = value] \in RequestState
      /\ [req[r] EXCEPT !.published = value] \in RequestState
      /\ [req[r] EXCEPT !.seen = value] \in RequestState
  BY <1>1 DEF RequestState
<1>3. /\ req' = [req EXCEPT ![r] = [@ EXCEPT ![number] = value]]
      /\ req[r].stage = "load"
  BY DEF Load, At
<1>4. CASE number = "system"
  BY <1>1, <1>2, <1>3, <1>4 DEF RequestState, Steps, OthersKept, TypeOK
<1>5. CASE number = "published"
  BY <1>1, <1>2, <1>3, <1>5 DEF RequestState, Steps, OthersKept, TypeOK
<1>6. CASE number = "seen"
  BY <1>1, <1>2, <1>3, <1>6 DEF RequestState, Steps, OthersKept, TypeOK
<1> QED BY <1>4, <1>5, <1>6

\* Every action changes one request and keeps its type.
LEMMA StepMoves ==
    ASSUME TypeOK, NEW r \in Request, Step(r) \/ LoseDel(r) \/ Abort(r)
    PROVE  Steps(r)
<1> USE GotoMoves, FinishReleases, DroppingMoves, StageNames
<1>1. CASE CreateMessage(r) \/ CreateAnnouncement(r) \/ FindAnnouncement(r) \/ Publish(r)
  BY <1>1 DEF CreateMessage, CreateAnnouncement, FindAnnouncement, Publish
<1>2. CASE Revoke(r) \/ RemoveAnnouncement(r) \/ FindItem(r)
  BY <1>2 DEF Revoke, RemoveAnnouncement, FindItem
<1>3. CASE MarkAnnouncement(r) \/ HideAnnouncement(r)
  BY <1>3 DEF MarkAnnouncement, HideAnnouncement, WriteRead
<1>4. CASE MarkMessage(r) \/ DeleteMessage(r) \/ ReadMessages(r)
  BY <1>4 DEF MarkMessage, DeleteMessage, WriteMessage, ReadMessages
<1>5. CASE FindUnread(r)
  <2>1. CASE Goto(r, "del")
    BY <2>1
  <2>2. CASE ~Goto(r, "del")
    BY <1>5, <2>2, FindUnreadCases, FoundMoves
  <2> QED BY <2>1, <2>2
<1>6. CASE CreateReads(r) \/ ScanCounts(r) \/ DelFound(r) \/ GetCount(r) \/ SetCount(r)
  BY <1>6 DEF CreateReads, ScanCounts, DelFound, GetCount, SetCount
<1>7. CASE DelCount(r) \/ LoseDel(r)
  BY <1>7 DEF DelCount, LoseDel, Invalidated
<1>8. CASE LoadPersonal(r) \/ LoadPublished(r) \/ LoadReads(r)
  BY <1>8, LoadMoves, NumbersAreNatural DEF LoadPersonal, LoadPublished, LoadReads
<1>9. CASE SweepMessages(r) \/ SweepAnnouncements(r) \/ SweepReads(r) \/ Done(r) \/ Abort(r)
  BY <1>9 DEF SweepMessages, SweepAnnouncements, SweepReads, Done, Abort
<1> QED BY <1>1, <1>2, <1>3, <1>4, <1>5, <1>6, <1>7, <1>8, <1>9 DEF Step

\* Every action keeps the types.
LEMMA StepTyped ==
    ASSUME TypeOK, ItemsFit, NEW r \in Request, Step(r) \/ LoseDel(r) \/ Abort(r)
    PROVE  TypeOK'
<1>1. req' \in [Request -> RequestState]
  BY StepMoves DEF Steps
<1>2. /\ status' \in [Announcement -> {"absent", "draft", "published", "revoked", "removed"}]
      /\ read' \in [Announcement -> {"none", "read", "hidden"}]
      /\ message' \in [Message -> {"absent", "unread", "read", "removed"}]
      /\ settled' \subseteq Announcement
  <2> USE DEF TypeOK, rows
  <2>1. CASE CreateMessage(r) \/ CreateAnnouncement(r) \/ FindAnnouncement(r) \/ Publish(r)
    BY <2>1 DEF CreateMessage, CreateAnnouncement, FindAnnouncement, Publish
  <2>2. CASE Revoke(r) \/ RemoveAnnouncement(r) \/ FindItem(r)
    BY <2>2 DEF Revoke, RemoveAnnouncement, FindItem, DropAnnouncements
  <2>3. CASE MarkAnnouncement(r) \/ HideAnnouncement(r)
    BY <2>3 DEF MarkAnnouncement, HideAnnouncement, WriteRead
  <2>4. CASE MarkMessage(r) \/ DeleteMessage(r) \/ ReadMessages(r)
    BY <2>4 DEF MarkMessage, DeleteMessage, WriteMessage, ReadMessages
  <2>5. CASE FindUnread(r) \/ CreateReads(r) \/ GetCount(r) \/ SetCount(r)
    BY <2>5 DEF FindUnread, CreateReads, GetCount, SetCount
  <2>6. CASE DelCount(r) \/ LoseDel(r) \/ Done(r) \/ Abort(r)
    BY <2>6 DEF DelCount, LoseDel, Done, Abort
  <2>7. CASE LoadPersonal(r) \/ LoadPublished(r) \/ LoadReads(r)
    BY <2>7 DEF LoadPersonal, LoadPublished, LoadReads, Load
  <2>8. CASE SweepMessages(r) \/ SweepAnnouncements(r) \/ SweepReads(r)
    BY <2>8 DEF SweepMessages, SweepAnnouncements, SweepReads, DropAnnouncements
  <2>9. CASE ScanCounts(r) \/ DelFound(r)
    <3>1. Settles(r) \subseteq Announcement
      BY DEF ItemsFit, Settles, AdminOperation
    <3> QED BY <2>9, <3>1 DEF ScanCounts, DelFound
  <2> QED BY <2>1, <2>2, <2>3, <2>4, <2>5, <2>6, <2>7, <2>8, <2>9 DEF Step
<1>3. /\ cache' \in [system : Nat, announcement : Nat] \union {None}
      /\ late' \subseteq Request /\ stale' \in BOOLEAN
  <2> USE DEF TypeOK, rows, Overtakes
  <2>1. CASE CreateMessage(r) \/ CreateAnnouncement(r) \/ FindAnnouncement(r) \/ Publish(r)
    BY <2>1 DEF CreateMessage, CreateAnnouncement, FindAnnouncement, Publish
  <2>2. CASE Revoke(r) \/ RemoveAnnouncement(r) \/ FindItem(r)
    BY <2>2 DEF Revoke, RemoveAnnouncement, FindItem, DropAnnouncements
  <2>3. CASE MarkAnnouncement(r) \/ HideAnnouncement(r)
    BY <2>3 DEF MarkAnnouncement, HideAnnouncement, WriteRead
  <2>4. CASE MarkMessage(r) \/ DeleteMessage(r) \/ ReadMessages(r)
    BY <2>4 DEF MarkMessage, DeleteMessage, WriteMessage, ReadMessages
  <2>5. CASE FindUnread(r) \/ CreateReads(r) \/ GetCount(r)
    BY <2>5 DEF FindUnread, CreateReads, GetCount
  <2>6. CASE DelCount(r) \/ LoseDel(r) \/ Done(r) \/ Abort(r) \/ ScanCounts(r) \/ DelFound(r)
    BY <2>6 DEF DelCount, LoseDel, Done, Abort, ScanCounts, DelFound
  <2>7. CASE LoadPersonal(r) \/ LoadPublished(r) \/ LoadReads(r)
    BY <2>7 DEF LoadPersonal, LoadPublished, LoadReads, Load
  <2>8. CASE SweepMessages(r) \/ SweepAnnouncements(r) \/ SweepReads(r)
    BY <2>8 DEF SweepMessages, SweepAnnouncements, SweepReads, DropAnnouncements
  <2>9. CASE SetCount(r)
    <3>1. req[r].system \in Nat /\ req[r].published \in Nat /\ req[r].seen \in Nat
      BY <2>9 DEF SetCount, Loaded, RequestState
    <3> QED BY <2>9, <3>1 DEF SetCount, CountOf
  <2> QED BY <2>1, <2>2, <2>3, <2>4, <2>5, <2>6, <2>7, <2>8, <2>9 DEF Step
<1> QED BY <1>1, <1>2, <1>3 DEF TypeOK

\* An action keeps what its request works on, or ends it.
LEMMA StepKeepsOperation ==
    ASSUME TypeOK, NEW r \in Request, Step(r) \/ LoseDel(r) \/ Abort(r)
    PROVE  \/ req'[r] = Idle
           \/ /\ req'[r].op = req[r].op /\ req'[r].item = req[r].item
              /\ req'[r].due \subseteq req[r].due
              /\ \/ At(r, "load")
                 \/ /\ req'[r].system = req[r].system
                    /\ req'[r].published = req[r].published /\ req'[r].seen = req[r].seen
<1> USE GotoMoves, FinishReleases, DroppingMoves, StageNames DEF Moved
<1>1. CASE CreateMessage(r) \/ CreateAnnouncement(r) \/ FindAnnouncement(r) \/ Publish(r)
  BY <1>1 DEF CreateMessage, CreateAnnouncement, FindAnnouncement, Publish
<1>2. CASE Revoke(r) \/ RemoveAnnouncement(r) \/ FindItem(r)
  BY <1>2 DEF Revoke, RemoveAnnouncement, FindItem
<1>3. CASE MarkAnnouncement(r) \/ HideAnnouncement(r)
  BY <1>3 DEF MarkAnnouncement, HideAnnouncement, WriteRead
<1>4. CASE MarkMessage(r) \/ DeleteMessage(r) \/ ReadMessages(r)
  BY <1>4 DEF MarkMessage, DeleteMessage, WriteMessage, ReadMessages
<1>5. CASE FindUnread(r)
  <2>1. CASE Goto(r, "del")
    BY <2>1
  <2>2. CASE ~Goto(r, "del")
    BY <1>5, <2>2, FindUnreadCases, FoundMoves
  <2> QED BY <2>1, <2>2
<1>6. CASE CreateReads(r) \/ ScanCounts(r) \/ DelFound(r) \/ GetCount(r) \/ SetCount(r)
  BY <1>6 DEF CreateReads, ScanCounts, DelFound, GetCount, SetCount
<1>7. CASE DelCount(r) \/ LoseDel(r)
  BY <1>7 DEF DelCount, LoseDel, Invalidated
<1>8. CASE LoadPersonal(r) \/ LoadPublished(r) \/ LoadReads(r)
  <2>1. At(r, "load")
    BY <1>8 DEF LoadPersonal, LoadPublished, LoadReads, Load
  <2> QED BY <1>8, <2>1, LoadMoves, NumbersAreNatural DEF LoadPersonal, LoadPublished, LoadReads
<1>9. CASE SweepMessages(r) \/ SweepAnnouncements(r) \/ SweepReads(r) \/ Done(r) \/ Abort(r)
  BY <1>9 DEF SweepMessages, SweepAnnouncements, SweepReads, Done, Abort
<1> QED BY <1>1, <1>2, <1>3, <1>4, <1>5, <1>6, <1>7, <1>8, <1>9 DEF Step

\* So the items keep fitting.
LEMMA StepKeepsItems ==
    ASSUME TypeOK, ItemsFit, NEW r \in Request, Step(r) \/ LoseDel(r) \/ Abort(r)
    PROVE  ItemsFit'
<1>1. OthersKept(r)
  BY StepMoves DEF Steps
<1>2. Idle.op = "cleanup"
  BY DEF Idle, Arrived
<1> QED BY <1>1, <1>2, StepKeepsOperation DEF ItemsFit, OthersKept, AdminOperation

\* Read rows keep their announcements.
LEMMA StepKeepsRows ==
    ASSUME TypeOK, ItemsFit, RowsNeedAnnouncements, NEW r \in Request,
           Step(r) \/ LoseDel(r) \/ Abort(r)
    PROVE  RowsNeedAnnouncements'
<1> USE DEF TypeOK, rows, RowsNeedAnnouncements, Exists
<1>1. CASE CreateMessage(r) \/ CreateAnnouncement(r) \/ FindAnnouncement(r)
  BY <1>1 DEF CreateMessage, CreateAnnouncement, FindAnnouncement
<1>2. CASE Publish(r) \/ Revoke(r) \/ RemoveAnnouncement(r)
  <2>1. req[r].item \in Announcement
    BY <1>2 DEF ItemsFit, AdminOperation, Publish, Revoke, RemoveAnnouncement
  <2> QED BY <1>2, <2>1 DEF Publish, Revoke, RemoveAnnouncement, DropAnnouncements
<1>3. CASE MarkAnnouncement(r) \/ HideAnnouncement(r)
  BY <1>3 DEF MarkAnnouncement, HideAnnouncement, WriteRead
<1>4. CASE MarkMessage(r) \/ DeleteMessage(r) \/ ReadMessages(r) \/ FindItem(r)
  BY <1>4 DEF MarkMessage, DeleteMessage, WriteMessage, ReadMessages, FindItem
<1>5. CASE FindUnread(r) \/ CreateReads(r) \/ GetCount(r) \/ SetCount(r)
  BY <1>5 DEF FindUnread, CreateReads, GetCount, SetCount
<1>6. CASE DelCount(r) \/ LoseDel(r) \/ Done(r) \/ Abort(r) \/ ScanCounts(r) \/ DelFound(r)
  BY <1>6 DEF DelCount, LoseDel, Done, Abort, ScanCounts, DelFound
<1>7. CASE LoadPersonal(r) \/ LoadPublished(r) \/ LoadReads(r)
  BY <1>7 DEF LoadPersonal, LoadPublished, LoadReads, Load
<1>8. CASE SweepMessages(r) \/ SweepAnnouncements(r) \/ SweepReads(r)
  BY <1>8 DEF SweepMessages, SweepAnnouncements, SweepReads, DropAnnouncements
<1> QED BY <1>1, <1>2, <1>3, <1>4, <1>5, <1>6, <1>7, <1>8 DEF Step

-----------------------------------------------------------------------------
(* The numbers a fill has read.                                             *)

\* Whoever changes a number overtakes the fills that have read it.
Honest ==
    /\ PersonalUnread' = PersonalUnread \/ \A q \in Request : req[q].system # Unread => q \in late'
    /\ PublishedCount' = PublishedCount \/ \A q \in Request : req[q].published # Unread => q \in late'
    /\ ReadCount' = ReadCount \/ \A q \in Request : req[q].seen # Unread => q \in late'
    /\ \A q \in late' \ late :
          req[q].system # Unread \/ req[q].published # Unread \/ req[q].seen # Unread

\* An action that leaves the rows and the late fills alone is honest.
LEMMA SameRowsAreHonest ==
    ASSUME UNCHANGED rows, late' \subseteq late
    PROVE  Honest
BY DEF Honest, rows, PersonalUnread, PublishedCount, Published, ReadCount

\* Every action is honest, and only the end of a fill forgets that it was late.
LEMMA StepIsHonest ==
    ASSUME TypeOK, NEW r \in Request, Step(r) \/ LoseDel(r) \/ Abort(r)
    PROVE  Honest /\ late \ {r} \subseteq late'
<1>1. message' = message => PersonalUnread' = PersonalUnread
  BY DEF PersonalUnread
<1>2. status' = status => PublishedCount' = PublishedCount
  BY DEF PublishedCount, Published
<1>3. read' = read => ReadCount' = ReadCount
  BY DEF ReadCount
<1> USE DEF TypeOK
<1>4. CASE CreateMessage(r) \/ CreateAnnouncement(r)
  <2>1. CASE CreateMessage(r) /\ UNCHANGED <<message, late>>
    BY <2>1, SameRowsAreHonest DEF CreateMessage, rows
  <2>2. CASE CreateMessage(r) /\ Overtakes("system")
    BY <1>2, <1>3, <2>2 DEF CreateMessage, Overtakes, Honest
  <2>3. CASE CreateAnnouncement(r) /\ Overtakes("published")
    BY <1>1, <1>3, <2>3 DEF CreateAnnouncement, Overtakes, Honest
  <2>4. CASE CreateAnnouncement(r) /\ UNCHANGED <<status, late>>
    BY <2>4, SameRowsAreHonest DEF CreateAnnouncement, rows
  <2>5. CASE CreateAnnouncement(r) /\ ~Overtakes("published") /\ status' # status
    <3>1. /\ status' = [status EXCEPT ![req[r].item] = "draft"]
          /\ status[req[r].item] = "absent"
      BY <2>5 DEF CreateAnnouncement
    <3>2. {a \in Announcement : status'[a] = "published"}
            = {a \in Announcement : status[a] = "published"}
      BY <3>1
    <3>3. PublishedCount' = PublishedCount
      BY <3>2 DEF PublishedCount, Published
    <3>4. late' = late
      BY <2>5 DEF CreateAnnouncement
    <3> QED BY <1>1, <1>3, <2>5, <3>3, <3>4 DEF CreateAnnouncement, Honest
  <2> QED BY <1>4, <2>1, <2>2, <2>3, <2>4, <2>5 DEF CreateMessage, CreateAnnouncement
<1>5. CASE Publish(r) \/ Revoke(r)
  <2>1. CASE UNCHANGED <<status, late>>
    BY <1>5, <2>1, SameRowsAreHonest DEF Publish, Revoke, rows
  <2>2. CASE Overtakes("published")
    BY <1>1, <1>3, <1>5, <2>2 DEF Publish, Revoke, Overtakes, Honest
  <2> QED BY <1>5, <2>1, <2>2 DEF Publish, Revoke
<1>6. ASSUME NEW S, DropAnnouncements(S), message' = message
      PROVE  Honest /\ late \subseteq late'
  <2>1. CASE S = {}
    <3>1. status' = status /\ read' = read
      BY <1>6, <2>1 DEF DropAnnouncements
    <3> QED BY <1>1, <1>2, <1>3, <1>6, <2>1, <3>1 DEF DropAnnouncements, Honest
  <2>2. CASE S # {}
    BY <1>1, <1>6, <2>2 DEF DropAnnouncements, Honest
  <2> QED BY <2>1, <2>2
<1>7. CASE RemoveAnnouncement(r) \/ SweepAnnouncements(r)
  BY <1>6, <1>7, SameRowsAreHonest DEF RemoveAnnouncement, SweepAnnouncements, rows
<1>8. ASSUME NEW a \in Announcement, NEW value, WriteRead(r, a, value)
      PROVE  Honest /\ late \subseteq late'
  <2>1. CASE UNCHANGED <<read, late>>
    BY <1>1, <1>2, <1>3, <1>8, <2>1 DEF WriteRead, Honest
  <2>2. CASE read' = [read EXCEPT ![a] = value] /\ (read[a] = "read") # (value = "read")
    BY <1>1, <1>2, <1>8, <2>2 DEF WriteRead, Honest, Overtakes
  <2>3. CASE /\ read' = [read EXCEPT ![a] = value]
             /\ (read[a] = "read") = (value = "read")
    <3>1. {b \in Announcement : read'[b] = "read"} = {b \in Announcement : read[b] = "read"}
      BY <2>3
    <3>2. ReadCount' = ReadCount
      BY <3>1 DEF ReadCount
    <3>3. late' = late
      BY <1>8, <2>3 DEF WriteRead
    <3> QED BY <1>1, <1>2, <1>8, <3>2, <3>3 DEF WriteRead, Honest
  <2> QED BY <1>8, <2>1, <2>2, <2>3 DEF WriteRead
<1>9. CASE MarkAnnouncement(r) \/ HideAnnouncement(r)
  BY <1>8, <1>9 DEF MarkAnnouncement, HideAnnouncement
<1>10. ASSUME NEW m \in Message, NEW value \in {"read", "removed"}, WriteMessage(r, m, value)
       PROVE  Honest /\ late \subseteq late'
  <2>1. CASE UNCHANGED <<message, late>>
    BY <1>1, <1>2, <1>3, <1>10, <2>1 DEF WriteMessage, Honest
  <2>2. CASE message[m] = "unread" /\ late' # late
    BY <1>2, <1>3, <1>10, <2>2 DEF WriteMessage, Honest, Overtakes
  <2>3. CASE message' = [message EXCEPT ![m] = value] /\ message[m] # "unread"
    <3>1. {n \in Message : message'[n] = "unread"} = {n \in Message : message[n] = "unread"}
      BY <2>3
    <3>2. PersonalUnread' = PersonalUnread
      BY <3>1 DEF PersonalUnread
    <3> QED BY <1>2, <1>3, <1>10, <2>3, <3>2 DEF WriteMessage, Honest
  <2>4. CASE message[m] = "unread" /\ late' = late
    BY <1>1, <1>2, <1>3, <1>10, <2>4 DEF WriteMessage, Honest, Overtakes
  <2> QED BY <1>10, <2>1, <2>2, <2>3, <2>4 DEF WriteMessage
<1>11. CASE MarkMessage(r) \/ DeleteMessage(r)
  BY <1>10, <1>11 DEF MarkMessage, DeleteMessage
<1>12. CASE ReadMessages(r)
  <2>1. CASE {m \in Message : message[m] = "unread"} = {}
    <3>1. message' = message
      BY <1>12, <2>1 DEF ReadMessages
    <3> QED BY <1>1, <1>2, <1>3, <1>12, <2>1, <3>1 DEF ReadMessages, Honest
  <2>2. CASE {m \in Message : message[m] = "unread"} # {}
    BY <1>2, <1>3, <1>12, <2>2 DEF ReadMessages, Overtakes, Honest
  <2> QED BY <2>1, <2>2
<1>13. CASE CreateReads(r)
  <2>1. CASE {a \in req[r].found : read[a] = "none"} = {}
    <3>1. read' = read
      BY <1>13, <2>1 DEF CreateReads
    <3> QED BY <1>1, <1>2, <1>3, <1>13, <2>1, <3>1 DEF CreateReads, Honest
  <2>2. CASE {a \in req[r].found : read[a] = "none"} # {}
    BY <1>1, <1>2, <1>3, <1>13, <2>2 DEF CreateReads, Overtakes, Honest
  <2> QED BY <2>1, <2>2
<1>14. CASE SweepMessages(r)
  <2>1. {n \in Message : message'[n] = "unread"} = {n \in Message : message[n] = "unread"}
    BY <1>14 DEF SweepMessages
  <2>2. PersonalUnread' = PersonalUnread
    BY <2>1 DEF PersonalUnread
  <2> QED BY <1>2, <1>3, <1>14, <2>2 DEF SweepMessages, Honest
<1>15. CASE SweepReads(r)
  <2>1. {b \in Announcement : read'[b] = "read"} = {b \in Announcement : read[b] = "read"}
    BY <1>15 DEF SweepReads
  <2>2. ReadCount' = ReadCount
    BY <2>1 DEF ReadCount
  <2> QED BY <1>1, <1>2, <1>15, <2>2 DEF SweepReads, Honest
<1>16. CASE FindAnnouncement(r) \/ FindItem(r) \/ FindUnread(r) \/ GetCount(r) \/ SetCount(r)
  BY <1>16, SameRowsAreHonest DEF FindAnnouncement, FindItem, FindUnread, GetCount, SetCount
<1>17. CASE DelCount(r) \/ LoseDel(r) \/ Done(r) \/ Abort(r) \/ ScanCounts(r) \/ DelFound(r)
  BY <1>17, SameRowsAreHonest DEF DelCount, LoseDel, Done, Abort, ScanCounts, DelFound
<1>18. CASE LoadPersonal(r) \/ LoadPublished(r) \/ LoadReads(r)
  BY <1>18, SameRowsAreHonest DEF LoadPersonal, LoadPublished, LoadReads, Load
<1> QED BY <1>4, <1>5, <1>7, <1>9, <1>11, <1>12, <1>13, <1>14, <1>15, <1>16, <1>17, <1>18 DEF Step

\* What a request may do while it loads.
LEMMA OnlyTheseLoad ==
    ASSUME NEW r \in Request, At(r, "load"), Step(r)
    PROVE  SetCount(r) \/ LoadPersonal(r) \/ LoadPublished(r) \/ LoadReads(r)
<1> USE DEF At
<1>1. ~(CreateMessage(r) \/ CreateAnnouncement(r) \/ FindAnnouncement(r) \/ Publish(r)
        \/ Revoke(r) \/ RemoveAnnouncement(r) \/ FindItem(r))
  BY DEF CreateMessage, CreateAnnouncement, FindAnnouncement, Publish, Revoke,
         RemoveAnnouncement, FindItem
<1>2. ~(MarkAnnouncement(r) \/ MarkMessage(r) \/ HideAnnouncement(r) \/ DeleteMessage(r)
        \/ ReadMessages(r) \/ FindUnread(r) \/ CreateReads(r))
  BY DEF MarkAnnouncement, MarkMessage, HideAnnouncement, DeleteMessage, ReadMessages,
         FindUnread, CreateReads
<1>3. ~(DelCount(r) \/ ScanCounts(r) \/ DelFound(r) \/ GetCount(r) \/ SweepMessages(r)
        \/ SweepAnnouncements(r) \/ SweepReads(r) \/ Done(r))
  BY DEF DelCount, ScanCounts, DelFound, GetCount, SweepMessages, SweepAnnouncements,
         SweepReads, Done
<1> QED BY <1>1, <1>2, <1>3 DEF Step

\* Only a fill holds numbers, and what it has read on time is still right.
LEMMA StepKeepsFills ==
    ASSUME TypeOK, FillsAreCurrent, OnlyFillsLoad, NEW r \in Request,
           Step(r) \/ LoseDel(r) \/ Abort(r)
    PROVE  FillsAreCurrent' /\ OnlyFillsLoad'
<1>1. OthersKept(r) /\ Honest /\ late \ {r} \subseteq late'
  BY StepMoves, StepIsHonest DEF Steps
<1>2. ASSUME NEW q \in Request \ {r}
      PROVE  /\ q \notin late' =>
                  /\ req'[q].system \in {Unread, PersonalUnread'}
                  /\ req'[q].published \in {Unread, PublishedCount'}
                  /\ req'[q].seen \in {Unread, ReadCount'}
             /\ req'[q].stage # "load" =>
                  /\ q \notin late'
                  /\ req'[q].system = Unread /\ req'[q].published = Unread
                  /\ req'[q].seen = Unread
  <2>1. /\ req'[q].stage = req[q].stage /\ req'[q].system = req[q].system
        /\ req'[q].published = req[q].published /\ req'[q].seen = req[q].seen
    BY <1>1 DEF OthersKept
  <2>2. q \notin late' =>
          /\ req[q].system \in {Unread, PersonalUnread'}
          /\ req[q].published \in {Unread, PublishedCount'}
          /\ req[q].seen \in {Unread, ReadCount'}
    BY <1>1 DEF Honest, FillsAreCurrent
  <2>3. req[q].stage # "load" =>
          /\ q \notin late'
          /\ req[q].system = Unread /\ req[q].published = Unread /\ req[q].seen = Unread
    BY <1>1 DEF Honest, OnlyFillsLoad, At
  <2> QED BY <2>1, <2>2, <2>3
<1>3. /\ r \notin late' =>
            /\ req'[r].system \in {Unread, PersonalUnread'}
            /\ req'[r].published \in {Unread, PublishedCount'}
            /\ req'[r].seen \in {Unread, ReadCount'}
      /\ req'[r].stage # "load" =>
            /\ r \notin late'
            /\ req'[r].system = Unread /\ req'[r].published = Unread
            /\ req'[r].seen = Unread
  <2>1. Idle.system = Unread /\ Idle.published = Unread /\ Idle.seen = Unread
    BY DEF Idle, Arrived
  <2>2. CASE ~At(r, "load")
    <3>1. r \notin late /\ req[r].system = Unread /\ req[r].published = Unread
          /\ req[r].seen = Unread
      BY <2>2 DEF OnlyFillsLoad
    <3>2. req'[r].system = Unread /\ req'[r].published = Unread /\ req'[r].seen = Unread
      BY <2>1, <2>2, <3>1, StepKeepsOperation
    <3>3. r \notin late'
      BY <1>1, <3>1 DEF Honest
    <3> QED BY <3>2, <3>3
  <2>3. CASE SetCount(r) \/ Abort(r)
    <3>1. req'[r] = Idle /\ r \notin late'
      BY <2>3, FinishReleases DEF SetCount, Abort
    <3> QED BY <2>1, <3>1
  <2>4. ASSUME NEW number \in {"system", "published", "seen"}, NEW value,
               Load(r, number, value), value \in Nat,
               value = CASE number = "system" -> PersonalUnread
                         [] number = "published" -> PublishedCount
                         [] number = "seen" -> ReadCount
        PROVE  /\ r \notin late' =>
                    /\ req'[r].system \in {Unread, PersonalUnread'}
                    /\ req'[r].published \in {Unread, PublishedCount'}
                    /\ req'[r].seen \in {Unread, ReadCount'}
               /\ req'[r].stage = "load"
    <3>1. UNCHANGED rows /\ late' = late
      BY <2>4 DEF Load
    <3>2. PersonalUnread' = PersonalUnread /\ PublishedCount' = PublishedCount
          /\ ReadCount' = ReadCount
      BY <3>1 DEF rows, PersonalUnread, PublishedCount, Published, ReadCount
    <3>3. r \notin late =>
            /\ req[r].system \in {Unread, PersonalUnread}
            /\ req[r].published \in {Unread, PublishedCount}
            /\ req[r].seen \in {Unread, ReadCount}
      BY DEF FillsAreCurrent
    <3> QED BY <2>4, <3>1, <3>2, <3>3, LoadMoves
  <2>5. CASE At(r, "load")
    <3>1. Step(r) => SetCount(r) \/ LoadPersonal(r) \/ LoadPublished(r) \/ LoadReads(r)
      BY <2>5, OnlyTheseLoad
    <3>2. ~LoseDel(r)
      BY <2>5 DEF LoseDel, At
    <3> QED BY <2>3, <2>4, <2>5, <3>1, <3>2, NumbersAreNatural
            DEF LoadPersonal, LoadPublished, LoadReads
  <2> QED BY <2>2, <2>5
<1> QED BY <1>2, <1>3 DEF FillsAreCurrent, OnlyFillsLoad, At

-----------------------------------------------------------------------------
(* The cached count.                                                        *)

\* Nothing that matters for the count has changed.
LEMMA SameCountIsCurrent ==
    ASSUME CountIsCurrent, NEW r \in Request, OthersKept(r),
           cache' = cache, ~stale' => ~stale, UnreadCount' = UnreadCount,
           req[r].stage \in Invalidating => req'[r].stage \in Invalidating
    PROVE  CountIsCurrent'
BY DEF CountIsCurrent, OthersKept

\* The count follows from the rows.
LEMMA SameRowsCountTheSame ==
    ASSUME UNCHANGED rows
    PROVE  UnreadCount' = UnreadCount
BY DEF rows, UnreadCount, PersonalUnread, PublishedCount, Published, ReadCount

\* A request that is invalidating excuses the cached count.
LEMMA InvalidatingExcuses ==
    ASSUME NEW r \in Request, req'[r].stage \in Invalidating
    PROVE  CountIsCurrent'
BY DEF CountIsCurrent

\* Every action keeps the cached count current, or excuses it.
LEMMA StepKeepsCount ==
    ASSUME TypeOK, FillsAreCurrent, CountIsCurrent, NEW r \in Request,
           Step(r) \/ LoseDel(r) \/ Abort(r)
    PROVE  CountIsCurrent'
<1>1. OthersKept(r)
  BY StepMoves DEF Steps
<1>2. {"findUnread", "createReads", "del", "scan", "delFound"} \subseteq Invalidating
  BY DEF Invalidating
<1>3. ASSUME NEW stage \in Invalidating, Goto(r, stage)
      PROVE  CountIsCurrent'
  <2>1. stage \in Stage
    BY DEF Stage
  <2> QED BY <1>3, <2>1, GotoMoves, InvalidatingExcuses DEF Moved
<1>4. ASSUME UNCHANGED rows, cache' = cache, stale' = stale, req[r].stage \notin Invalidating
      PROVE  CountIsCurrent'
  BY <1>1, <1>4, SameRowsCountTheSame, SameCountIsCurrent
<1>5. ASSUME cache' = None \/ stale'
      PROVE  CountIsCurrent'
  BY <1>5 DEF CountIsCurrent
<1>6. \A stage \in {"create", "find", "write", "get", "load", "done", "sweepMessages",
                   "sweepAnnouncements", "sweepReads"} : stage \notin Invalidating
  BY DEF Invalidating
<1>7. CASE CreateMessage(r)
  BY <1>2, <1>3, <1>4, <1>6, <1>7 DEF CreateMessage, At, rows
<1>8. CASE CreateAnnouncement(r)
  <2>1. CASE Goto(r, "scan")
    BY <1>2, <1>3, <2>1
  <2>2. CASE UNCHANGED <<status, late>>
    BY <1>4, <1>6, <1>8, <2>2 DEF CreateAnnouncement, At, rows
  <2>3. CASE ~Goto(r, "scan") /\ status' # status
    <3>1. /\ status' = [status EXCEPT ![req[r].item] = "draft"]
          /\ status[req[r].item] = "absent" /\ Finish(r)
          /\ UNCHANGED <<read, message, cache, stale, settled, late>>
          /\ req[r].stage = "create"
      BY <1>8, <2>3 DEF CreateAnnouncement, At
    <3>2. {a \in Announcement : status'[a] = "published"}
            = {a \in Announcement : status[a] = "published"}
      BY <3>1 DEF TypeOK
    <3>3. UnreadCount' = UnreadCount
      BY <3>1, <3>2 DEF UnreadCount, PersonalUnread, PublishedCount, Published, ReadCount
    <3> QED BY <1>1, <1>6, <3>1, <3>3, SameCountIsCurrent
  <2> QED BY <1>8, <2>1, <2>2, <2>3 DEF CreateAnnouncement
<1>9. CASE FindAnnouncement(r) \/ FindItem(r)
  BY <1>4, <1>6, <1>9 DEF FindAnnouncement, FindItem, At
<1>10. CASE Publish(r)
  BY <1>2, <1>3, <1>4, <1>6, <1>10 DEF Publish, At, rows
<1>11. ASSUME NEW S, GotoDropping(r, "scan", S)
       PROVE  CountIsCurrent'
  BY <1>2, <1>11, StageNames, DroppingMoves, InvalidatingExcuses DEF Moved
<1>12. CASE Revoke(r) \/ RemoveAnnouncement(r)
  BY <1>4, <1>6, <1>11, <1>12 DEF Revoke, RemoveAnnouncement, At, rows
<1>13. CASE MarkAnnouncement(r) \/ HideAnnouncement(r)
  BY <1>2, <1>3, <1>4, <1>6, <1>13 DEF MarkAnnouncement, HideAnnouncement, WriteRead, At, rows
<1>14. CASE MarkMessage(r) \/ DeleteMessage(r)
  BY <1>2, <1>3, <1>4, <1>6, <1>14 DEF MarkMessage, DeleteMessage, WriteMessage, At, rows
<1>15. CASE ReadMessages(r)
  BY <1>2, <1>3, <1>15 DEF ReadMessages
<1>16. CASE FindUnread(r)
  <2>1. CASE Goto(r, "del")
    BY <1>2, <1>3, <2>1
  <2>2. CASE ~Goto(r, "del")
    <3>1. req'[r].stage = "createReads"
      BY <1>16, <2>2, FindUnreadCases, FoundMoves
    <3> QED BY <1>2, <3>1, InvalidatingExcuses
  <2> QED BY <2>1, <2>2
<1>17. CASE CreateReads(r)
  BY <1>2, <1>3, <1>5, <1>17 DEF CreateReads
<1>18. CASE DelCount(r) \/ DelFound(r) \/ LoseDel(r)
  BY <1>5, <1>18 DEF DelCount, DelFound, LoseDel
<1>19. CASE ScanCounts(r)
  BY <1>2, <1>3, <1>5, <1>19 DEF ScanCounts
<1>20. CASE GetCount(r) \/ Done(r)
  BY <1>4, <1>6, <1>20 DEF GetCount, Done, At
<1>21. CASE LoadPersonal(r) \/ LoadPublished(r) \/ LoadReads(r)
  BY <1>4, <1>6, <1>21 DEF LoadPersonal, LoadPublished, LoadReads, Load, At
<1>22. CASE SetCount(r)
  <2>1. CASE r \in late
    BY <1>5, <1>22, <2>1 DEF SetCount
  <2>2. CASE r \notin late
    <3>1. cache' = UnreadCount
      BY <1>22, <2>2 DEF SetCount, FillsAreCurrent, Loaded, UnreadCount
    <3>2. UnreadCount' = UnreadCount
      BY <1>22, SameRowsCountTheSame DEF SetCount
    <3> QED BY <3>1, <3>2 DEF CountIsCurrent
  <2> QED BY <2>1, <2>2
<1>23. CASE Abort(r)
  <2>1. CASE cache = None \/ req[r].stage \in Invalidating
    BY <1>5, <1>23, <2>1 DEF Abort
  <2>2. CASE ~(cache = None \/ req[r].stage \in Invalidating)
    <3>1. stale' = stale
      BY <1>23, <2>2 DEF Abort, TypeOK
    <3> QED BY <1>4, <1>23, <2>2, <3>1 DEF Abort
  <2> QED BY <2>1, <2>2
<1>24. CASE SweepMessages(r)
  <2>1. {n \in Message : message'[n] = "unread"} = {n \in Message : message[n] = "unread"}
    BY <1>24 DEF SweepMessages
  <2>2. UnreadCount' = UnreadCount
    BY <1>24, <2>1
    DEF SweepMessages, UnreadCount, PersonalUnread, PublishedCount, Published, ReadCount
  <2> QED BY <1>1, <1>6, <1>24, <2>2, SameCountIsCurrent DEF SweepMessages, At
<1>25. CASE SweepAnnouncements(r)
  <2>1. PICK S : /\ DropAnnouncements(S) /\ message' = message /\ cache' = cache
                 /\ stale' = (stale \/ (cache # None /\ S # {}))
    BY <1>25 DEF SweepAnnouncements
  <2>2. CASE cache = None \/ S # {}
    BY <1>5, <2>1, <2>2
  <2>3. CASE cache # None /\ S = {}
    <3>1. status' = status /\ read' = read
      BY <2>1, <2>3 DEF DropAnnouncements, TypeOK
    <3>2. stale' = stale
      BY <2>1, <2>3 DEF TypeOK
    <3> QED BY <1>4, <1>6, <1>25, <2>1, <3>1, <3>2 DEF SweepAnnouncements, At, rows
  <2> QED BY <2>2, <2>3
<1>26. CASE SweepReads(r)
  <2>1. {b \in Announcement : read'[b] = "read"} = {b \in Announcement : read[b] = "read"}
    BY <1>26 DEF SweepReads
  <2>2. UnreadCount' = UnreadCount
    BY <1>26, <2>1
    DEF SweepReads, UnreadCount, PersonalUnread, PublishedCount, Published, ReadCount
  <2> QED BY <1>1, <1>6, <1>26, <2>2, SameCountIsCurrent DEF SweepReads, At
<1>27. CASE Publish(r) \/ Revoke(r) \/ RemoveAnnouncement(r) \/ CreateMessage(r)
            \/ CreateAnnouncement(r) \/ FindAnnouncement(r) \/ FindItem(r)
  BY <1>7, <1>8, <1>9, <1>10, <1>12, <1>27
<1> QED BY <1>13, <1>14, <1>15, <1>16, <1>17, <1>18, <1>19, <1>20, <1>21, <1>22, <1>23,
           <1>24, <1>25, <1>26, <1>27 DEF Step

-----------------------------------------------------------------------------
(* Revocations.                                                             *)

\* Nobody but FindAnnouncement brings a publication to its update.
LEMMA OnlyFindPublishes ==
    ASSUME TypeOK, NEW r \in Request, Step(r) \/ LoseDel(r) \/ Abort(r),
           req'[r].stage = "write", req'[r].op = "publishAnnouncement"
    PROVE  FindAnnouncement(r) /\ Allowed("publishAnnouncement", status[req'[r].item])
<1>1. Idle.stage # "write"
  BY DEF Idle, Arrived, NoRequest
<1>2. ASSUME NEW stage \in Stage, Goto(r, stage)
      PROVE  stage = "write" /\ req[r].op = "publishAnnouncement" /\ req'[r].item = req[r].item
  BY <1>2, GotoMoves DEF Moved
<1>3. ASSUME NEW stage \in Stage, NEW S, GotoDropping(r, stage, S)
      PROVE  stage = "write"
  BY <1>3, DroppingMoves DEF Moved
<1> USE <1>1, FinishReleases, StageNames
<1>4. ~(CreateMessage(r) \/ CreateAnnouncement(r) \/ Publish(r))
  BY <1>2 DEF CreateMessage, CreateAnnouncement, Publish
<1>5. ~(Revoke(r) \/ RemoveAnnouncement(r) \/ FindItem(r))
  BY <1>2, <1>3 DEF Revoke, RemoveAnnouncement, FindItem, UserOperation
<1>6. ~(MarkAnnouncement(r) \/ HideAnnouncement(r))
  BY <1>2 DEF MarkAnnouncement, HideAnnouncement, WriteRead
<1>7. ~(MarkMessage(r) \/ DeleteMessage(r) \/ ReadMessages(r))
  BY <1>2 DEF MarkMessage, DeleteMessage, WriteMessage, ReadMessages
<1>8. ~FindUnread(r)
  <2>1. ~Goto(r, "del")
    BY <1>2
  <2> QED BY <2>1, FindUnreadCases, FoundMoves
<1>9. ~(CreateReads(r) \/ ScanCounts(r) \/ DelFound(r) \/ GetCount(r) \/ SetCount(r))
  BY <1>2 DEF CreateReads, ScanCounts, DelFound, GetCount, SetCount
<1>10. ~(DelCount(r) \/ LoseDel(r))
  BY <1>2 DEF DelCount, LoseDel, Invalidated
<1>11. ~(LoadPersonal(r) \/ LoadPublished(r) \/ LoadReads(r))
  BY LoadMoves, NumbersAreNatural DEF LoadPersonal, LoadPublished, LoadReads
<1>12. ~(SweepMessages(r) \/ SweepAnnouncements(r) \/ SweepReads(r) \/ Done(r) \/ Abort(r))
  BY <1>2, <1>3 DEF SweepMessages, SweepAnnouncements, SweepReads, Done, Abort
<1>13. FindAnnouncement(r)
  BY <1>4, <1>5, <1>6, <1>7, <1>8, <1>9, <1>10, <1>11, <1>12 DEF Step
<1> QED BY <1>2, <1>13 DEF FindAnnouncement

\* What is settled grows by a revocation that returns, and nothing else.
LEMMA StepSettles ==
    ASSUME TypeOK, ItemsFit, NEW r \in Request, Step(r) \/ LoseDel(r) \/ Abort(r)
    PROVE  \/ settled' = settled
           \/ /\ settled' = settled \union Settles(r)
              /\ UNCHANGED status /\ req'[r] = Idle
<1>1. CASE CreateMessage(r) \/ CreateAnnouncement(r) \/ FindAnnouncement(r) \/ Publish(r)
  BY <1>1 DEF CreateMessage, CreateAnnouncement, FindAnnouncement, Publish
<1>2. CASE Revoke(r) \/ RemoveAnnouncement(r) \/ FindItem(r)
  BY <1>2 DEF Revoke, RemoveAnnouncement, FindItem
<1>3. CASE MarkAnnouncement(r) \/ HideAnnouncement(r)
  BY <1>3 DEF MarkAnnouncement, HideAnnouncement, WriteRead
<1>4. CASE MarkMessage(r) \/ DeleteMessage(r) \/ ReadMessages(r)
  BY <1>4 DEF MarkMessage, DeleteMessage, WriteMessage, ReadMessages
<1>5. CASE FindUnread(r) \/ CreateReads(r) \/ GetCount(r) \/ SetCount(r)
  BY <1>5 DEF FindUnread, CreateReads, GetCount, SetCount
<1>6. CASE DelCount(r) \/ LoseDel(r) \/ Done(r) \/ Abort(r)
  BY <1>6 DEF DelCount, LoseDel, Done, Abort
<1>7. CASE LoadPersonal(r) \/ LoadPublished(r) \/ LoadReads(r)
  BY <1>7 DEF LoadPersonal, LoadPublished, LoadReads, Load
<1>8. CASE SweepMessages(r) \/ SweepAnnouncements(r) \/ SweepReads(r)
  BY <1>8 DEF SweepMessages, SweepAnnouncements, SweepReads
<1>9. CASE ScanCounts(r) \/ DelFound(r)
  BY <1>9, FinishReleases DEF ScanCounts, DelFound, rows
<1> QED BY <1>1, <1>2, <1>3, <1>4, <1>5, <1>6, <1>7, <1>8, <1>9 DEF Step

\* How a step may change an announcement: nothing comes back from a deletion,
\* and only a request that found a draft publishes a row that was there.
LEMMA StepChangesStatus ==
    ASSUME TypeOK, ItemsFit, NEW r \in Request, Step(r) \/ LoseDel(r) \/ Abort(r),
           NEW a \in Announcement
    PROVE  \/ status'[a] = status[a]
           \/ status[a] = "absent"
           \/ status'[a] = "removed"
           \/ status'[a] = "revoked" /\ status[a] # "removed"
           \/ Publish(r) /\ req[r].item = a /\ status'[a] = "published" /\ status[a] # "removed"
<1> USE DEF TypeOK, rows, Exists
<1>1. CASE CreateMessage(r) \/ CreateAnnouncement(r) \/ FindAnnouncement(r)
  BY <1>1 DEF CreateMessage, CreateAnnouncement, FindAnnouncement
<1>2. CASE Publish(r) \/ Revoke(r) \/ RemoveAnnouncement(r)
  <2>1. req[r].item \in Announcement
    BY <1>2 DEF ItemsFit, AdminOperation, Publish, Revoke, RemoveAnnouncement
  <2>2. CASE Publish(r)
    BY <2>1, <2>2 DEF Publish
  <2>3. CASE Revoke(r)
    BY <2>1, <2>3 DEF Revoke
  <2>4. CASE RemoveAnnouncement(r)
    BY <2>1, <2>4 DEF RemoveAnnouncement, DropAnnouncements
  <2> QED BY <1>2, <2>2, <2>3, <2>4
<1>3. CASE MarkAnnouncement(r) \/ HideAnnouncement(r)
  BY <1>3 DEF MarkAnnouncement, HideAnnouncement, WriteRead
<1>4. CASE MarkMessage(r) \/ DeleteMessage(r) \/ ReadMessages(r) \/ FindItem(r)
  BY <1>4 DEF MarkMessage, DeleteMessage, WriteMessage, ReadMessages, FindItem
<1>5. CASE FindUnread(r) \/ CreateReads(r) \/ GetCount(r) \/ SetCount(r)
  BY <1>5 DEF FindUnread, CreateReads, GetCount, SetCount
<1>6. CASE DelCount(r) \/ LoseDel(r) \/ Done(r) \/ Abort(r) \/ ScanCounts(r) \/ DelFound(r)
  BY <1>6 DEF DelCount, LoseDel, Done, Abort, ScanCounts, DelFound
<1>7. CASE LoadPersonal(r) \/ LoadPublished(r) \/ LoadReads(r)
  BY <1>7 DEF LoadPersonal, LoadPublished, LoadReads, Load
<1>8. CASE SweepMessages(r) \/ SweepAnnouncements(r) \/ SweepReads(r)
  BY <1>8 DEF SweepMessages, SweepAnnouncements, SweepReads, DropAnnouncements
<1> QED BY <1>1, <1>2, <1>3, <1>4, <1>5, <1>6, <1>7, <1>8 DEF Step

\* A settled revocation stays, because no publication is past its check.
LEMMA StepKeepsRevocations ==
    ASSUME TypeOK, ItemsFit, PublishersAreEarly, StaysRevoked, NEW r \in Request,
           Step(r) \/ LoseDel(r) \/ Abort(r)
    PROVE  PublishersAreEarly' /\ StaysRevoked'
<1>1. \A a \in settled : status'[a] \in {"revoked", "removed"}
  <2> SUFFICES ASSUME NEW a \in settled
               PROVE  status'[a] \in {"revoked", "removed"}
    OBVIOUS
  <2>1. a \in Announcement /\ status[a] \in {"revoked", "removed"}
    BY DEF TypeOK, StaysRevoked
  <2>2. ~(Publish(r) /\ req[r].item = a)
    BY DEF Publish, PublishersAreEarly
  <2> QED BY <2>1, <2>2, StepChangesStatus
<1>2. StaysRevoked'
  <2>1. CASE settled' = settled
    BY <1>1, <2>1 DEF StaysRevoked
  <2>2. CASE settled' = settled \union Settles(r) /\ UNCHANGED status
    BY <1>1, <2>2 DEF StaysRevoked, Settles
  <2> QED BY <2>1, <2>2, StepSettles
<1>3. ASSUME NEW q \in Request, req'[q].stage = "write", req'[q].op = "publishAnnouncement"
      PROVE  req'[q].item \notin settled'
  <2>1. OthersKept(r)
    BY StepMoves DEF Steps
  <2>2. CASE q = r
    <3>1. status[req'[r].item] = "draft"
      BY <1>3, <2>2, OnlyFindPublishes DEF Allowed
    <3>2. settled' = settled
      BY <1>3, <2>2, OnlyFindPublishes DEF FindAnnouncement
    <3> QED BY <2>2, <3>1, <3>2 DEF StaysRevoked
  <2>3. CASE q # r
    <3>1. req[q].stage = "write" /\ req[q].op = "publishAnnouncement"
          /\ req'[q].item = req[q].item
      BY <1>3, <2>1, <2>3 DEF OthersKept
    <3>2. req[q].item \notin settled
      BY <3>1 DEF PublishersAreEarly, At
    <3>3. req[q].item \notin Settles(r)
      BY <3>1 DEF Settles
    <3> QED BY <3>1, <3>2, <3>3, StepSettles
  <2> QED BY <2>2, <2>3
<1> QED BY <1>2, <1>3 DEF PublishersAreEarly, At

-----------------------------------------------------------------------------
(* What markAllAsRead owes.                                                 *)

\* What the invariant says of one request and what it owes.
Owed(q) ==
    req[q].op = "markAllAsRead" =>
        /\ \A a \in req[q].due : status[a] = "published"
        /\ req[q].stage = "createReads" =>
              \A a \in req[q].due : a \in req[q].found \/ read[a] # "none"
        /\ req[q].stage = "del" => \A a \in req[q].due : read[a] # "none"

\* OwedAreFound and AllAreRead, request by request.
LEMMA OwedByRequest ==
    (OwedAreFound /\ AllAreRead) <=> \A q \in Request : Owed(q)
BY DEF OwedAreFound, AllAreRead, Owed, At

\* An announcement somebody owes stays published, and read if it was.
Served(q) ==
    \A a \in req'[q].due :
        /\ status[a] = "published" => status'[a] = "published"
        /\ read[a] # "none" => read'[a] # "none"

\* No action takes an announcement away without excusing everybody.
LEMMA StepServes ==
    ASSUME TypeOK, ItemsFit, NEW r \in Request, Step(r) \/ LoseDel(r) \/ Abort(r),
           NEW q \in Request
    PROVE  Served(q)
<1>1. req'[q].due \subseteq Announcement
  BY StepMoves DEF Steps, RequestState
<1>2. CASE UNCHANGED <<status, read>>
  BY <1>2 DEF Served
<1>3. ASSUME NEW S, NEW stage \in Stage, GotoDropping(r, stage, S),
             \A a \in Announcement \ S : status'[a] = status[a] /\ read'[a] = read[a]
      PROVE  Served(q)
  <2>1. req'[q].due = req[q].due \ S
    BY <1>3, DroppingMoves
  <2> QED BY <1>1, <1>3, <2>1 DEF Served
<1> USE StageNames DEF TypeOK, Exists
<1>4. CASE CreateAnnouncement(r) \/ Publish(r)
  BY <1>1, <1>4 DEF CreateAnnouncement, Publish, Served
<1>5. CASE Revoke(r) \/ RemoveAnnouncement(r)
  <2>1. CASE UNCHANGED status
    BY <1>2, <1>5, <2>1 DEF Revoke, RemoveAnnouncement, DropAnnouncements
  <2>2. CASE GotoDropping(r, "scan", {req[r].item})
    BY <1>3, <1>5, <2>2 DEF Revoke, RemoveAnnouncement, DropAnnouncements
  <2> QED BY <1>2, <1>5, <2>1, <2>2 DEF Revoke, RemoveAnnouncement
<1>6. CASE MarkAnnouncement(r)
  BY <1>1, <1>6 DEF MarkAnnouncement, WriteRead, Served
<1>7. CASE HideAnnouncement(r)
  BY <1>1, <1>7 DEF HideAnnouncement, WriteRead, Served
<1>8. CASE CreateReads(r)
  BY <1>1, <1>8 DEF CreateReads, Served
<1>9. CASE SweepAnnouncements(r)
  BY <1>3, <1>9 DEF SweepAnnouncements, DropAnnouncements
<1>10. CASE SweepReads(r)
  BY <1>3, <1>10 DEF SweepReads
<1>11. CASE CreateMessage(r) \/ FindAnnouncement(r) \/ FindItem(r)
            \/ MarkMessage(r) \/ DeleteMessage(r) \/ ReadMessages(r) \/ SweepMessages(r)
  BY <1>2, <1>11 DEF CreateMessage, FindAnnouncement, FindItem, MarkMessage, DeleteMessage,
                     WriteMessage, ReadMessages, SweepMessages, rows
<1>12. CASE FindUnread(r) \/ DelCount(r) \/ LoseDel(r) \/ ScanCounts(r) \/ DelFound(r)
            \/ GetCount(r) \/ SetCount(r) \/ Done(r) \/ Abort(r)
  BY <1>2, <1>12 DEF FindUnread, DelCount, LoseDel, ScanCounts, DelFound, GetCount, SetCount,
                     Done, Abort, rows
<1>13. CASE LoadPersonal(r) \/ LoadPublished(r) \/ LoadReads(r)
  BY <1>2, <1>13 DEF LoadPersonal, LoadPublished, LoadReads, Load, rows
<1> QED BY <1>4, <1>5, <1>6, <1>7, <1>8, <1>9, <1>10, <1>11, <1>12, <1>13 DEF Step

\* A request that marks everything reaches its last two stages with what it
\* owes found or read.
LEMMA MarkingAdvances ==
    ASSUME TypeOK, NEW r \in Request, Step(r) \/ LoseDel(r) \/ Abort(r),
           req'[r].op = "markAllAsRead", req'[r].stage \in {"createReads", "del"},
           \A a \in req[r].due : status[a] = "published",
           Owed(r)
    PROVE  /\ req'[r].stage = "createReads" =>
                 \A a \in req'[r].due : a \in req'[r].found \/ read'[a] # "none"
           /\ req'[r].stage = "del" => \A a \in req'[r].due : read'[a] # "none"
<1>1. req[r].due \subseteq Announcement /\ req[r].found \subseteq Announcement
  BY DEF TypeOK, RequestState
<1>2. Idle.stage \notin {"createReads", "del"}
  BY DEF Idle, Arrived, NoRequest
<1>3. ASSUME NEW stage \in Stage, Goto(r, stage)
      PROVE  /\ stage \in {"createReads", "del"} /\ req[r].op = "markAllAsRead"
             /\ req'[r].due = req[r].due /\ req'[r].found = req[r].found
             /\ req'[r].stage = stage
  BY <1>3, GotoMoves DEF Moved
<1>4. ASSUME NEW stage \in Stage, NEW S, GotoDropping(r, stage, S)
      PROVE  stage \in {"createReads", "del"}
  BY <1>4, DroppingMoves DEF Moved
<1> USE <1>2, FinishReleases, StageNames
<1>5. ~(CreateMessage(r) \/ CreateAnnouncement(r) \/ FindAnnouncement(r) \/ Publish(r))
  BY <1>3 DEF CreateMessage, CreateAnnouncement, FindAnnouncement, Publish
<1>6. ~(Revoke(r) \/ RemoveAnnouncement(r) \/ FindItem(r))
  BY <1>3, <1>4 DEF Revoke, RemoveAnnouncement, FindItem
<1>7. ~(MarkAnnouncement(r) \/ HideAnnouncement(r))
  BY <1>3 DEF MarkAnnouncement, HideAnnouncement, WriteRead
<1>8. ~(MarkMessage(r) \/ DeleteMessage(r) \/ ReadMessages(r))
  BY <1>3 DEF MarkMessage, DeleteMessage, WriteMessage, ReadMessages
<1>9. ~(ScanCounts(r) \/ DelFound(r) \/ GetCount(r) \/ SetCount(r))
  BY <1>3 DEF ScanCounts, DelFound, GetCount, SetCount
<1>10. ~(DelCount(r) \/ LoseDel(r))
  BY <1>3 DEF DelCount, LoseDel, Invalidated
<1>11. ~(LoadPersonal(r) \/ LoadPublished(r) \/ LoadReads(r))
  BY LoadMoves, NumbersAreNatural DEF LoadPersonal, LoadPublished, LoadReads
<1>12. ~(SweepMessages(r) \/ SweepAnnouncements(r) \/ SweepReads(r) \/ Done(r) \/ Abort(r))
  BY <1>3, <1>4 DEF SweepMessages, SweepAnnouncements, SweepReads, Done, Abort
<1>13. CASE FindUnread(r)
  <2>1. \A a \in req[r].due : a \in {b \in Published : read[b] = "none"} \/ read'[a] # "none"
    BY <1>1, <1>13 DEF FindUnread, Published, rows
  <2>2. CASE Goto(r, "del")
    <3>1. {b \in Published : read[b] = "none"} = {}
      BY <1>3, <1>13, <2>2, FindUnreadCases, FoundMoves
    <3> QED BY <1>3, <2>1, <2>2, <3>1
  <2>3. CASE ~Goto(r, "del")
    BY <1>13, <2>1, <2>3, FindUnreadCases, FoundMoves
  <2> QED BY <2>2, <2>3
<1>14. CASE CreateReads(r)
  <2>1. ~Finish(r)
    OBVIOUS
  <2>2. /\ Goto(r, "del") /\ req[r].stage = "createReads"
        /\ read' = [a \in Announcement |->
                       IF a \in req[r].found /\ read[a] = "none" THEN "read" ELSE read[a]]
    BY <1>14, <2>1 DEF CreateReads, At
  <2>3. \A a \in req[r].due : a \in req[r].found \/ read[a] # "none"
    BY <1>3, <2>2 DEF Owed
  <2>4. \A a \in req[r].due : read'[a] # "none"
    BY <1>1, <2>2, <2>3
  <2> QED BY <1>3, <2>2, <2>4
<1> QED BY <1>5, <1>6, <1>7, <1>8, <1>9, <1>10, <1>11, <1>12, <1>13, <1>14 DEF Step

\* So nothing that is owed is missed.
LEMMA StepKeepsOwed ==
    ASSUME TypeOK, ItemsFit, OwedAreFound, AllAreRead, NEW r \in Request,
           Step(r) \/ LoseDel(r) \/ Abort(r)
    PROVE  OwedAreFound' /\ AllAreRead'
<1>1. \A q \in Request : Owed(q)
  BY OwedByRequest
<1>2. ASSUME NEW q \in Request \ {r}
      PROVE  Owed(q)'
  <2>1. Served(q)
    BY StepServes
  <2>2. /\ req'[q].op = req[q].op /\ req'[q].stage = req[q].stage
        /\ req'[q].found = req[q].found /\ req'[q].due \subseteq req[q].due
    BY StepMoves DEF Steps, OthersKept
  <2> QED BY <1>1, <2>1, <2>2 DEF Served, Owed
<1>3. Owed(r)'
  <2> SUFFICES ASSUME req'[r].op = "markAllAsRead"
               PROVE  Owed(r)'
    BY DEF Owed
  <2>1. req[r].op = "markAllAsRead" /\ req'[r].due \subseteq req[r].due
    <3>1. req'[r] # Idle
      BY DEF Idle, Arrived
    <3> QED BY <3>1, StepKeepsOperation
  <2>2. \A a \in req[r].due : status[a] = "published"
    BY <1>1, <2>1 DEF Owed
  <2>3. \A a \in req'[r].due : status'[a] = "published"
    BY <2>1, <2>2, StepServes DEF Served
  <2>4. CASE req'[r].stage \in {"createReads", "del"}
    BY <1>1, <2>2, <2>3, <2>4, MarkingAdvances DEF Owed
  <2>5. CASE req'[r].stage \notin {"createReads", "del"}
    BY <2>3, <2>5 DEF Owed
  <2> QED BY <2>4, <2>5
<1>4. \A q \in Request : Owed(q)'
  BY <1>2, <1>3
<1>5. (OwedAreFound /\ AllAreRead)' <=> \A q \in Request : Owed(q)'
  BY DEF OwedAreFound, AllAreRead, Owed, At
<1> QED BY <1>4, <1>5

-----------------------------------------------------------------------------
(* The invariant.                                                           *)

\* A request that arrives disturbs nothing.
LEMMA ArriveKeeps ==
    ASSUME NotificationInv, NEW r \in Request, Arrive(r)
    PROVE  NotificationInv'
<1> USE DEF NotificationInv
<1>1. TypeOK' /\ OthersKept(r) /\ UNCHANGED <<status, read, message, cache, late, stale, settled>>
  BY ArriveTyped DEF Steps, rows
<1> DEFINE Fits(op, stage, item, owed) ==
        /\ req'[r] = Arrived(op, stage, item, owed)
        /\ At(r, NoRequest) /\ stage \notin {"write", "load", "createReads", "del"}
        /\ op \in AdminOperation =>
              item \in IF op = "sendNotification" THEN Message ELSE Announcement
        /\ op = "markAllAsRead" => owed = Published
<1>2. \E op \in Operation, stage \in Stage, item \in Item \union {None},
         owed \in SUBSET Announcement : Fits(op, stage, item, owed)
  <2>1. ASSUME NEW op \in Operation, NEW stage \in Stage, NEW item \in Item \union {None},
               NEW owed \in SUBSET Announcement, Begin(r, op, stage, item, owed),
               stage \notin {"write", "load", "createReads", "del"},
               op \in AdminOperation =>
                  item \in IF op = "sendNotification" THEN Message ELSE Announcement,
               op = "markAllAsRead" => owed = Published
        PROVE  \E o \in Operation, t \in Stage, i \in Item \union {None},
                  d \in SUBSET Announcement : Fits(o, t, i, d)
    <3>1. Fits(op, stage, item, owed)
      BY <2>1, BeginMoves
    <3> QED BY <3>1
  <2>2. Published \in SUBSET Announcement /\ {} \in SUBSET Announcement
    BY DEF Published
  <2> HIDE DEF Fits
  <2> USE <2>1, <2>2, StageNames DEF Item, AdminOperation, UserOperation, Operation
  <2>3. CASE BeginMarkAsRead(r)
    BY <2>3 DEF BeginMarkAsRead
  <2>4. CASE BeginRemoveByUser(r)
    BY <2>4 DEF BeginRemoveByUser
  <2>5. CASE BeginMarkAllAsRead(r)
    BY <2>5 DEF BeginMarkAllAsRead
  <2>6. CASE BeginGetUnreadCount(r)
    BY <2>6 DEF BeginGetUnreadCount
  <2>7. CASE BeginSendNotification(r)
    BY <2>7 DEF BeginSendNotification
  <2>8. CASE BeginCreateAnnouncement(r)
    BY <2>8 DEF BeginCreateAnnouncement
  <2>9. CASE BeginAnnouncementChange(r)
    BY <2>9 DEF BeginAnnouncementChange
  <2>10. CASE BeginCleanup(r)
    BY <2>10 DEF BeginCleanup
  <2> QED BY <2>3, <2>4, <2>5, <2>6, <2>7, <2>8, <2>9, <2>10 DEF Arrive
<1> PICK op \in Operation, stage \in Stage, item \in Item \union {None},
         owed \in SUBSET Announcement : Fits(op, stage, item, owed)
  BY <1>2
<1>3. /\ req'[r].op = op /\ req'[r].stage = stage /\ req'[r].item = item
      /\ req'[r].due = owed /\ req'[r].system = Unread
      /\ req'[r].published = Unread /\ req'[r].seen = Unread
  BY DEF Arrived
<1>4. r \notin late
  BY DEF OnlyFillsLoad, At, NoRequest
<1>5. PersonalUnread' = PersonalUnread /\ PublishedCount' = PublishedCount
      /\ ReadCount' = ReadCount /\ UnreadCount' = UnreadCount
  BY <1>1 DEF PersonalUnread, PublishedCount, Published, ReadCount, UnreadCount
<1>6. FillsAreCurrent'
  BY <1>1, <1>3, <1>5 DEF FillsAreCurrent, OthersKept
<1>7. OnlyFillsLoad'
  BY <1>1, <1>3, <1>4 DEF OnlyFillsLoad, OthersKept, At
<1>8. ItemsFit'
  BY <1>1, <1>3 DEF ItemsFit, OthersKept
<1>9. RowsNeedAnnouncements'
  BY <1>1 DEF RowsNeedAnnouncements, Exists
<1>10. PublishersAreEarly'
  BY <1>1, <1>3 DEF PublishersAreEarly, OthersKept, At
<1>11. CountIsCurrent'
  <2>1. req[r].stage \notin Invalidating
    BY DEF At, NoRequest, Invalidating
  <2> QED BY <1>1, <1>5, <2>1, SameCountIsCurrent
<1>12. StaysRevoked'
  BY <1>1 DEF StaysRevoked
<1>13. \A q \in Request : Owed(q)'
  <2>1. Owed(r)'
    BY <1>1, <1>3 DEF Owed, Published
  <2>2. \A q \in Request \ {r} : Owed(q)'
    BY <1>1, OwedByRequest DEF Owed, OthersKept
  <2> QED BY <2>1, <2>2
<1>14. OwedAreFound' /\ AllAreRead'
  BY <1>13 DEF Owed, OwedAreFound, AllAreRead, At
<1> QED BY <1>1, <1>6, <1>7, <1>8, <1>9, <1>10, <1>11, <1>12, <1>14

\* Nothing is disturbed by the end of the cached count, or by a stuttering step.
LEMMA QuietKeeps ==
    ASSUME NotificationInv, UNCHANGED <<rows, req, late, settled>>,
           \/ cache' = cache /\ stale' = stale
           \/ cache' = None /\ stale' = FALSE
    PROVE  NotificationInv'
<1> USE DEF NotificationInv, rows
<1>1. PersonalUnread' = PersonalUnread /\ PublishedCount' = PublishedCount
      /\ ReadCount' = ReadCount /\ UnreadCount' = UnreadCount
  BY DEF PersonalUnread, PublishedCount, Published, ReadCount, UnreadCount
<1>2. TypeOK'
  BY DEF TypeOK
<1>3. FillsAreCurrent' /\ OnlyFillsLoad'
  BY <1>1 DEF FillsAreCurrent, OnlyFillsLoad, At
<1>4. ItemsFit' /\ PublishersAreEarly' /\ StaysRevoked'
  BY DEF ItemsFit, PublishersAreEarly, StaysRevoked, At
<1>5. RowsNeedAnnouncements' /\ OwedAreFound' /\ AllAreRead'
  BY DEF RowsNeedAnnouncements, OwedAreFound, AllAreRead, At, Exists
<1>6. CountIsCurrent'
  BY <1>1 DEF CountIsCurrent
<1> QED BY <1>2, <1>3, <1>4, <1>5, <1>6

\* The invariant holds at the start.
LEMMA NotificationInit == Init => NotificationInv
<1> SUFFICES ASSUME Init PROVE NotificationInv
  OBVIOUS
<1>1. \A r \in Request : req[r] = Idle
  BY DEF Init
<1>2. /\ Idle \in RequestState /\ Idle.op = "cleanup" /\ Idle.stage = "idle"
      /\ Idle.system = Unread /\ Idle.published = Unread /\ Idle.seen = Unread
  BY StageNames DEF Idle, Arrived, RequestState, Operation, NoRequest
<1>3. TypeOK
  BY <1>2 DEF Init, TypeOK
<1>4. FillsAreCurrent /\ OnlyFillsLoad
  BY <1>1, <1>2 DEF Init, FillsAreCurrent, OnlyFillsLoad
<1>5. ItemsFit /\ PublishersAreEarly /\ OwedAreFound /\ AllAreRead
  BY <1>1, <1>2 DEF ItemsFit, PublishersAreEarly, OwedAreFound, AllAreRead, At, AdminOperation
<1>6. RowsNeedAnnouncements /\ CountIsCurrent /\ StaysRevoked
  BY DEF Init, RowsNeedAnnouncements, CountIsCurrent, StaysRevoked, Exists
<1> QED BY <1>3, <1>4, <1>5, <1>6 DEF NotificationInv

\* The module's invariant: types, what a fill knows, what a publication has
\* checked, what markAllAsRead owes, and the three properties they carry.
THEOREM NotificationInvariant == Spec => []NotificationInv
<1>1. NotificationInv /\ [Next]_vars => NotificationInv'
  <2> SUFFICES ASSUME NotificationInv, [Next]_vars
               PROVE  NotificationInv'
    OBVIOUS
  <2>1. ASSUME NEW r \in Request, Step(r) \/ LoseDel(r) \/ Abort(r)
        PROVE  NotificationInv'
    BY <2>1, StepTyped, StepKeepsItems, StepKeepsRows, StepKeepsFills, StepKeepsCount,
       StepKeepsRevocations, StepKeepsOwed DEF NotificationInv
  <2> QED BY <2>1, ArriveKeeps, QuietKeeps DEF Next, CountExpires, vars
<1> QED BY <1>1, NotificationInit, PTL DEF Spec

\* The cached unread count is the one the rows give, but for the exceptions
\* the module names.
THEOREM CountCurrent == Spec => []CountIsCurrent
<1>1. NotificationInv => CountIsCurrent
  BY DEF NotificationInv
<1> QED BY <1>1, NotificationInvariant, PTL

\* An announcement whose revocation has settled is never published again.
THEOREM RevocationsHold == Spec => []StaysRevoked
<1>1. NotificationInv => StaysRevoked
  BY DEF NotificationInv
<1> QED BY <1>1, NotificationInvariant, PTL

\* markAllAsRead leaves nothing unread that it owed.
THEOREM AllRead == Spec => []AllAreRead
<1>1. NotificationInv => AllAreRead
  BY DEF NotificationInv
<1> QED BY <1>1, NotificationInvariant, PTL

-----------------------------------------------------------------------------
(* The rows implement Inbox.                                                *)

\* Rows that stay as they are make Inbox stutter.
LEMMA SameRowsStutter ==
    ASSUME UNCHANGED rows
    PROVE  UNCHANGED Promise!vars
BY DEF rows, Promise!vars, Published

\* Each action is one step of Inbox, or none.
LEMMA StepKeepsPromise ==
    ASSUME TypeOK, ItemsFit, NEW r \in Request, Step(r) \/ LoseDel(r) \/ Abort(r)
    PROVE  [Promise!Next]_(Promise!vars)
<1> USE NotificationAssumption DEF TypeOK
<1>1. CASE UNCHANGED rows
  BY <1>1, SameRowsStutter
<1>2. CASE CreateMessage(r) /\ ~UNCHANGED rows
  <2>1. PICK m \in Message : message[m] = "absent" /\ message' = [message EXCEPT ![m] = "unread"]
    BY <1>2 DEF CreateMessage, ItemsFit, AdminOperation, rows
  <2>2. status' = status /\ read' = read
    BY <1>2 DEF CreateMessage
  <2>3. Promise!Offer(m)
    BY <2>1, <2>2 DEF Promise!Offer, Published
  <2> QED BY <2>3 DEF Promise!Next, Item
<1>3. CASE CreateAnnouncement(r) \/ Publish(r)
  <2>1. PICK a \in Announcement : a = req[r].item
    BY <1>3 DEF CreateAnnouncement, Publish, ItemsFit, AdminOperation
  <2>2. message' = message /\ read' = read
    BY <1>3 DEF CreateAnnouncement, Publish
  <2>3. CASE status' = [status EXCEPT ![a] = "published"] /\ status[a] # "removed"
    <3>1. Promise!Offer(a)
      BY <2>2, <2>3 DEF Promise!Offer, Published
    <3> QED BY <3>1 DEF Promise!Next, Item
  <2>4. CASE status' = [status EXCEPT ![a] = "draft"] /\ status[a] = "absent"
    <3>1. UNCHANGED Promise!vars
      BY <2>2, <2>4 DEF Promise!vars, Published
    <3> QED BY <3>1
  <2> QED BY <1>1, <1>3, <2>1, <2>2, <2>3, <2>4 DEF CreateAnnouncement, Publish, Exists, rows
<1>4. CASE Revoke(r) /\ ~UNCHANGED rows
  <2>1. PICK a \in Announcement : status[a] # "removed" /\ status' = [status EXCEPT ![a] = "revoked"]
    BY <1>4 DEF Revoke, ItemsFit, AdminOperation, rows, Exists
  <2>2. message' = message /\ read' = read
    BY <1>4 DEF Revoke
  <2>3. Promise!Withdraw(a)
    BY <2>1, <2>2 DEF Promise!Withdraw, Published
  <2> QED BY <2>3 DEF Promise!Next, Item
<1>5. ASSUME NEW S \in SUBSET Announcement, DropAnnouncements(S), message' = message
      PROVE  Promise!Delete(S) /\ S \in SUBSET Item
  BY <1>5 DEF DropAnnouncements, Promise!Delete, Published, Item
<1>6. CASE RemoveAnnouncement(r) \/ SweepAnnouncements(r)
  <2>1. RemoveAnnouncement(r) => req[r].item \in Announcement
    BY DEF RemoveAnnouncement, ItemsFit, AdminOperation
  <2>2. CASE \E S \in SUBSET Announcement : DropAnnouncements(S) /\ message' = message
    BY <1>5, <2>2 DEF Promise!Next
  <2> QED BY <1>1, <1>6, <2>1, <2>2 DEF RemoveAnnouncement, SweepAnnouncements, rows
<1>7. CASE MarkAnnouncement(r) /\ ~UNCHANGED rows
  <2>1. PICK a \in Announcement :
          /\ status[a] # "removed"
          /\ read' = [read EXCEPT ![a] = IF read[a] = "none" THEN "read" ELSE read[a]]
    BY <1>7 DEF MarkAnnouncement, WriteRead, Exists, rows
  <2>2. message' = message /\ status' = status
    BY <1>7 DEF MarkAnnouncement, WriteRead
  <2>3. Promise!Open({a})
    BY <2>1, <2>2 DEF Promise!Open, Published
  <2> QED BY <2>3 DEF Promise!Next, Item
<1>8. CASE HideAnnouncement(r) /\ ~UNCHANGED rows
  <2>1. PICK a \in Announcement :
          /\ status[a] # "removed"
          /\ read' = [read EXCEPT ![a] = "hidden"]
    BY <1>8 DEF HideAnnouncement, WriteRead, Exists, rows
  <2>2. message' = message /\ status' = status
    BY <1>8 DEF HideAnnouncement, WriteRead
  <2>3. Promise!Dismiss(a)
    BY <2>1, <2>2 DEF Promise!Dismiss, Published
  <2> QED BY <2>3 DEF Promise!Next, Item
<1>9. CASE MarkMessage(r) /\ ~UNCHANGED rows
  <2>1. PICK m \in Message : /\ message[m] \in {"unread", "read"}
                             /\ message' = [message EXCEPT ![m] = "read"]
    BY <1>9 DEF MarkMessage, WriteMessage, Exists, rows
  <2>2. status' = status /\ read' = read
    BY <1>9 DEF MarkMessage, WriteMessage
  <2>3. Promise!Open({m})
    BY <2>1, <2>2 DEF Promise!Open, Published
  <2> QED BY <2>3 DEF Promise!Next, Item
<1>10. ASSUME NEW S \in SUBSET Message, status' = status, read' = read,
              message' = [m \in Message |-> IF m \in S THEN "removed" ELSE message[m]]
       PROVE  Promise!Next
  <2>1. Promise!Delete(S)
    BY <1>10 DEF Promise!Delete, Published
  <2> QED BY <2>1 DEF Promise!Next, Item
<1>11. CASE DeleteMessage(r) /\ ~UNCHANGED rows
  <2>1. PICK m \in Message : message' = [message EXCEPT ![m] = "removed"]
    BY <1>11 DEF DeleteMessage, WriteMessage, rows
  <2>2. message' = [n \in Message |-> IF n \in {m} THEN "removed" ELSE message[n]]
    BY <2>1
  <2>3. status' = status /\ read' = read
    BY <1>11 DEF DeleteMessage, WriteMessage
  <2>4. Promise!Next
    <3>1. {m} \in SUBSET Message
      OBVIOUS
    <3> QED BY <1>10, <2>2, <2>3, <3>1
  <2> QED BY <2>4
<1>12. CASE ReadMessages(r)
  <2>1. PICK S \in SUBSET Item : S = {m \in Message : message[m] = "unread"}
    BY DEF Item
  <2>2. /\ message' = [m \in Message |-> IF m \in S THEN "read" ELSE message[m]]
        /\ status' = status /\ read' = read
    BY <1>12, <2>1 DEF ReadMessages
  <2>3. Promise!Open(S)
    BY <2>1, <2>2 DEF Promise!Open, Published
  <2> QED BY <2>3 DEF Promise!Next
<1>13. CASE CreateReads(r) /\ ~UNCHANGED rows
  <2>1. req[r].found \subseteq Announcement
    BY DEF RequestState
  <2>2. PICK S \in SUBSET Item : S = {a \in req[r].found : read[a] = "none"}
    BY <2>1 DEF Item
  <2>3. /\ read' = [a \in Announcement |-> IF a \in S THEN "read" ELSE read[a]]
        /\ status' = status /\ message' = message
        /\ \A a \in S : status[a] # "removed"
    BY <1>13, <2>1, <2>2 DEF CreateReads, rows, Exists
  <2>4. Promise!Open(S)
    BY <2>1, <2>2, <2>3 DEF Promise!Open, Published
  <2> QED BY <2>4 DEF Promise!Next
<1>14. CASE SweepMessages(r)
  BY <1>10, <1>14 DEF SweepMessages
<1>15. CASE SweepReads(r)
  <2>1. PICK S \in SUBSET {a \in Announcement : read[a] = "hidden"} :
          read' = [a \in Announcement |-> IF a \in S THEN "none" ELSE read[a]]
    BY <1>15 DEF SweepReads
  <2>2. message' = message /\ status' = status
    BY <1>15 DEF SweepReads
  <2>3. Promise!Forget(S)
    BY <2>1, <2>2 DEF Promise!Forget, Published
  <2> QED BY <2>1, <2>3 DEF Promise!Next, Item
<1>16. CASE FindAnnouncement(r) \/ FindItem(r) \/ FindUnread(r) \/ DelCount(r) \/ LoseDel(r)
            \/ ScanCounts(r) \/ DelFound(r) \/ GetCount(r) \/ SetCount(r) \/ Done(r) \/ Abort(r)
  BY <1>1, <1>16 DEF FindAnnouncement, FindItem, FindUnread, DelCount, LoseDel, ScanCounts,
                     DelFound, GetCount, SetCount, Done, Abort
<1>17. CASE LoadPersonal(r) \/ LoadPublished(r) \/ LoadReads(r)
  BY <1>1, <1>17 DEF LoadPersonal, LoadPublished, LoadReads, Load
<1> QED BY <1>1, <1>2, <1>3, <1>4, <1>6, <1>7, <1>8, <1>9, <1>11, <1>12, <1>13, <1>14,
           <1>15, <1>16, <1>17 DEF Step

\* Reading, dismissing and deleting are remembered as Inbox promises.
THEOREM NotificationImplementsInbox == Spec => ImplementsInbox
<1>1. Init => Promise!Init
  BY DEF Init, Promise!Init, Published
<1>2. NotificationInv /\ [Next]_vars => [Promise!Next]_(Promise!vars)
  <2> SUFFICES ASSUME NotificationInv, [Next]_vars
               PROVE  [Promise!Next]_(Promise!vars)
    OBVIOUS
  <2>1. CASE \E r \in Request : Step(r) \/ LoseDel(r) \/ Abort(r)
    BY <2>1, StepKeepsPromise DEF NotificationInv
  <2>2. CASE \E r \in Request : Arrive(r)
    BY <2>2, ArriveTyped, SameRowsStutter DEF NotificationInv
  <2>3. CASE CountExpires \/ UNCHANGED vars
    BY <2>3, SameRowsStutter DEF CountExpires, vars
  <2> QED BY <2>1, <2>2, <2>3 DEF Next
<1> QED BY <1>1, <1>2, NotificationInvariant, PTL DEF Spec, ImplementsInbox, Promise!Spec

-----------------------------------------------------------------------------
(* The push stream, for any number of accounts, notifications and           *)
(* connections.                                                             *)

\* An event put on the wire comes after those that are there.
LEMMA AppendWire ==
  ASSUME NEW S, NEW w \in Seq(S), NEW e \in S
  PROVE  /\ Append(w, e) \in Seq(S)
         /\ DOMAIN Append(w, e) = DOMAIN w \union {Len(w) + 1}
         /\ \A i \in DOMAIN w : i < Len(w) + 1 /\ Append(w, e)[i] = w[i]
         /\ Append(w, e)[Len(w) + 1] = e
         /\ ToSet(Append(w, e)) = ToSet(w) \union {e}
<1>1. Append(w, e) \in Seq(S) /\ DOMAIN Append(w, e) = DOMAIN w \union {Len(w) + 1}
  OBVIOUS
<1>2. \A i \in DOMAIN w : i < Len(w) + 1 /\ Append(w, e)[i] = w[i]
  OBVIOUS
<1>3. Append(w, e)[Len(w) + 1] = e
  OBVIOUS
<1> QED BY <1>1, <1>2, <1>3 DEF ToSet

\* The first event taken off, the others move up.
LEMMA TailWire ==
  ASSUME NEW S, NEW w \in Seq(S), w # <<>>
  PROVE  /\ Tail(w) \in Seq(S) /\ Head(w) = w[1] /\ 1 \in DOMAIN w
         /\ \A i \in DOMAIN Tail(w) : i + 1 \in DOMAIN w /\ Tail(w)[i] = w[i + 1]
         /\ \A i \in DOMAIN w : i # 1 => i - 1 \in DOMAIN Tail(w) /\ Tail(w)[i - 1] = w[i]
         /\ DOMAIN w \subseteq Nat /\ DOMAIN Tail(w) \subseteq Nat \ {0}
<1>1. Tail(w) \in Seq(S) /\ Head(w) = w[1] /\ Len(w) \in Nat \ {0} /\ DOMAIN w = 1..Len(w)
  OBVIOUS
<1>2. Len(Tail(w)) = Len(w) - 1 /\ DOMAIN Tail(w) = 1..(Len(w) - 1)
  BY <1>1
<1>3. \A i \in DOMAIN Tail(w) : Tail(w)[i] = w[i + 1]
  BY <1>1, <1>2
<1> QED BY <1>1, <1>2, <1>3

\* Nothing is published yet.
LEMMA InitInv == StreamInit => StreamInv
<1> SUFFICES ASSUME StreamInit PROVE StreamInv
  OBVIOUS
<1>1. source.phase = "none" /\ source.conn = Nobody
  BY DEF StreamInit, NoSource
<1>2. StreamTypeOK
  <2>1. wire \in Seq(Event) /\ source \in [phase : {"none", "connecting", "open", "closed"},
                                           conn : Connection \union {Nobody}]
    BY DEF StreamInit, NoSource
  <2>2. load \in [due : BOOLEAN, answer : SUBSET Note, clean : BOOLEAN]
    BY DEF StreamInit, NoLoad
  <2>3. conn \in [Connection -> [open : BOOLEAN, user : User \union {Nobody}, beating : BOOLEAN]]
    BY DEF StreamInit, Closed
  <2>4. job \in [Sender -> [stage : {"idle", "write", "push"}, event : Event \union {Nobody}]]
        /\ \A s \in Sender : job[s].stage = "idle"
    BY DEF StreamInit, NoJob
  <2> QED BY <1>1, <2>1, <2>2, <2>3, <2>4, StreamAssumption DEF StreamInit, StreamTypeOK
<1> QED
  BY <1>1, <1>2, StreamAssumption
  DEF StreamInit, StreamInv, StreamsRegistered, EventsAreOwn, EventsAreOnce, ListensAsUser,
      Closed, NoSource, NoLoad, NoJob, Coming, Due, ToSet, Listening, Pushed, Revoked

\* A list stays right while the events and the account stay as they are.
LEMMA FollowsKept ==
  StreamInv /\ UNCHANGED <<notes, wire, user>> =>
    /\ ~behind /\ UNCHANGED recent => Follows(recent)'
    /\ load.clean /\ UNCHANGED load => Follows(Copies(load.answer))'
    /\ load.clean /\ load'.answer = load.answer => Follows(Copies(load.answer))'
  BY DEF StreamInv, notes, Follows, Listed, Addressed, Coming, Due, Copies

\* The gateway's and the tab's steps that neither move an event nor change who
\* listens keep the parts of the invariant about events.
LEMMA EventsKept ==
  StreamInv /\ UNCHANGED <<notes, wire, user>> => EventsAreOwn' /\ EventsAreOnce'
  BY DEF StreamInv, notes, EventsAreOwn, EventsAreOnce, Addressed, Coming, Due

\* Which events are due once the job of one sender has changed.
LEMMA DueMoves ==
  ASSUME StreamTypeOK, NEW s \in Sender, NEW j, job' = [job EXCEPT ![s] = j]
  PROVE  /\ job'[s] = j /\ \A r \in Sender \ {s} : job'[r] = job[r]
         /\ \A e \in Due' : e \in Due \/ (j.stage = "push" /\ e = j.event)
         /\ \A e \in Due : e \in Due' \/ (job[s].stage = "push" /\ e = job[s].event)
         /\ j.stage = "push" => j.event \in Due'
<1>1. job'[s] = j /\ \A r \in Sender \ {s} : job'[r] = job[r]
  BY DEF StreamTypeOK
<1> QED BY <1>1 DEF Due

\* A write of the service touches neither the gateway nor the tab.
LEMMA WritesKeep ==
  ASSUME StreamInv, StreamTypeOK', UNCHANGED <<gateway, tab>>,
         EventsAreOwn', EventsAreOnce',
         ASSUME NEW list, Follows(list) PROVE Follows(list)'
  PROVE  StreamInv'
<1> USE DEF gateway, tab
<1>1. StreamsRegistered' /\ ListensAsUser'
  BY DEF StreamInv, StreamsRegistered, ListensAsUser, Listening
<1>2. (~behind => Follows(recent))' /\ (load.clean => Follows(Copies(load.answer)))'
  BY DEF StreamInv, Copies
<1> QED BY <1>1, <1>2 DEF StreamInv

\* Nothing is on its way about a notification that does not exist yet.
LEMMA AbsentUnheard ==
  ASSUME StreamInv, NEW n \in Note, posted[n] \in {"absent", "draft"}
  PROVE  /\ Pushed(n) \notin Coming /\ Revoked(n) \notin Coming
         /\ \A i \in DOMAIN wire : wire[i] # Pushed(n) /\ wire[i] # Revoked(n)
         /\ \A list : Follows(list) /\ n \notin again => list[n] = 0
<1>1. Pushed(n) \notin Coming /\ Revoked(n) \notin Coming
  BY DEF StreamInv, EventsAreOnce
<1>2. \A i \in DOMAIN wire : wire[i] # Pushed(n) /\ wire[i] # Revoked(n)
  BY <1>1 DEF Coming, ToSet
<1>3. n \notin Listed(user) /\ Revoked(n) \notin Due
  BY <1>1 DEF Listed, Coming
<1> QED BY <1>1, <1>2, <1>3 DEF Follows

LEMMA CreateInv ==
  ASSUME StreamInv, NEW s \in Sender, NEW n \in Note, Create(s, n)
  PROVE  StreamInv'
<1>1. /\ job[s].stage = "idle" /\ posted[n] = "absent"
      /\ UNCHANGED <<again, gateway, tab>>
  BY DEF Create
<1>2. StreamTypeOK /\ to[n] = Nobody
  BY <1>1 DEF StreamInv, StreamsRegistered, EventsAreOnce
<1>3. PICK a \in User \union {Everyone}, written \in {"published", "draft"} :
        /\ to' = [to EXCEPT ![n] = a] /\ posted' = [posted EXCEPT ![n] = written]
        /\ written = "draft" => a = Everyone /\ job' = job
        /\ written = "published" =>
             job' = [job EXCEPT ![s] = [stage |-> "push", event |-> Pushed(n)]]
  BY DEF Create
<1>4. /\ job' \in [Sender -> [stage : {"idle", "write", "push"}, event : Event \union {Nobody}]]
      /\ \A r \in Sender \ {s} : job'[r] = job[r]
      /\ job'[s] = job[s] \/ (job'[s].stage = "push" /\ job'[s].event = Pushed(n))
      /\ Pushed(n) \in Event
  <2>1. Pushed(n) \in Event
    BY DEF Event, Pushed
  <2>2. CASE written = "draft"
    BY <1>2, <1>3, <2>1, <2>2 DEF StreamTypeOK
  <2>3. CASE written = "published"
    <3> DEFINE j == [stage |-> "push", event |-> Pushed(n)]
    <3>1. /\ j.stage = "push" /\ j.event = Pushed(n)
          /\ j \in [stage : {"idle", "write", "push"}, event : Event \union {Nobody}]
          /\ job' = [job EXCEPT ![s] = j]
      BY <1>3, <2>1, <2>3
    <3> HIDE DEF j
    <3> QED BY <1>2, <2>1, <3>1 DEF StreamTypeOK
  <2> QED BY <2>2, <2>3
<1>5. Due' = IF written = "published" THEN Due \union {Pushed(n)} ELSE Due
  <2>1. CASE written = "draft"
    BY <1>3, <2>1 DEF Due
  <2>2. CASE written = "published"
    BY <1>1, <1>2, <1>3, <2>2, DueMoves
  <2> QED BY <2>1, <2>2
<1>6. /\ Pushed(n) \notin Coming /\ Revoked(n) \notin Coming
      /\ \A i \in DOMAIN wire : wire[i] # Pushed(n) /\ wire[i] # Revoked(n)
      /\ \A list : Follows(list) /\ n \notin again => list[n] = 0
  BY <1>1, AbsentUnheard
<1>7. a # Nobody /\ \A m \in Note \ {n} : to'[m] = to[m] /\ posted'[m] = posted[m]
  BY <1>2, <1>3, StreamAssumption DEF StreamTypeOK
<1>8. to'[n] = a /\ posted'[n] = written
  BY <1>2, <1>3 DEF StreamTypeOK
<1> USE DEF gateway, tab
<1>9. StreamTypeOK'
  <2>1. /\ posted' \in [Note -> {"absent", "draft", "published", "revoked", "removed"}]
        /\ to' \in [Note -> User \union {Everyone, Nobody}]
    BY <1>2, <1>3 DEF StreamTypeOK
  <2>2. \A r \in Sender : job'[r].stage # "idle" => job'[r].event \in Event
    BY <1>2, <1>4 DEF StreamTypeOK
  <2> QED BY <1>1, <1>2, <1>4, <2>1, <2>2 DEF StreamTypeOK
<1>10. EventsAreOwn'
  <2>1. \A e \in ToSet(wire) : e.note # n
    <3>1. SUFFICES ASSUME NEW i \in DOMAIN wire PROVE wire[i].note # n
      BY DEF ToSet
    <3>2. wire[i] \in Event
      BY <1>2 DEF StreamTypeOK
    <3> QED BY <1>6, <3>2 DEF Event, Pushed, Revoked
  <2>2. \A e \in ToSet(wire) : e.note \in Note
    <3>1. \A i \in DOMAIN wire : wire[i].note \in Note
      <4>1. \A i \in DOMAIN wire : wire[i] \in Event
        BY <1>2 DEF StreamTypeOK
      <4> QED BY <4>1 DEF Event
    <3> QED BY <3>1 DEF ToSet
  <2> QED BY <1>1, <1>7, <2>1, <2>2 DEF StreamInv, EventsAreOwn, Addressed
<1>11. /\ \A m \in Note : Pushed(m) \in Coming' => Pushed(m) \in Coming \/ (m = n /\ written = "published")
       /\ \A m \in Note : Revoked(m) \in Coming' => Revoked(m) \in Coming
       /\ \A m \in Note \ {n} : Pushed(m) \in Due' => Pushed(m) \in Due
  BY <1>1, <1>5 DEF Coming, Pushed, Revoked
<1>12. EventsAreOnce'
  <2>1. \A r \in Sender : job'[r].stage = "write" =>
          /\ job[r] = job'[r] /\ job[r].event.note # n
    <3>1. SUFFICES ASSUME NEW r \in Sender, job'[r].stage = "write"
                   PROVE  job[r] = job'[r] /\ job[r].event.note # n
      OBVIOUS
    <3>2. job[r] = job'[r]
      BY <1>4, <3>1
    <3>3. to[job[r].event.note] = Everyone
      BY <3>1, <3>2 DEF StreamInv, EventsAreOnce
    <3> QED BY <1>2, <3>2, <3>3, StreamAssumption
  <2>2. \A r \in Sender : job'[r].stage = "write" => job[r].event.note \in Note
    BY <1>2, <2>1 DEF StreamTypeOK, Event
  <2>3. \A r, q \in Sender :
          /\ job'[r].stage = "push" /\ job'[r].event = Pushed(n)
          /\ job'[q].stage = "push" /\ job'[q].event = Pushed(n)
          => r = q
    <3>1. \A r \in Sender : ~(job[r].stage = "push" /\ job[r].event = Pushed(n))
      BY <1>6 DEF Coming, Due
    <3>2. \A r \in Sender : job'[r].stage = "push" /\ job'[r].event = Pushed(n) => r = s
      BY <1>4, <3>1
    <3> QED BY <3>2
  <2>4. \A m \in Note \ {n} : \A r, q \in Sender :
          job'[r].event = Pushed(m) /\ job'[r].stage = "push" =>
          job[r].event = Pushed(m) /\ job[r].stage = "push"
    BY <1>4 DEF Pushed
  <2>5. \A m \in Note : (posted'[m] = "absent" <=> to'[m] = Nobody)
          /\ (posted'[m] \in {"draft", "revoked"} => to'[m] = Everyone)
    BY <1>3, <1>7, <1>8 DEF StreamInv, EventsAreOnce
  <2>6. \A r \in Sender : job'[r].stage = "write" =>
          /\ to'[job'[r].event.note] = Everyone
          /\ job'[r].event.kind = "announcement-revoked" => posted'[job'[r].event.note] # "draft"
    BY <1>7, <2>1, <2>2 DEF StreamInv, EventsAreOnce
  <2>7. \A m \in Note : Pushed(m) \in Coming' => posted'[m] \notin {"absent", "draft"}
    BY <1>6, <1>7, <1>8, <1>11 DEF StreamInv, EventsAreOnce
  <2>8. \A m \in Note : Revoked(m) \in Coming' =>
          /\ to'[m] = Everyone
          /\ posted'[m] \in {"revoked", "removed"} \/ (m \in again /\ posted'[m] = "published")
    BY <1>6, <1>7, <1>11 DEF StreamInv, EventsAreOnce
  <2>9. \A m \in Note \ again : \A i \in DOMAIN wire : wire[i] = Pushed(m) => Pushed(m) \notin Due'
    BY <1>6, <1>11 DEF StreamInv, EventsAreOnce
  <2> QED BY <1>1, <2>3, <2>4, <2>5, <2>6, <2>7, <2>8, <2>9 DEF StreamInv, EventsAreOnce
<1>13. ASSUME NEW list, Follows(list) PROVE Follows(list)'
  <2>1. \A m \in Note \ {n} : m \in Listed(user)' <=> m \in Listed(user)
    BY <1>1, <1>7 DEF Listed, Addressed
  <2>2. \A m \in Note \ {n} : Pushed(m) \in Coming' <=> Pushed(m) \in Coming
    BY <1>1, <1>5 DEF Coming, Pushed
  <2>3. \A m \in Note : Revoked(m) \in Due => Revoked(m) \in Due'
    BY <1>5
  <2>4. written = "published" => Pushed(n) \in Coming'
    BY <1>5 DEF Coming
  <2>5. written = "draft" => n \notin Listed(user)'
    BY <1>8 DEF Listed
  <2> QED BY <1>1, <1>6, <1>7, <1>13, <2>1, <2>2, <2>3, <2>4, <2>5 DEF Follows
<1> QED BY <1>1, <1>9, <1>10, <1>12, <1>13, WritesKeep

LEMMA CheckStatusInv ==
  ASSUME StreamInv, NEW s \in Sender, NEW n \in Note, CheckStatus(s, n)
  PROVE  StreamInv'
<1>1. /\ job[s].stage = "idle" /\ to[n] = Everyone
      /\ UNCHANGED <<posted, to, again, gateway, tab>>
  BY DEF CheckStatus
<1>2. StreamTypeOK
  BY DEF StreamInv, StreamsRegistered
<1>3. PICK e \in {Pushed(n), Revoked(n)} :
        /\ job' = [job EXCEPT ![s] = [stage |-> "write", event |-> e]]
        /\ e = Revoked(n) => posted[n] = "published"
  BY DEF CheckStatus, Pushed, Revoked
<1>4. e \in Event /\ e.note = n /\ (e.kind = "announcement-revoked" => posted[n] = "published")
  BY <1>3 DEF Event, Pushed, Revoked
<1>5. /\ \A r \in Sender \ {s} : job'[r] = job[r]
      /\ job'[s].stage = "write" /\ job'[s].event = e
      /\ Due' = Due
  <2> DEFINE j == [stage |-> "write", event |-> e]
  <2>1. j.stage = "write" /\ j.event = e /\ job' = [job EXCEPT ![s] = j]
    BY <1>3
  <2> HIDE DEF j
  <2>2. /\ job'[s] = j /\ \A r \in Sender \ {s} : job'[r] = job[r]
        /\ \A x \in Due' : x \in Due \/ (j.stage = "push" /\ x = j.event)
        /\ \A x \in Due : x \in Due' \/ (job[s].stage = "push" /\ x = job[s].event)
    BY <1>2, <2>1, DueMoves
  <2> QED BY <1>1, <2>1, <2>2
<1> USE DEF gateway, tab
<1>6. Coming' = Coming
  BY <1>1, <1>5 DEF Coming
<1>7. StreamTypeOK'
  <2>1. job' \in [Sender -> [stage : {"idle", "write", "push"}, event : Event \union {Nobody}]]
    BY <1>2, <1>3, <1>4 DEF StreamTypeOK
  <2> QED BY <1>1, <1>2, <1>4, <1>5, <2>1 DEF StreamTypeOK
<1>8. EventsAreOwn'
  BY <1>1 DEF StreamInv, EventsAreOwn, Addressed
<1>9. EventsAreOnce'
  <2>1. \A r \in Sender : job'[r].stage = "write" =>
          /\ to[job'[r].event.note] = Everyone
          /\ job'[r].event.kind = "announcement-revoked" => posted[job'[r].event.note] # "draft"
    BY <1>1, <1>4, <1>5 DEF StreamInv, EventsAreOnce
  <2>2. \A r \in Sender : job'[r].stage = "push" => job'[r] = job[r]
    BY <1>5
  <2> QED BY <1>1, <1>5, <1>6, <2>1, <2>2 DEF StreamInv, EventsAreOnce
<1>10. ASSUME NEW list, Follows(list) PROVE Follows(list)'
  BY <1>1, <1>5, <1>6, <1>10 DEF Follows, Listed, Addressed
<1> QED BY <1>1, <1>7, <1>8, <1>9, <1>10, WritesKeep

LEMMA StoreInv ==
  ASSUME StreamInv, NEW s \in Sender, Store(s)
  PROVE  StreamInv'
<1> DEFINE e == job[s].event
<1> DEFINE n == e.note
<1>1. job[s].stage = "write" /\ UNCHANGED <<to, gateway, tab>>
  BY DEF Store
<1>2. StreamTypeOK
  BY DEF StreamInv, StreamsRegistered
<1>3. e \in Event /\ n \in Note /\ to[n] = Everyone
      /\ (e = Pushed(n) \/ (e = Revoked(n) /\ posted[n] # "draft"))
      /\ (e.kind = "notification" <=> e = Pushed(n)) /\ posted[n] # "absent"
  <2>1. e \in Event /\ to[n] = Everyone
        /\ (e.kind = "announcement-revoked" => posted[n] # "draft")
    BY <1>1, <1>2 DEF StreamInv, EventsAreOnce, StreamTypeOK
  <2> QED BY <2>1, StreamAssumption DEF StreamInv, EventsAreOnce, Event, Pushed, Revoked
<1>4. \A m \in Note : e = Pushed(m) => m = n
  BY DEF Pushed
<1> USE DEF gateway, tab
<1>5. CASE posted[n] = "removed"
  <2>1. job' = [job EXCEPT ![s] = NoJob] /\ UNCHANGED <<posted, again>>
    BY <1>5 DEF Store
  <2>2. /\ \A r \in Sender \ {s} : job'[r] = job[r]
        /\ job'[s].stage = "idle" /\ Due' = Due
    <3>1. NoJob.stage = "idle"
      BY DEF NoJob
    <3>2. /\ job'[s] = NoJob /\ \A r \in Sender \ {s} : job'[r] = job[r]
          /\ \A x \in Due' : x \in Due \/ (NoJob.stage = "push" /\ x = NoJob.event)
          /\ \A x \in Due : x \in Due' \/ (job[s].stage = "push" /\ x = job[s].event)
      BY <1>2, <2>1, DueMoves
    <3> QED BY <1>1, <3>1, <3>2
  <2>3. Coming' = Coming
    BY <1>1, <2>2 DEF Coming
  <2>4. StreamTypeOK'
    <3>1. job' \in [Sender -> [stage : {"idle", "write", "push"}, event : Event \union {Nobody}]]
      BY <1>2, <2>1 DEF StreamTypeOK, NoJob
    <3> QED BY <1>1, <1>2, <2>1, <2>2, <3>1 DEF StreamTypeOK
  <2>5. EventsAreOwn'
    BY <1>1 DEF StreamInv, EventsAreOwn, Addressed
  <2>6. EventsAreOnce'
    <3>1. \A r \in Sender : job'[r].stage # "idle" => job'[r] = job[r]
      BY <2>2
    <3> QED BY <1>1, <2>1, <2>2, <2>3, <3>1 DEF StreamInv, EventsAreOnce
  <2>7. ASSUME NEW list, Follows(list) PROVE Follows(list)'
    BY <1>1, <2>1, <2>2, <2>3, <2>7 DEF Follows, Listed, Addressed
  <2> QED BY <1>1, <2>4, <2>5, <2>6, <2>7, WritesKeep
<1>6. CASE posted[n] # "removed"
  <2>1. /\ posted' = [posted EXCEPT ![n] =
                        IF e.kind = "notification" THEN "published" ELSE "revoked"]
        /\ again' = again \union {m \in Note : e = Pushed(m) /\ posted[m] # "draft"}
        /\ job' = [job EXCEPT ![s].stage = "push"]
    BY <1>6 DEF Store
  <2>2. /\ \A m \in Note \ {n} : posted'[m] = posted[m] /\ (m \in again' <=> m \in again)
        /\ e = Pushed(n) => posted'[n] = "published"
        /\ e = Revoked(n) => posted'[n] = "revoked" /\ again' = again
        /\ e = Pushed(n) /\ posted[n] # "draft" => n \in again'
        /\ again \subseteq again' /\ again' \subseteq Note
    <3>1. Pushed(n) # Revoked(n)
      BY DEF Pushed, Revoked
    <3>2. \A m \in Note : e = Revoked(n) => e # Pushed(m)
      BY DEF Pushed, Revoked
    <3> QED BY <1>2, <1>3, <1>4, <2>1, <3>1, <3>2 DEF StreamTypeOK
  <2>3. /\ \A r \in Sender \ {s} : job'[r] = job[r]
        /\ job'[s].stage = "push" /\ job'[s].event = e
        /\ job' \in [Sender -> [stage : {"idle", "write", "push"}, event : Event \union {Nobody}]]
    BY <1>2, <2>1 DEF StreamTypeOK
  <2>4. Due' = Due \union {e}
    <3>1. job' = [job EXCEPT ![s] = job'[s]]
      BY <1>2, <2>1, <2>3 DEF StreamTypeOK
    <3> QED BY <1>1, <1>2, <2>3, <3>1, DueMoves
  <2>5. Coming' = Coming \union {e}
    BY <1>1, <2>4 DEF Coming
  <2>6. StreamTypeOK'
    <3>1. posted' \in [Note -> {"absent", "draft", "published", "revoked", "removed"}]
      BY <1>2, <2>1 DEF StreamTypeOK
    <3>2. \A r \in Sender : job'[r].stage # "idle" => job'[r].event \in Event
      BY <1>2, <1>3, <2>3 DEF StreamTypeOK
    <3> QED BY <1>1, <1>2, <2>2, <2>3, <3>1, <3>2 DEF StreamTypeOK
  <2>7. EventsAreOwn'
    BY <1>1 DEF StreamInv, EventsAreOwn, Addressed
  <2> HIDE DEF e, n
  <2>8. /\ \A m \in Note : Pushed(m) \in Coming' => Pushed(m) \in Coming \/ (m = n /\ e = Pushed(n))
        /\ \A m \in Note : Revoked(m) \in Coming' => Revoked(m) \in Coming \/ (m = n /\ e = Revoked(n))
        /\ \A m \in Note \ {n} : Pushed(m) \in Coming' <=> Pushed(m) \in Coming
        /\ \A m \in Note : Pushed(m) \in Due' => Pushed(m) \in Due \/ (m = n /\ e = Pushed(n))
    <3>1. \A m \in Note : (e = Pushed(m) => m = n) /\ (e = Revoked(m) => m = n)
      BY <1>3 DEF Pushed, Revoked
    <3> QED BY <2>4, <2>5, <3>1
  <2>9. ASSUME n \notin again'
        PROVE  /\ n \notin again
               /\ e = Pushed(n) => /\ posted[n] = "draft"
                                   /\ Pushed(n) \notin Coming
                                   /\ \A i \in DOMAIN wire : wire[i] # Pushed(n)
                                   /\ \A list : Follows(list) => list[n] = 0
    BY <1>3, <2>2, <2>9, AbsentUnheard
  <2>10. EventsAreOnce'
    <3>1. \A m \in Note : (posted'[m] = "absent" <=> to[m] = Nobody)
            /\ (posted'[m] \in {"draft", "revoked"} => to[m] = Everyone)
      BY <1>3, <2>2, StreamAssumption DEF StreamInv, EventsAreOnce
    <3>2. \A r \in Sender : job'[r].stage = "write" =>
            /\ to[job'[r].event.note] = Everyone
            /\ job'[r].event.kind = "announcement-revoked" => posted'[job'[r].event.note] # "draft"
      <4>1. SUFFICES ASSUME NEW r \in Sender, job'[r].stage = "write"
                     PROVE  /\ to[job'[r].event.note] = Everyone
                            /\ job'[r].event.kind = "announcement-revoked" =>
                                 posted'[job'[r].event.note] # "draft"
        OBVIOUS
      <4>2. job'[r] = job[r] /\ job[r].event \in Event
        BY <1>2, <2>3, <4>1 DEF StreamTypeOK
      <4>3. job[r].event.note \in Note
        BY <4>2 DEF Event
      <4>4. posted'[n] # "draft"
        BY <1>3, <2>2
      <4> QED BY <2>2, <4>1, <4>2, <4>3, <4>4 DEF StreamInv, EventsAreOnce
    <3>3. \A m \in Note : Pushed(m) \in Coming' => posted'[m] \notin {"absent", "draft"}
      BY <1>3, <2>2, <2>8 DEF StreamInv, EventsAreOnce
    <3>4. \A m \in Note : Revoked(m) \in Coming' =>
            /\ to[m] = Everyone
            /\ posted'[m] \in {"revoked", "removed"} \/ (m \in again' /\ posted'[m] = "published")
      <4>1. SUFFICES ASSUME NEW m \in Note, Revoked(m) \in Coming'
                     PROVE  /\ to[m] = Everyone
                            /\ \/ posted'[m] \in {"revoked", "removed"}
                               \/ m \in again' /\ posted'[m] = "published"
        OBVIOUS
      <4>2. CASE m # n
        BY <2>2, <2>8, <4>1, <4>2 DEF StreamInv, EventsAreOnce
      <4>3. CASE m = n /\ e = Revoked(n)
        BY <1>3, <2>2, <4>3
      <4>4. CASE m = n /\ e = Pushed(n)
        <5>1. Revoked(n) \in Coming
          BY <2>8, <4>1, <4>4 DEF Pushed, Revoked
        <5>2. posted[n] # "draft"
          BY <1>3, <5>1 DEF StreamInv, EventsAreOnce
        <5> QED BY <1>3, <2>2, <4>4, <5>2
      <4> QED BY <1>3, <4>2, <4>3, <4>4
    <3>5. ASSUME NEW m \in Note \ again'
          PROVE  /\ \A i, j \in DOMAIN wire : wire[i] = Pushed(m) /\ wire[j] = Pushed(m) => i = j
                 /\ \A i \in DOMAIN wire : wire[i] = Pushed(m) => Pushed(m) \notin Due'
                 /\ \A r, q \in Sender :
                      /\ job'[r].stage = "push" /\ job'[r].event = Pushed(m)
                      /\ job'[q].stage = "push" /\ job'[q].event = Pushed(m)
                      => r = q
      <4>1. CASE m = n /\ e = Pushed(n)
        <5>1. Pushed(n) \notin Due /\ \A i \in DOMAIN wire : wire[i] # Pushed(n)
          BY <2>9, <3>5, <4>1 DEF Coming
        <5>2. \A r \in Sender : ~(job[r].stage = "push" /\ job[r].event = Pushed(n))
          BY <5>1 DEF Due
        <5> QED BY <2>3, <4>1, <5>1, <5>2
      <4>2. CASE e # Pushed(m)
        <5>1. m \notin again
          BY <2>2, <3>5
        <5>2. Pushed(m) \in Due' => Pushed(m) \in Due
          BY <2>4, <4>2
        <5>3. \A r \in Sender : job'[r].stage = "push" /\ job'[r].event = Pushed(m) =>
                job[r].stage = "push" /\ job[r].event = Pushed(m)
          BY <2>3, <4>2
        <5> QED BY <5>1, <5>2, <5>3 DEF StreamInv, EventsAreOnce
      <4> QED BY <1>4, <4>1, <4>2 DEF e, n
    <3> QED BY <1>1, <3>1, <3>2, <3>3, <3>4, <3>5 DEF EventsAreOnce
  <2>11. ASSUME NEW list, Follows(list) PROVE Follows(list)'
    <3>1. \A m \in Note \ {n} : m \in Listed(user)' <=> m \in Listed(user)
      BY <1>1, <2>2 DEF Listed, Addressed
    <3>2. Due \subseteq Due' /\ e \in Due' /\ e \in Coming'
      BY <2>4, <2>5
    <3>3. ASSUME NEW m \in Note \ {n}, m \notin again'
          PROVE  /\ list[m] \in IF Pushed(m) \in Coming' THEN {0} ELSE {0, 1}
                 /\ m \in Listed(user)' => list[m] = 1 \/ Pushed(m) \in Coming'
                 /\ m \notin Listed(user)' /\ posted'[m] # "removed" =>
                      \/ list[m] = 0 /\ \A i \in DOMAIN wire : wire[i] # Pushed(m)
                      \/ Revoked(m) \in Due'
                      \/ \E i \in DOMAIN wire :
                           /\ wire[i] = Revoked(m)
                           /\ \A j \in DOMAIN wire : wire[j] = Pushed(m) => j < i
      <4>1. m \notin again /\ posted'[m] = posted[m]
        BY <2>2, <3>3
      <4> QED BY <2>8, <2>11, <3>1, <3>2, <3>3, <4>1 DEF Follows
    <3>4. ASSUME n \notin again', e = Pushed(n)
          PROVE  list[n] = 0 /\ Pushed(n) \in Coming' /\ posted'[n] = "published"
      BY <2>2, <2>9, <2>11, <3>2, <3>4
    <3>5. ASSUME n \notin again', e = Revoked(n)
          PROVE  /\ list[n] \in IF Pushed(n) \in Coming' THEN {0} ELSE {0, 1}
                 /\ n \notin Listed(user)' /\ Revoked(n) \in Due'
      <4>1. n \notin Listed(user)'
        BY <2>2, <3>5 DEF Listed
      <4>2. Pushed(n) \in Coming' => Pushed(n) \in Coming
        <5>1. e # Pushed(n)
          BY <3>5 DEF Pushed, Revoked
        <5> QED BY <2>5, <5>1
      <4>3. Pushed(n) \in Coming => Pushed(n) \in Coming'
        BY <2>5
      <4>4. n \notin again /\ n \in Note
        BY <1>3, <2>2, <3>5
      <4> QED BY <2>11, <3>2, <3>5, <4>1, <4>2, <4>3, <4>4 DEF Follows
    <3>6. \A m \in Note \ again' :
            /\ list[m] \in IF Pushed(m) \in Coming' THEN {0} ELSE {0, 1}
            /\ m \in Listed(user)' => list[m] = 1 \/ Pushed(m) \in Coming'
            /\ m \notin Listed(user)' /\ posted'[m] # "removed" =>
                 \/ list[m] = 0 /\ \A i \in DOMAIN wire : wire[i] # Pushed(m)
                 \/ Revoked(m) \in Due'
                 \/ \E i \in DOMAIN wire :
                      /\ wire[i] = Revoked(m)
                      /\ \A j \in DOMAIN wire : wire[j] = Pushed(m) => j < i
      <4>1. to'[n] = Everyone
        BY <1>1, <1>3
      <4>2. ASSUME n \notin again', e = Pushed(n) PROVE n \in Listed(user)'
        BY <1>3, <3>4, <4>1, <4>2 DEF Listed, Addressed
      <4> QED BY <1>3, <3>3, <3>4, <3>5, <4>2
    <3> QED BY <1>1, <3>6 DEF Follows
  <2> QED BY <1>1, <2>6, <2>7, <2>10, <2>11, WritesKeep
<1> QED BY <1>5, <1>6

\* Nobody is told of a deletion.
LEMMA DeleteInv ==
  ASSUME StreamInv, NEW n \in Note, Delete(n)
  PROVE  StreamInv'
<1>1. /\ posted[n] \notin {"absent", "removed"} /\ posted' = [posted EXCEPT ![n] = "removed"]
      /\ UNCHANGED <<to, job, again, gateway, tab>>
  BY DEF Delete
<1> USE DEF gateway, tab
<1>2. StreamTypeOK
  BY DEF StreamInv, StreamsRegistered
<1>3. StreamTypeOK'
  BY <1>1, <1>2 DEF StreamTypeOK
<1>4. posted'[n] = "removed" /\ \A m \in Note \ {n} : posted'[m] = posted[m]
  BY <1>1, <1>2 DEF StreamTypeOK
<1>5. Due' = Due /\ Coming' = Coming
  BY <1>1 DEF Coming, Due
<1>6. EventsAreOwn'
  BY <1>1 DEF StreamInv, EventsAreOwn, Addressed
<1>7. EventsAreOnce'
  <2>1. \A r \in Sender : job[r].stage = "write" => job[r].event.note \in Note
    BY <1>2 DEF StreamTypeOK, Event
  <2>2. \A r \in Sender :
          job[r].stage = "write" /\ job[r].event.kind = "announcement-revoked" =>
            posted'[job[r].event.note] # "draft"
    BY <1>4, <2>1 DEF StreamInv, EventsAreOnce
  <2>3. \A m \in Note : (posted'[m] = "absent" <=> to[m] = Nobody)
          /\ (posted'[m] \in {"draft", "revoked"} => to[m] = Everyone)
    BY <1>1, <1>4 DEF StreamInv, EventsAreOnce
  <2>4. \A m \in Note : Pushed(m) \in Coming => posted'[m] \notin {"absent", "draft"}
    BY <1>4 DEF StreamInv, EventsAreOnce
  <2>5. \A m \in Note : Revoked(m) \in Coming =>
          posted'[m] \in {"revoked", "removed"} \/ (m \in again /\ posted'[m] = "published")
    BY <1>4 DEF StreamInv, EventsAreOnce
  <2> QED BY <1>1, <1>5, <2>2, <2>3, <2>4, <2>5 DEF StreamInv, EventsAreOnce
<1>8. ASSUME NEW list, Follows(list) PROVE Follows(list)'
  <2>1. \A m \in Note : m \in Listed(user)' <=> m # n /\ m \in Listed(user)
    BY <1>1, <1>4 DEF Listed, Addressed
  <2> QED BY <1>1, <1>4, <1>5, <1>8, <2>1 DEF Follows
<1> QED BY <1>1, <1>3, <1>6, <1>7, <1>8, WritesKeep

LEMMA BroadcastInv ==
  ASSUME StreamInv, NEW s \in Sender, Broadcast(s)
  PROVE  StreamInv'
<1> DEFINE e == job[s].event
<1> DEFINE missed ==
      /\ user # Nobody /\ Addressed(e.note, user)
      /\ \/ \A c \in Targets(e) : ~Listening(c)
         \/ e = Pushed(e.note) /\ posted[e.note] = "revoked" /\ Revoked(e.note) \notin Due
<1> DEFINE heard == \E c \in Targets(e) : Listening(c)
<1>1. /\ job[s].stage = "push" /\ job' = [job EXCEPT ![s] = NoJob]
      /\ conn' = [c \in Connection |-> [conn[c] EXCEPT !.beating = @ /\ c \notin Targets(e)]]
      /\ wire' = IF heard THEN Append(wire, e) ELSE wire
      /\ behind' = (behind \/ missed) /\ load' = [load EXCEPT !.clean = @ /\ ~missed]
      /\ UNCHANGED <<posted, to, again, subjects, stopped, user, source, recent>>
  BY DEF Broadcast, Misses
<1> HIDE DEF missed, heard
<1>2. StreamTypeOK
  BY DEF StreamInv, StreamsRegistered
<1>3. e \in Event /\ e.note \in Note /\ (e = Pushed(e.note) \/ e = Revoked(e.note))
  <2>1. e \in Event
    BY <1>1, <1>2 DEF StreamTypeOK
  <2> QED BY <2>1 DEF Event, Pushed, Revoked
<1>17. /\ \A r \in Sender \ {s} : job'[r] = job[r]
       /\ job'[s].stage = "idle" /\ e \in Due
       /\ Due' \subseteq Due /\ Due \subseteq Due' \union {e}
  <2>1. job'[s] = NoJob /\ \A r \in Sender \ {s} : job'[r] = job[r]
    BY <1>1, <1>2 DEF StreamTypeOK
  <2>2. NoJob.stage = "idle"
    BY DEF NoJob
  <2>3. e \in Due
    BY <1>1 DEF Due
  <2> QED BY <1>1, <1>2, <2>1, <2>2, <2>3, DueMoves
<1> HIDE DEF e
<1>4. heard => Append(wire, e) \in Seq(Event) /\ ToSet(wire') = ToSet(wire) \union {e}
  BY <1>1, <1>2, <1>3, AppendWire DEF StreamTypeOK
<1>5. heard => user \in User /\ Addressed(e.note, user)
  <2>1. SUFFICES ASSUME NEW c \in Targets(e), Listening(c)
                 PROVE  user \in User /\ Addressed(e.note, user)
    BY DEF heard
  <2>2. posted[e.note] # "absent"
    BY <1>3, <1>17 DEF StreamInv, EventsAreOnce, Coming
  <2>3. to[e.note] \in User \union {Everyone}
    BY <1>2, <1>3, <2>2 DEF StreamInv, EventsAreOnce, StreamTypeOK
  <2>4. PICK u \in User : c \in subjects[u] /\ (to[e.note] = Everyone \/ to[e.note] = u)
    BY <2>3 DEF Targets
  <2>5. c \in Connection /\ conn[c].open /\ conn[c].user = u
    BY <1>2, <2>4 DEF StreamInv, StreamsRegistered, StreamTypeOK
  <2>6. user = u
    BY <2>1, <2>5 DEF StreamInv, ListensAsUser
  <2> QED BY <2>4, <2>6 DEF Addressed
<1>6. \A c \in Connection : conn'[c].open = conn[c].open /\ conn'[c].user = conn[c].user
  BY <1>1, <1>2 DEF StreamTypeOK
<1>7. StreamTypeOK'
  <2>1. conn' \in [Connection -> [open : BOOLEAN, user : User \union {Nobody}, beating : BOOLEAN]]
    BY <1>1, <1>2 DEF StreamTypeOK
  <2>2. wire' \in Seq(Event)
    BY <1>1, <1>2, <1>4 DEF StreamTypeOK
  <2>4. /\ job' \in [Sender -> [stage : {"idle", "write", "push"}, event : Event \union {Nobody}]]
        /\ \A r \in Sender : job'[r].stage # "idle" => job'[r].event \in Event
    BY <1>1, <1>2, <1>17 DEF StreamTypeOK, NoJob
  <2>3. behind' \in BOOLEAN /\ load' \in [due : BOOLEAN, answer : SUBSET Note, clean : BOOLEAN]
    BY <1>1, <1>2 DEF StreamTypeOK, missed
  <2> QED BY <1>1, <1>2, <2>1, <2>2, <2>3, <2>4 DEF StreamTypeOK
<1>8. StreamsRegistered'
  <2>1. \A u \in User : \A c \in subjects[u] : c \in Connection
    BY <1>2 DEF StreamTypeOK
  <2>2. \A u \in User : \A c \in subjects'[u] : conn'[c].open /\ conn'[c].user = u
    BY <1>1, <1>6, <2>1 DEF StreamInv, StreamsRegistered
  <2> QED BY <1>1, <1>6, <1>7, <2>2 DEF StreamInv, StreamsRegistered, Listening
<1>9. EventsAreOwn'
  BY <1>1, <1>4, <1>5, StreamAssumption DEF StreamInv, EventsAreOwn, Addressed
<1>10. Coming' \subseteq Coming
  BY <1>1, <1>4, <1>17 DEF Coming
<1>11. EventsAreOnce'
  <2>1. ASSUME NEW n \in Note \ again
        PROVE  /\ \A i, j \in DOMAIN wire' : wire'[i] = Pushed(n) /\ wire'[j] = Pushed(n) => i = j
               /\ \A i \in DOMAIN wire' : wire'[i] = Pushed(n) => Pushed(n) \notin Due'
               /\ \A r, q \in Sender :
                    /\ job'[r].stage = "push" /\ job'[r].event = Pushed(n)
                    /\ job'[q].stage = "push" /\ job'[q].event = Pushed(n)
                    => r = q
    <3>1. /\ \A i, j \in DOMAIN wire : wire[i] = Pushed(n) /\ wire[j] = Pushed(n) => i = j
          /\ \A i \in DOMAIN wire : wire[i] = Pushed(n) => Pushed(n) \notin Due
          /\ \A r, q \in Sender :
               /\ job[r].stage = "push" /\ job[r].event = Pushed(n)
               /\ job[q].stage = "push" /\ job[q].event = Pushed(n)
               => r = q
      BY <2>1 DEF StreamInv, EventsAreOnce
    <3>2. \A r \in Sender : job'[r].stage = "push" => r # s /\ job'[r] = job[r]
      BY <1>17
    <3>3. e = Pushed(n) => Pushed(n) \notin Due'
      <4>1. e = Pushed(n) => \A r \in Sender :
              ~(job'[r].stage = "push" /\ job'[r].event = Pushed(n))
        BY <1>1, <3>1, <3>2 DEF e
      <4> QED BY <4>1 DEF Due
    <3>4. heard => /\ DOMAIN wire' = DOMAIN wire \union {Len(wire) + 1}
                   /\ \A i \in DOMAIN wire : wire'[i] = wire[i]
                   /\ wire'[Len(wire) + 1] = e
      BY <1>1, <1>2, <1>3, AppendWire DEF StreamTypeOK
    <3>5. ~heard => wire' = wire
      BY <1>1
    <3>6. CASE heard
      <4>1. e = Pushed(n) => \A i \in DOMAIN wire : wire[i] # Pushed(n)
        BY <1>17, <3>1
      <4> QED BY <1>17, <3>1, <3>2, <3>3, <3>4, <3>6, <4>1
    <3> QED BY <1>17, <3>1, <3>2, <3>5, <3>6
  <2>2. \A r \in Sender : job'[r].stage = "write" => job'[r] = job[r]
    BY <1>17
  <2> QED BY <1>1, <1>10, <2>1, <2>2 DEF StreamInv, EventsAreOnce
<1>12. ListensAsUser'
  BY <1>1, <1>2, <1>6, StreamAssumption DEF StreamInv, ListensAsUser, Listening, StreamTypeOK
<1>13. ASSUME NEW list, Follows(list), user # Nobody, ~missed PROVE Follows(list)'
  <2>1. \A m \in Note : m \in Listed(user)' <=> m \in Listed(user)
    BY <1>1 DEF Listed, Addressed
  <2>2. CASE heard
    <3>1. Coming' = Coming
      BY <1>1, <1>4, <1>17, <2>2 DEF Coming
    <3>2. /\ DOMAIN wire' = DOMAIN wire \union {Len(wire) + 1}
          /\ \A i \in DOMAIN wire : i < Len(wire) + 1 /\ wire'[i] = wire[i]
          /\ wire'[Len(wire) + 1] = e
      BY <1>1, <1>2, <1>3, <2>2, AppendWire DEF StreamTypeOK
    <3>3. ASSUME NEW n \in Note \ again, n \notin Listed(user), posted[n] # "removed"
          PROVE  \/ list[n] = 0 /\ \A i \in DOMAIN wire' : wire'[i] # Pushed(n)
                 \/ Revoked(n) \in Due'
                 \/ \E i \in DOMAIN wire' :
                      /\ wire'[i] = Revoked(n)
                      /\ \A j \in DOMAIN wire' : wire'[j] = Pushed(n) => j < i
      <4>1. CASE e = Revoked(n)
        <5>1. Revoked(n) # Pushed(n)
          BY DEF Revoked, Pushed
        <5> QED BY <3>2, <4>1, <5>1
      <4>2. CASE e = Pushed(n)
        <5>1. posted[n] \notin {"absent", "draft"} /\ e.note = n
          BY <1>17, <4>2 DEF StreamInv, EventsAreOnce, Coming, Pushed
        <5>2. posted[n] = "revoked"
          BY <1>2, <1>5, <2>2, <3>3, <5>1 DEF Listed, StreamTypeOK
        <5>3. Revoked(n) \in Due
          BY <1>5, <1>13, <2>2, <4>2, <5>1, <5>2 DEF missed
        <5>4. Revoked(n) # Pushed(n)
          BY DEF Revoked, Pushed
        <5> QED BY <1>17, <4>2, <5>3, <5>4
      <4>3. CASE e # Revoked(n) /\ e # Pushed(n)
        BY <1>1, <1>13, <1>17, <3>2, <3>3, <4>3 DEF Follows
      <4> QED BY <4>1, <4>2, <4>3
    <3> QED BY <1>1, <1>13, <2>1, <3>1, <3>3 DEF Follows
  <2>3. CASE ~heard
    <3>1. ~Addressed(e.note, user) /\ wire' = wire
      BY <1>1, <1>13, <2>3 DEF missed, heard
    <3>2. e.note \notin Listed(user) /\ e.note \in Note
      BY <1>3, <3>1 DEF Listed
    <3>3. \A m \in Note : m # e.note => Pushed(m) # e /\ Revoked(m) # e
      BY DEF Pushed, Revoked
    <3>4. e # Revoked(e.note)
      <4>1. SUFFICES ASSUME e = Revoked(e.note) PROVE FALSE
        OBVIOUS
      <4>2. to[e.note] = Everyone
        BY <1>17, <3>2, <4>1 DEF StreamInv, EventsAreOnce, Coming
      <4> QED BY <3>1, <4>2 DEF Addressed
    <3>5. \A m \in Note : Revoked(m) # e
      BY <3>3, <3>4, <3>2
    <3>6. \A m \in Note : m \in Listed(user) => (Pushed(m) \in Coming' <=> Pushed(m) \in Coming)
      BY <1>17, <3>1, <3>2, <3>3 DEF Coming
    <3>7. \A m \in Note : Revoked(m) \in Due => Revoked(m) \in Due'
      BY <1>17, <3>5
    <3> QED BY <1>1, <1>10, <1>13, <2>1, <3>1, <3>6, <3>7 DEF Follows
  <2> QED BY <2>2, <2>3
<1>14. user # Nobody \/ (behind /\ ~load.clean)
  BY DEF StreamInv, ListensAsUser
<1>15. (~behind => Follows(recent))'
  BY <1>1, <1>13, <1>14 DEF StreamInv
<1>16. (load.clean => Follows(Copies(load.answer)))'
  <2>1. load'.clean = (load.clean /\ ~missed) /\ load'.answer = load.answer
    BY <1>1, <1>2 DEF StreamTypeOK
  <2>2. Copies(load'.answer) = Copies(load.answer)
    BY <2>1
  <2> QED BY <1>13, <1>14, <2>1, <2>2 DEF StreamInv, Copies
<1> QED BY <1>8, <1>9, <1>11, <1>12, <1>15, <1>16 DEF StreamInv

LEMMA SubscribeInv ==
  ASSUME StreamInv, NEW c \in Connection, Subscribe(c)
  PROVE  StreamInv'
<1>1. /\ source.phase = "connecting" /\ ~conn[c].open
      /\ conn' = [conn EXCEPT ![c] = [open |-> TRUE, user |-> user, beating |-> TRUE]]
      /\ subjects' = [subjects EXCEPT ![user] = @ \union {c}]
      /\ source' = [phase |-> "open", conn |-> c]
      /\ UNCHANGED <<notes, stopped, user, wire, recent, load, behind>>
  BY DEF Subscribe
<1> USE DEF notes
<1>2. StreamTypeOK /\ user \in User
  BY <1>1 DEF StreamInv, StreamsRegistered, ListensAsUser
<1>3. StreamTypeOK'
  <2>1. source' \in [phase : {"none", "connecting", "open", "closed"},
                     conn : Connection \union {Nobody}]
        /\ source'.phase = "open" /\ source'.conn = c
    BY <1>1
  <2>2. subjects' \in [User -> SUBSET Connection]
    BY <1>1, <1>2 DEF StreamTypeOK
  <2>3. conn' \in [Connection -> [open : BOOLEAN, user : User \union {Nobody}, beating : BOOLEAN]]
    BY <1>1, <1>2 DEF StreamTypeOK
  <2> QED BY <1>1, <1>2, <2>1, <2>2, <2>3 DEF StreamTypeOK
<1>4. conn'[c].open /\ conn'[c].user = user /\ \A d \in Connection \ {c} : conn'[d] = conn[d]
  BY <1>1, <1>2 DEF StreamTypeOK
<1>5. StreamsRegistered'
  <2>1. ASSUME NEW u \in User, NEW d \in subjects'[u] PROVE conn'[d].open /\ conn'[d].user = u
    <3>1. CASE d \in subjects[u]
      <4>1. d \in Connection /\ conn[d].open /\ conn[d].user = u
        BY <1>2, <3>1 DEF StreamInv, StreamsRegistered, StreamTypeOK
      <4> QED BY <1>1, <1>4, <4>1
    <3>2. CASE d \notin subjects[u]
      BY <1>1, <1>2, <1>4, <2>1, <3>2 DEF StreamTypeOK
    <3> QED BY <3>1, <3>2
  <2>2. c \in subjects'[user]
    BY <1>1, <1>2 DEF StreamTypeOK
  <2>3. \A d \in Connection : Listening(d)' => d = c
    BY <1>1 DEF Listening
  <2> QED BY <1>1, <1>3, <2>1, <2>2, <2>3 DEF StreamsRegistered
<1>6. EventsAreOwn' /\ EventsAreOnce'
  BY <1>1, EventsKept
<1>7. ListensAsUser'
  BY <1>1, <1>2, <1>4, StreamAssumption DEF ListensAsUser, Listening
<1>8. (~behind => Follows(recent))' /\ (load.clean => Follows(Copies(load.answer)))'
  BY <1>1, FollowsKept
<1> QED BY <1>5, <1>6, <1>7, <1>8 DEF StreamInv

LEMMA FinalizeInv ==
  ASSUME StreamInv, NEW c \in Connection, Finalize(c)
  PROVE  StreamInv'
<1>1. /\ conn[c].open
      /\ subjects' = [subjects EXCEPT ![conn[c].user] = @ \ {c}]
      /\ conn' = [conn EXCEPT ![c] = Closed]
      /\ behind' = (behind \/ Listening(c))
      /\ load' = [load EXCEPT !.clean = @ /\ ~Listening(c)]
      /\ UNCHANGED <<notes, stopped, user, source, wire, recent>>
  BY DEF Finalize, Misses
<1> USE DEF notes
<1>2. StreamTypeOK
  BY DEF StreamInv, StreamsRegistered
<1>3. ~conn'[c].open /\ \A d \in Connection \ {c} : conn'[d] = conn[d]
  BY <1>1, <1>2 DEF StreamTypeOK, Closed
<1>4. StreamTypeOK'
  <2>1. conn' \in [Connection -> [open : BOOLEAN, user : User \union {Nobody}, beating : BOOLEAN]]
    BY <1>1, <1>2 DEF StreamTypeOK, Closed
  <2>2. subjects' \in [User -> SUBSET Connection]
    BY <1>1, <1>2 DEF StreamTypeOK
  <2>3. behind' \in BOOLEAN /\ load' \in [due : BOOLEAN, answer : SUBSET Note, clean : BOOLEAN]
    BY <1>1, <1>2 DEF StreamTypeOK, Listening
  <2> QED BY <1>1, <1>2, <2>1, <2>2, <2>3 DEF StreamTypeOK
<1>5. StreamsRegistered'
  <2>1. ASSUME NEW u \in User, NEW d \in subjects'[u] PROVE conn'[d].open /\ conn'[d].user = u
    <3>1. d \in subjects[u] /\ d \in Connection
      BY <1>1, <1>2, <2>1 DEF StreamTypeOK
    <3>2. conn[d].open /\ conn[d].user = u
      BY <3>1 DEF StreamInv, StreamsRegistered
    <3>3. d # c
      BY <1>1, <1>2, <2>1, <3>2 DEF StreamTypeOK
    <3> QED BY <1>3, <3>1, <3>2, <3>3
  <2>2. ASSUME ~stopped, NEW d \in Connection, Listening(d)', conn'[d].open
        PROVE  d \in subjects'[user]
    <3>1. d # c /\ conn[d].open /\ Listening(d)
      BY <1>1, <1>3, <2>2 DEF Listening
    <3>2. d \in subjects[user] /\ user \in User
      BY <2>2, <3>1 DEF StreamInv, StreamsRegistered, ListensAsUser, Listening
    <3> QED BY <1>1, <1>2, <3>1, <3>2 DEF StreamTypeOK
  <2> QED BY <1>1, <1>4, <2>1, <2>2 DEF StreamsRegistered
<1>6. EventsAreOwn' /\ EventsAreOnce'
  BY <1>1, EventsKept
<1>7. ListensAsUser'
  BY <1>1, <1>2, <1>3 DEF StreamInv, ListensAsUser, Listening, StreamTypeOK
<1>8. (~behind => Follows(recent))' /\ (load.clean => Follows(Copies(load.answer)))'
  <2>1. load'.clean = (load.clean /\ ~Listening(c)) /\ load'.answer = load.answer
    BY <1>1, <1>2 DEF StreamTypeOK
  <2> QED BY <1>1, <2>1, FollowsKept
<1> QED BY <1>5, <1>6, <1>7, <1>8 DEF StreamInv

LEMMA OnModuleDestroyInv ==
  ASSUME StreamInv, OnModuleDestroy
  PROVE  StreamInv'
<1>1. /\ stopped' = TRUE
      /\ subjects' = [u \in User |-> {}]
      /\ conn' = [c \in Connection |->
                    IF \E u \in User : c \in subjects[u]
                    THEN [conn[c] EXCEPT !.open = @ /\ conn[c].beating] ELSE conn[c]]
      /\ UNCHANGED <<notes, tab>>
  BY DEF OnModuleDestroy
<1> USE DEF notes, tab
<1>2. StreamTypeOK
  BY DEF StreamInv, StreamsRegistered
<1>3. \A c \in Connection : conn'[c].user = conn[c].user /\ (conn'[c].open => conn[c].open)
  BY <1>1, <1>2 DEF StreamTypeOK
<1>4. StreamTypeOK'
  <2>1. conn' \in [Connection -> [open : BOOLEAN, user : User \union {Nobody}, beating : BOOLEAN]]
    BY <1>1, <1>2 DEF StreamTypeOK
  <2> QED BY <1>1, <1>2, <2>1 DEF StreamTypeOK
<1>5. StreamsRegistered'
  BY <1>1, <1>4 DEF StreamsRegistered
<1>6. EventsAreOwn' /\ EventsAreOnce'
  BY <1>1, EventsKept
<1>7. ListensAsUser'
  BY <1>1, <1>3 DEF StreamInv, ListensAsUser, Listening
<1>8. (~behind => Follows(recent))' /\ (load.clean => Follows(Copies(load.answer)))'
  BY <1>1, FollowsKept
<1> QED BY <1>5, <1>6, <1>7, <1>8 DEF StreamInv

\* An interruption takes the events on their way with it.
LEMMA EventsDropped ==
  ASSUME StreamInv, UNCHANGED <<posted, to, again>>,
         job' = job \/ job' = [s \in Sender |-> NoJob], wire' = <<>>
  PROVE  EventsAreOwn' /\ EventsAreOnce'
<1>1. ToSet(wire') = {} /\ DOMAIN wire' = {}
  BY DEF ToSet
<1>2. \A s \in Sender : job'[s] = job[s] \/ job'[s].stage = "idle"
  BY DEF NoJob
<1>3. Due' \subseteq Due
  BY <1>2 DEF Due
<1>4. Coming' \subseteq Coming
  BY <1>1, <1>3 DEF Coming
<1> QED BY <1>1, <1>2, <1>4 DEF StreamInv, EventsAreOwn, EventsAreOnce

\* What Misses does when something is missed.
LEMMA MissesAll ==
  StreamTypeOK /\ Misses(TRUE) =>
    /\ behind' = TRUE
    /\ load' \in [due : BOOLEAN, answer : SUBSET Note, clean : BOOLEAN] /\ ~load'.clean
  BY DEF StreamTypeOK, Misses

LEMMA RestartInv == StreamInv /\ Restart => StreamInv'
<1> SUFFICES ASSUME StreamInv, Restart PROVE StreamInv'
  OBVIOUS
<1>1. StreamTypeOK
  BY DEF StreamInv, StreamsRegistered
<1>2. behind' = TRUE /\ ~load'.clean /\ wire' = <<>>
      /\ load' \in [due : BOOLEAN, answer : SUBSET Note, clean : BOOLEAN]
  BY <1>1, MissesAll DEF Restart
<1>3. /\ UNCHANGED <<posted, to, again, user, recent>> /\ stopped' = FALSE
      /\ job' = [s \in Sender |-> NoJob]
      /\ subjects' = [u \in User |-> {}] /\ conn' = [c \in Connection |-> Closed]
      /\ source' = IF source.phase = "open" THEN Connecting ELSE source
  BY DEF Restart
<1>4. source' \in [phase : {"none", "connecting", "open", "closed"},
                   conn : Connection \union {Nobody}] /\ source'.phase # "open"
      /\ source'.conn \notin Connection
  BY <1>1, <1>3, StreamAssumption DEF StreamTypeOK, Connecting
<1>5. StreamTypeOK'
  <2>1. conn' \in [Connection -> [open : BOOLEAN, user : User \union {Nobody}, beating : BOOLEAN]]
    BY <1>3 DEF Closed
  <2>2. wire' \in Seq(Event) /\ subjects' \in [User -> SUBSET Connection]
    BY <1>2, <1>3
  <2>3. job' \in [Sender -> [stage : {"idle", "write", "push"}, event : Event \union {Nobody}]]
        /\ \A s \in Sender : job'[s].stage = "idle"
    BY <1>3 DEF NoJob
  <2> QED BY <1>1, <1>2, <1>3, <1>4, <2>1, <2>2, <2>3 DEF StreamTypeOK
<1>6. StreamsRegistered'
  BY <1>3, <1>4, <1>5 DEF StreamsRegistered, Listening
<1>7. EventsAreOwn' /\ EventsAreOnce'
  BY <1>2, <1>3, EventsDropped
<1>8. ListensAsUser'
  BY <1>2, <1>3, <1>4 DEF StreamInv, ListensAsUser, Listening, Connecting
<1> QED BY <1>2, <1>6, <1>7, <1>8 DEF StreamInv

\* The tab's own steps leave the server alone; a tab that does not listen has
\* nothing to be registered for.
LEMMA TabInv ==
  ASSUME StreamInv, UNCHANGED <<notes, gateway>>, wire' = <<>> \/ UNCHANGED <<wire, user>>,
         source' \in {NoSource, Connecting, [phase |-> "closed", conn |-> Nobody]},
         source' # NoSource => user' \in User,
         user' \in User \union {Nobody}, recent' \in [Note -> Nat], behind' \in BOOLEAN,
         load' \in [due : BOOLEAN, answer : SUBSET Note, clean : BOOLEAN],
         user' = Nobody => behind' /\ ~load'.clean
  PROVE  StreamsRegistered' /\ EventsAreOwn' /\ EventsAreOnce' /\ ListensAsUser'
<1> USE DEF notes, gateway
<1>1. StreamTypeOK
  BY DEF StreamInv, StreamsRegistered
<1>2. source' \in [phase : {"none", "connecting", "open", "closed"},
                   conn : Connection \union {Nobody}]
      /\ source'.phase # "open" /\ source'.conn = Nobody
      /\ (source'.phase = "connecting" => user' \in User)
  BY DEF NoSource, Connecting
<1>3. StreamTypeOK'
  <2>1. wire' \in Seq(Event)
    <3>1. CASE wire' = <<>>
      BY <3>1
    <3>2. CASE wire' = wire
      BY <1>1, <3>2 DEF StreamTypeOK
    <3> QED BY <3>1, <3>2
  <2> QED BY <1>1, <1>2, <2>1, StreamAssumption DEF StreamTypeOK
<1>4. StreamsRegistered'
  BY <1>2, <1>3 DEF StreamInv, StreamsRegistered, Listening
<1>5. EventsAreOwn' /\ EventsAreOnce'
  BY EventsKept, EventsDropped
<1>6. ListensAsUser'
  BY <1>2 DEF ListensAsUser, Listening
<1> QED BY <1>4, <1>5, <1>6

LEMMA LoginInv ==
  ASSUME StreamInv, NEW u \in User, Login(u)
  PROVE  StreamInv'
<1>1. StreamTypeOK
  BY DEF StreamInv, StreamsRegistered
<1>2. wire = <<>>
  <2>1. ToSet(wire) = {}
    BY DEF Login, StreamInv, EventsAreOwn
  <2> QED BY <1>1, <2>1, TailWire DEF StreamTypeOK, ToSet
<1>3. behind' = TRUE /\ ~load'.clean
      /\ load' \in [due : BOOLEAN, answer : SUBSET Note, clean : BOOLEAN]
  BY <1>1, MissesAll DEF Login
<1> QED BY <1>1, <1>2, <1>3, TabInv, StreamAssumption DEF Login, StreamInv, StreamTypeOK

LEMMA LogoutInv == StreamInv /\ Logout => StreamInv'
<1> SUFFICES ASSUME StreamInv, Logout PROVE StreamInv'
  OBVIOUS
<1>1. StreamTypeOK
  BY DEF StreamInv, StreamsRegistered
<1>2. behind' = TRUE /\ ~load'.clean
      /\ load' \in [due : BOOLEAN, answer : SUBSET Note, clean : BOOLEAN]
  BY <1>1, MissesAll DEF Logout
<1> QED BY <1>1, <1>2, TabInv DEF Logout, StreamInv, StreamTypeOK

LEMMA ReloadInv == StreamInv /\ Reload => StreamInv'
<1> SUFFICES ASSUME StreamInv, Reload PROVE StreamInv'
  OBVIOUS
<1>1. StreamTypeOK
  BY DEF StreamInv, StreamsRegistered
<1>2. behind' = TRUE /\ ~load'.clean
      /\ load' \in [due : BOOLEAN, answer : SUBSET Note, clean : BOOLEAN]
      /\ recent' \in [Note -> Nat]
  BY DEF Reload, NoLoad
<1> QED BY <1>1, <1>2, TabInv DEF Reload, StreamInv, StreamTypeOK

LEMMA ReconnectInv == StreamInv /\ Reconnect => StreamInv'
<1> SUFFICES ASSUME StreamInv, Reconnect PROVE StreamInv'
  OBVIOUS
<1>1. StreamTypeOK /\ user \in User /\ user # Nobody
  BY StreamAssumption DEF Reconnect, StreamInv, StreamsRegistered, ListensAsUser
<1>2. /\ behind' = (behind \/ wire # <<>>)
      /\ load' = [load EXCEPT !.clean = @ /\ ~(wire # <<>>)]
      /\ source' = Connecting /\ wire' = <<>> /\ UNCHANGED <<notes, gateway, user, recent>>
  BY DEF Reconnect, Misses
<1>3. /\ load' \in [due : BOOLEAN, answer : SUBSET Note, clean : BOOLEAN]
      /\ load'.clean = (load.clean /\ wire = <<>>) /\ load'.answer = load.answer
      /\ behind' \in BOOLEAN
  BY <1>1, <1>2 DEF StreamTypeOK
<1>4. StreamsRegistered' /\ EventsAreOwn' /\ EventsAreOnce' /\ ListensAsUser'
  BY <1>1, <1>2, <1>3, TabInv DEF StreamTypeOK
<1>5. (~behind => Follows(recent))' /\ (load.clean => Follows(Copies(load.answer)))'
  BY <1>2, <1>3, FollowsKept
<1> QED BY <1>4, <1>5 DEF StreamInv

LEMMA RefuseInv == StreamInv /\ Refuse => StreamInv'
<1> SUFFICES ASSUME StreamInv, Refuse PROVE StreamInv'
  OBVIOUS
<1>1. StreamTypeOK /\ user \in User /\ user # Nobody
  BY StreamAssumption DEF Refuse, StreamInv, StreamsRegistered, ListensAsUser
<1>2. StreamsRegistered' /\ EventsAreOwn' /\ EventsAreOnce' /\ ListensAsUser'
  BY <1>1, TabInv DEF Refuse, StreamTypeOK
<1>3. (~behind => Follows(recent))' /\ (load.clean => Follows(Copies(load.answer)))'
  BY FollowsKept DEF Refuse
<1> QED BY <1>2, <1>3 DEF StreamInv

LEMMA ReceiveInv == StreamInv /\ Receive => StreamInv'
<1> SUFFICES ASSUME StreamInv, Receive PROVE StreamInv'
  OBVIOUS
<1> DEFINE e == Head(wire)
<1>1. /\ wire # <<>> /\ wire' = Tail(wire)
      /\ recent' = [recent EXCEPT ![e.note] = IF e.kind = "notification" THEN @ + 1 ELSE 0]
      /\ load' = [load EXCEPT !.clean = FALSE]
      /\ UNCHANGED <<notes, gateway, user, source, behind>>
  BY DEF Receive
<1> USE DEF notes, gateway
<1>2. StreamTypeOK
  BY DEF StreamInv, StreamsRegistered
<1>3. /\ wire' \in Seq(Event) /\ e = wire[1] /\ 1 \in DOMAIN wire
      /\ \A i \in DOMAIN wire' : i + 1 \in DOMAIN wire /\ wire'[i] = wire[i + 1]
      /\ \A i \in DOMAIN wire : i # 1 => i - 1 \in DOMAIN wire' /\ wire'[i - 1] = wire[i]
      /\ DOMAIN wire \subseteq Nat /\ DOMAIN wire' \subseteq Nat \ {0}
  BY <1>1, <1>2, TailWire DEF StreamTypeOK
<1>4. e \in Event /\ e.note \in Note
  <2>1. wire[1] \in Event
    BY <1>2, <1>3 DEF StreamTypeOK
  <2>2. \A x \in Event : x.note \in Note
    BY DEF Event
  <2> QED BY <1>3, <2>1, <2>2
<1> HIDE DEF e
<1>5. ~load'.clean /\ load' \in [due : BOOLEAN, answer : SUBSET Note, clean : BOOLEAN]
  BY <1>1, <1>2 DEF StreamTypeOK
<1>6. StreamTypeOK'
  <2>1. recent' \in [Note -> Nat]
    BY <1>1, <1>2, <1>4 DEF StreamTypeOK
  <2> QED BY <1>1, <1>2, <1>3, <1>5, <2>1 DEF StreamTypeOK
<1>7. StreamsRegistered'
  BY <1>1, <1>6 DEF StreamInv, StreamsRegistered, Listening
<1>8. ToSet(wire) = ToSet(wire') \union {e}
  <2>1. \A x \in ToSet(wire) : x = e \/ x \in ToSet(wire')
    BY <1>3 DEF ToSet
  <2>2. \A x \in ToSet(wire') : x \in ToSet(wire)
    BY <1>3 DEF ToSet
  <2>3. e \in ToSet(wire)
    BY <1>3 DEF ToSet
  <2> QED BY <2>1, <2>2, <2>3
<1>9. EventsAreOwn'
  BY <1>1, <1>8 DEF StreamInv, EventsAreOwn, Addressed
<1>10. EventsAreOnce'
  <2>1. \A n \in Note \ again : \A i, j \in DOMAIN wire' :
          wire'[i] = Pushed(n) /\ wire'[j] = Pushed(n) => i = j
    BY <1>3 DEF StreamInv, EventsAreOnce
  <2>2. \A n \in Note \ again : \A i \in DOMAIN wire' : wire'[i] = Pushed(n) => Pushed(n) \notin Due
    BY <1>3 DEF StreamInv, EventsAreOnce
  <2>3. Due' = Due /\ Coming' \subseteq Coming
    BY <1>1, <1>8 DEF Due, Coming
  <2> QED BY <1>1, <2>1, <2>2, <2>3 DEF StreamInv, EventsAreOnce
<1>11. ListensAsUser'
  BY <1>1, <1>5 DEF StreamInv, ListensAsUser, Listening
<1>12. Due' = Due /\ Coming = Coming' \union {e}
  BY <1>1, <1>8 DEF Due, Coming
<1>13. \A n \in Note : n \in Listed(user)' <=> n \in Listed(user)
  BY <1>1 DEF Listed, Addressed
<1>14. ASSUME ~behind PROVE Follows(recent)'
  <2>1. Follows(recent)
    BY <1>14 DEF StreamInv
  <2>2. ASSUME NEW n \in Note \ again
        PROVE  /\ recent'[n] \in IF Pushed(n) \in Coming' THEN {0} ELSE {0, 1}
               /\ n \in Listed(user) => recent'[n] = 1 \/ Pushed(n) \in Coming'
    <3>1. /\ recent[n] \in IF Pushed(n) \in Coming THEN {0} ELSE {0, 1}
          /\ n \in Listed(user) => recent[n] = 1 \/ Pushed(n) \in Coming
      BY <2>1, <2>2 DEF Follows
    <3>2. CASE e = Pushed(n)
      <4>1. Pushed(n) \notin Due /\ \A i \in DOMAIN wire' : wire'[i] # Pushed(n)
        <5>1. /\ \A i, j \in DOMAIN wire : wire[i] = Pushed(n) /\ wire[j] = Pushed(n) => i = j
              /\ \A i \in DOMAIN wire : wire[i] = Pushed(n) => Pushed(n) \notin Due
          BY <2>2 DEF StreamInv, EventsAreOnce
        <5>2. wire[1] = Pushed(n) /\ 1 \in DOMAIN wire
          BY <1>3, <3>2
        <5>3. \A i \in DOMAIN wire' : i + 1 \in DOMAIN wire /\ wire'[i] = wire[i + 1] /\ i + 1 # 1
          BY <1>3
        <5> QED BY <5>1, <5>2, <5>3
      <4>2. Pushed(n) \in Coming /\ Pushed(n) \notin Coming'
        BY <1>12, <3>2, <4>1 DEF Coming, ToSet
      <4>3. recent'[n] = 1
        BY <1>1, <1>2, <3>1, <3>2, <4>2 DEF StreamTypeOK, Pushed
      <4> QED BY <4>2, <4>3
    <3>3. CASE e = Revoked(n)
      <4>1. recent'[n] = 0
        BY <1>1, <1>2, <2>2, <3>3 DEF StreamTypeOK, Revoked
      <4>2. posted[n] # "published"
        BY <1>12, <2>2, <3>3 DEF StreamInv, EventsAreOnce
      <4> QED BY <4>1, <4>2 DEF Listed
    <3>4. CASE e # Pushed(n) /\ e # Revoked(n)
      <4>1. e.note # n
        BY <1>4, <3>4 DEF Event, Pushed, Revoked
      <4>2. recent'[n] = recent[n]
        BY <1>1, <1>2, <4>1 DEF StreamTypeOK
      <4> QED BY <1>12, <3>1, <3>4, <4>2
    <3> QED BY <3>2, <3>3, <3>4
  <2>3. ASSUME NEW n \in Note \ again, n \notin Listed(user), posted[n] # "removed"
        PROVE  \/ recent'[n] = 0 /\ \A i \in DOMAIN wire' : wire'[i] # Pushed(n)
               \/ Revoked(n) \in Due'
               \/ \E i \in DOMAIN wire' :
                    /\ wire'[i] = Revoked(n)
                    /\ \A j \in DOMAIN wire' : wire'[j] = Pushed(n) => j < i
    <3>1. CASE recent[n] = 0 /\ \A i \in DOMAIN wire : wire[i] # Pushed(n)
      <4>1. e # Pushed(n)
        BY <1>3, <3>1
      <4>2. recent'[n] = 0
        BY <1>1, <1>2, <1>4, <3>1, <4>1 DEF StreamTypeOK, Event, Pushed
      <4> QED BY <1>3, <3>1, <4>2
    <3>2. CASE Revoked(n) \in Due
      BY <1>12, <3>2
    <3>3. CASE \E i \in DOMAIN wire :
                 /\ wire[i] = Revoked(n)
                 /\ \A j \in DOMAIN wire : wire[j] = Pushed(n) => j < i
      <4>1. PICK i \in DOMAIN wire :
              /\ wire[i] = Revoked(n)
              /\ \A j \in DOMAIN wire : wire[j] = Pushed(n) => j < i
        BY <3>3
      <4>2. CASE i = 1
        <5>1. e.note = n /\ e.kind # "notification"
          BY <1>3, <4>1, <4>2 DEF Revoked
        <5>2. recent'[n] = 0
          BY <1>1, <1>2, <5>1 DEF StreamTypeOK
        <5>3. \A j \in DOMAIN wire' : wire'[j] # Pushed(n)
          BY <1>3, <4>1, <4>2
        <5> QED BY <5>2, <5>3
      <4>3. CASE i # 1
        <5>1. i - 1 \in DOMAIN wire' /\ wire'[i - 1] = Revoked(n)
          BY <1>3, <4>1, <4>3
        <5>2. \A j \in DOMAIN wire' : wire'[j] = Pushed(n) => j < i - 1
          BY <1>3, <4>1
        <5> QED BY <5>1, <5>2
      <4> QED BY <4>2, <4>3
    <3> QED BY <2>1, <2>3, <3>1, <3>2, <3>3 DEF Follows
  <2> QED BY <1>1, <1>13, <2>2, <2>3 DEF Follows
<1> QED BY <1>1, <1>5, <1>7, <1>9, <1>10, <1>11, <1>14 DEF StreamInv

LEMMA OpenDrawerInv == StreamInv /\ OpenDrawer => StreamInv'
<1> SUFFICES ASSUME StreamInv, OpenDrawer PROVE StreamInv'
  OBVIOUS
<1>1. /\ user # Nobody
      /\ load'.answer = Listed(user)
      /\ load'.clean => \A e \in Coming : ~Addressed(e.note, user)
      /\ load' \in [due : BOOLEAN, answer : SUBSET Note, clean : BOOLEAN]
      /\ UNCHANGED <<notes, gateway, user, source, wire, recent, behind>>
  BY DEF OpenDrawer, Listed
<1> USE DEF notes, gateway
<1>2. StreamTypeOK
  BY DEF StreamInv, StreamsRegistered
<1>3. StreamTypeOK'
  BY <1>1, <1>2 DEF StreamTypeOK
<1>4. StreamsRegistered'
  BY <1>1, <1>3 DEF StreamInv, StreamsRegistered, Listening
<1>5. EventsAreOwn' /\ EventsAreOnce'
  BY <1>1, EventsKept
<1>6. ListensAsUser'
  BY <1>1 DEF StreamInv, ListensAsUser, Listening
<1>7. (~behind => Follows(recent))'
  BY <1>1, FollowsKept
<1>8. ASSUME load'.clean PROVE Follows(Copies(load.answer))'
  <2>1. \A n \in Note : Addressed(n, user) => Pushed(n) \notin Coming
    BY <1>1, <1>8 DEF Pushed
  <2>2. \A i \in DOMAIN wire : ~Addressed(wire[i].note, user)
    BY <1>1, <1>8 DEF Coming, ToSet
  <2>3. wire = <<>>
    BY <1>2, <2>2, TailWire DEF StreamInv, EventsAreOwn, StreamTypeOK, ToSet
  <2>4. DOMAIN wire' = {}
    BY <1>1, <2>3
  <2>5. \A n \in Note : Copies(load'.answer)[n] = IF n \in Listed(user) THEN 1 ELSE 0
    BY <1>1 DEF Copies
  <2>6. \A n \in Note : n \in Listed(user)' <=> n \in Listed(user)
    BY <1>1 DEF Listed, Addressed
  <2>7. \A n \in Listed(user) : Pushed(n) \notin Coming'
    BY <1>1, <2>1 DEF Listed, Coming, Due
  <2>8. \A n \in Note : Copies(load.answer)'[n] = Copies(load'.answer)[n]
    BY DEF Copies
  <2> QED BY <2>4, <2>5, <2>6, <2>7, <2>8 DEF Follows
<1> QED BY <1>4, <1>5, <1>6, <1>7, <1>8 DEF StreamInv

LEMMA LoadNotificationsInv == StreamInv /\ LoadNotifications => StreamInv'
<1> SUFFICES ASSUME StreamInv, LoadNotifications PROVE StreamInv'
  OBVIOUS
<1>1. /\ ~load'.clean /\ load' \in [due : BOOLEAN, answer : SUBSET Note, clean : BOOLEAN]
      /\ \/ recent' = Copies(load.answer) /\ behind' = ~load.clean
         \/ UNCHANGED <<recent, behind>>
      /\ UNCHANGED <<notes, gateway, user, source, wire>>
  BY DEF LoadNotifications, NoLoad
<1> USE DEF notes, gateway
<1>2. StreamTypeOK
  BY DEF StreamInv, StreamsRegistered
<1>3. StreamTypeOK'
  <2>1. recent' \in [Note -> Nat] /\ behind' \in BOOLEAN
    <3>1. CASE recent' = Copies(load.answer) /\ behind' = ~load.clean
      BY <3>1 DEF Copies
    <3>2. CASE UNCHANGED <<recent, behind>>
      BY <1>2, <3>2 DEF StreamTypeOK
    <3> QED BY <1>1, <3>1, <3>2
  <2> QED BY <1>1, <1>2, <2>1 DEF StreamTypeOK
<1>4. StreamsRegistered'
  BY <1>1, <1>3 DEF StreamInv, StreamsRegistered, Listening
<1>5. EventsAreOwn' /\ EventsAreOnce'
  BY <1>1, EventsKept
<1>6. ListensAsUser'
  <2>1. user = Nobody => behind /\ ~load.clean
    BY DEF StreamInv, ListensAsUser
  <2>2. user = Nobody => behind'
    <3>1. CASE recent' = Copies(load.answer) /\ behind' = ~load.clean
      BY <2>1, <3>1, Zenon
    <3>2. CASE UNCHANGED <<recent, behind>>
      BY <2>1, <3>2
    <3> QED BY <1>1, <3>1, <3>2
  <2> QED BY <1>1, <2>2 DEF StreamInv, ListensAsUser, Listening
<1>7. (~behind => Follows(recent))'
  <2>1. CASE recent' = Copies(load.answer) /\ behind' = ~load.clean
    <3>1. load.clean => Follows(Copies(load.answer))
      BY DEF StreamInv
    <3>2. Due' = Due /\ Coming' = Coming
      BY <1>1 DEF Due, Coming
    <3>3. \A n \in Note : n \in Listed(user)' <=> n \in Listed(user)
      BY <1>1 DEF Listed, Addressed
    <3>4. \A n \in Note : recent'[n] = Copies(load.answer)[n]
      BY <2>1
    <3>5. load.clean => Follows(recent)'
      BY <1>1, <3>1, <3>2, <3>3, <3>4 DEF Follows
    <3>6. ~behind' => load.clean
      BY <2>1, Zenon
    <3> QED BY <3>5, <3>6
  <2>2. CASE UNCHANGED <<recent, behind>>
    BY <1>1, <2>2, FollowsKept
  <2> QED BY <1>1, <2>1, <2>2
<1> QED BY <1>1, <1>4, <1>5, <1>6, <1>7 DEF StreamInv

LEMMA StutterInv == StreamInv /\ UNCHANGED streamVars => StreamInv'
<1> SUFFICES ASSUME StreamInv, UNCHANGED streamVars PROVE StreamInv'
  OBVIOUS
<1> USE DEF streamVars, notes, gateway, tab
<1>1. StreamsRegistered'
  BY DEF StreamInv, StreamsRegistered, StreamTypeOK, Listening
<1>2. EventsAreOwn' /\ EventsAreOnce' /\ (load.clean => Follows(Copies(load.answer)))'
      /\ (~behind => Follows(recent))'
  BY EventsKept, FollowsKept
<1>3. ListensAsUser'
  BY DEF StreamInv, ListensAsUser, Listening
<1> QED BY <1>1, <1>2, <1>3 DEF StreamInv

\* Every step of the service, the gateway and the tab keeps the invariant.
LEMMA NextInv == StreamInv /\ [StreamNext]_streamVars => StreamInv'
<1> SUFFICES ASSUME StreamInv, [StreamNext]_streamVars PROVE StreamInv'
  OBVIOUS
<1> QED
  BY CreateInv, CheckStatusInv, StoreInv, DeleteInv, BroadcastInv, SubscribeInv, FinalizeInv,
     OnModuleDestroyInv, RestartInv, LoginInv, LogoutInv, ReloadInv, ReconnectInv, RefuseInv, ReceiveInv,
     OpenDrawerInv, LoadNotificationsInv, StutterInv
  DEF StreamNext

THEOREM StreamInvariant == StreamSpec => []StreamInv
  BY InitInv, NextInv, PTL DEF StreamSpec

\* The gateway's lists hold the open connections of their account, and the one
\* a tab listens to is among them until a shutdown.
THEOREM RegisteredStreams == StreamSpec => []StreamsRegistered
<1>1. StreamInv => StreamsRegistered
  BY DEF StreamInv
<1> QED BY <1>1, StreamInvariant, PTL

\* No event reaches a tab for an account that has logged out of it.
THEOREM OwnEvents == StreamSpec => []EventsAreOwn
<1>1. StreamInv => EventsAreOwn
  BY DEF StreamInv
<1> QED BY <1>1, StreamInvariant, PTL

\* After a clean load a tab's list follows the server's for as long as its
\* stream stays open, whatever is published, revoked and deleted in whatever
\* order: only what was deleted may stay, and what was published when it was no
\* longer a draft is not spoken of.
THEOREM FollowingList == StreamSpec => []ListFollows
<1>1. StreamInv => ListFollows
  BY DEF StreamInv, ListFollows, Follows, Coming, ToSet
<1> QED BY <1>1, StreamInvariant, PTL
=============================================================================
