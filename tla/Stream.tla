------------------------------- MODULE Stream -------------------------------
(***************************************************************************)
(* The push of notifications: the service's broadcasts, the subjects of    *)
(* NotificationGateway, and one tab with its EventSource and the list of   *)
(* recent notifications in its store.                                      *)
(*                                                                         *)
(* A connection has two ends that learn of each other's departure late, a  *)
(* broadcast follows the write it reports, which follows the check it      *)
(* rests on, a deletion is not pushed at all, and the list is filled from  *)
(* two sides: by pushed events and by the answers of the drawer's          *)
(* requests.  The list is a number of copies per notification; it stays    *)
(* shorter than one page of the drawer.                                    *)
(***************************************************************************)
EXTENDS Naturals, Sequences, SequencesExt

CONSTANTS
    User,        \* the accounts that log in at the tab
    Everyone,    \* the addressee of an announcement
    Nobody,      \* no account: logged out
    Note,        \* the notifications
    Sender,      \* the requests that write notifications at once
    Connection   \* the connections that can be open at once

ASSUME StreamAssumption ==
    Everyone \notin User /\ Nobody \notin User \union Connection /\ Everyone # Nobody

VARIABLES
    posted,    \* the status of each notification
    to,        \* the addressee of each notification
    job,       \* what each sender has still to write and to push
    again,     \* history: published when it was no longer a draft
    subjects,  \* NotificationGateway.subjects, connections for subjects
    conn,      \* the connections as the server sees them
    stopped,   \* has onModuleDestroy run?
    user,      \* the account logged in at the tab
    source,    \* the tab's EventSource
    recent,    \* recentNotifications, as copies per notification
    wire,      \* the events on their way to the EventSource, while it is open
    load,      \* the answer to the drawer's request for the list, on its way
    behind     \* history: the list may have missed something

notes == <<posted, to, job, again>>
gateway == <<subjects, conn, stopped>>
tab == <<user, source, wire, recent, load, behind>>
streamVars == <<notes, gateway, tab>>

-----------------------------------------------------------------------------
Pushed(n) == [kind |-> "notification", note |-> n]
Revoked(n) == [kind |-> "announcement-revoked", note |-> n]
Event == [kind : {"notification", "announcement-revoked"}, note : Note]

NoJob == [stage |-> "idle", event |-> Nobody]
Closed == [open |-> FALSE, user |-> Nobody, beating |-> FALSE]
NoSource == [phase |-> "none", conn |-> Nobody]
Connecting == [phase |-> "connecting", conn |-> Nobody]
NoLoad == [due |-> FALSE, answer |-> {}, clean |-> FALSE]

Listening(c) == source.phase = "open" /\ source.conn = c
Addressed(n, u) == to[n] \in {u, Everyone}
Listed(u) == {n \in Note : posted[n] = "published" /\ Addressed(n, u)}

\* The events whose write is done and whose push is not.
Due == {job[s].event : s \in {s \in Sender : job[s].stage = "push"}}

\* The events that will still reach the tab, as far as it is connected.
Coming == Due \union ToSet(wire)

\* A list that holds each notification of an answer once.
Copies(answer) == [n \in Note |-> IF n \in answer THEN 1 ELSE 0]

StreamInit ==
    /\ posted = [n \in Note |-> "absent"] /\ to = [n \in Note |-> Nobody]
    /\ job = [s \in Sender |-> NoJob] /\ again = {}
    /\ subjects = [u \in User |-> {}]
    /\ conn = [c \in Connection |-> Closed]
    /\ stopped = FALSE
    /\ user = Nobody /\ source = NoSource /\ wire = <<>>
    /\ recent = [n \in Note |-> 0]
    /\ load = NoLoad
    /\ behind = TRUE

\* The list loses touch, and so does a request that is on its way.
Misses(missed) ==
    /\ behind' = (behind \/ missed)
    /\ load' = [load EXCEPT !.clean = @ /\ ~missed]

-----------------------------------------------------------------------------
(* The service: a check, the write and its push, other requests between.    *)

\* sendNotification, and createAnnouncement with either status.
Create(s, n) ==
    /\ job[s].stage = "idle" /\ posted[n] = "absent"
    /\ \/ /\ \E u \in User \union {Everyone} : to' = [to EXCEPT ![n] = u]
          /\ posted' = [posted EXCEPT ![n] = "published"]
          /\ job' = [job EXCEPT ![s] = [stage |-> "push", event |-> Pushed(n)]]
       \/ /\ to' = [to EXCEPT ![n] = Everyone]
          /\ posted' = [posted EXCEPT ![n] = "draft"]
          /\ UNCHANGED job
    /\ UNCHANGED <<again, gateway, tab>>

\* publishAnnouncement finds a draft, revokeAnnouncement a published one.
CheckStatus(s, n) ==
    /\ job[s].stage = "idle" /\ to[n] = Everyone
    /\ \/ /\ posted[n] = "draft"
          /\ job' = [job EXCEPT ![s] = [stage |-> "write", event |-> Pushed(n)]]
       \/ /\ posted[n] = "published"
          /\ job' = [job EXCEPT ![s] = [stage |-> "write", event |-> Revoked(n)]]
    /\ UNCHANGED <<posted, to, again, gateway, tab>>

\* The update names the row by its id alone, whatever its status is by now:
\* a second publication is written and pushed, one over a revocation too.
\* Only a deleted row makes it fail.
Store(s) ==
    LET e == job[s].event IN
    /\ job[s].stage = "write"
    /\ \/ /\ posted[e.note] # "removed"
          /\ posted' = [posted EXCEPT ![e.note] =
                            IF e.kind = "notification" THEN "published" ELSE "revoked"]
          /\ again' = again \union
                {n \in Note : e = Pushed(n) /\ posted[n] # "draft"}
          /\ job' = [job EXCEPT ![s].stage = "push"]
       \/ /\ posted[e.note] = "removed"
          /\ job' = [job EXCEPT ![s] = NoJob]
          /\ UNCHANGED <<posted, again>>
    /\ UNCHANGED <<to, gateway, tab>>

\* removeAnnouncement, the clean-up job, and the owner of a message from
\* another tab delete the row.  Nothing is pushed.
Delete(n) ==
    /\ posted[n] \notin {"absent", "removed"}
    /\ posted' = [posted EXCEPT ![n] = "removed"]
    /\ UNCHANGED <<to, job, again, gateway, tab>>

Targets(e) ==
    IF to[e.note] = Everyone THEN UNION {subjects[u] : u \in User} ELSE subjects[to[e.note]]

\* Mutant of Broadcast: an event goes to one connection of its account only.
BroadcastOne(s) ==
    LET e == job[s].event IN
    /\ job[s].stage = "push"
    /\ job' = [job EXCEPT ![s] = NoJob]
    /\ IF Targets(e) = {} THEN UNCHANGED <<conn, wire>>
       ELSE \E d \in Targets(e) :
              /\ conn' = [conn EXCEPT ![d].beating = FALSE]
              /\ wire' = IF Listening(d) THEN Append(wire, e) ELSE wire
    /\ Misses(user # Nobody /\ Addressed(e.note, user) /\ \A c \in Targets(e) : ~Listening(c))
    /\ UNCHANGED <<posted, to, again, subjects, stopped, user, source, recent>>

\* next() on the subjects of the addressee.  takeUntil(subject) ends the
\* heartbeat with the first value.  The tab misses what is pushed while it is
\* not registered, and a push that comes after the revocation it precedes.
Broadcast(s) ==
    LET e == job[s].event IN
    /\ job[s].stage = "push"
    /\ job' = [job EXCEPT ![s] = NoJob]
    /\ conn' = [c \in Connection |-> [conn[c] EXCEPT !.beating = @ /\ c \notin Targets(e)]]
    /\ wire' = IF \E c \in Targets(e) : Listening(c) THEN Append(wire, e) ELSE wire
    /\ Misses(/\ user # Nobody /\ Addressed(e.note, user)
              /\ \/ \A c \in Targets(e) : ~Listening(c)
                 \/ e = Pushed(e.note) /\ posted[e.note] = "revoked" /\ Revoked(e.note) \notin Due)
    /\ UNCHANGED <<posted, to, again, subjects, stopped, user, source, recent>>

-----------------------------------------------------------------------------
(* The gateway.                                                             *)

\* subscribe, for the account of the cookies the request came with.
Subscribe(c) ==
    /\ source.phase = "connecting" /\ ~conn[c].open
    /\ conn' = [conn EXCEPT ![c] = [open |-> TRUE, user |-> user, beating |-> TRUE]]
    /\ subjects' = [subjects EXCEPT ![user] = @ \union {c}]
    /\ source' = [phase |-> "open", conn |-> c]
    /\ UNCHANGED <<notes, stopped, user, wire, recent, load, behind>>

\* Mutant of Finalize: the account's entry is deleted with its connection.
FinalizeAccount(c) ==
    /\ conn[c].open
    /\ subjects' = [subjects EXCEPT ![conn[c].user] = {}]
    /\ conn' = [conn EXCEPT ![c] = Closed]
    /\ Misses(Listening(c))
    /\ UNCHANGED <<notes, stopped, user, source, wire, recent>>

\* The server learns that a connection is gone, before the tab does or after.
Finalize(c) ==
    /\ conn[c].open
    /\ subjects' = [subjects EXCEPT ![conn[c].user] = @ \ {c}]
    /\ conn' = [conn EXCEPT ![c] = Closed]
    /\ Misses(Listening(c))
    /\ UNCHANGED <<notes, stopped, user, source, wire, recent>>

\* complete() ends the events of a stream; the stream ends if its heartbeat
\* has, for takeUntil does not end with its notifier.
OnModuleDestroy ==
    /\ ~stopped
    /\ stopped' = TRUE
    /\ subjects' = [u \in User |-> {}]
    /\ conn' = [c \in Connection |->
                  IF \E u \in User : c \in subjects[u]
                  THEN [conn[c] EXCEPT !.open = @ /\ conn[c].beating] ELSE conn[c]]
    /\ UNCHANGED <<notes, tab>>

\* The process ends, with or without notice, and another one starts.
Restart ==
    /\ stopped' = FALSE
    /\ job' = [s \in Sender |-> NoJob]
    /\ subjects' = [u \in User |-> {}]
    /\ conn' = [c \in Connection |-> Closed]
    /\ source' = IF source.phase = "open" THEN Connecting ELSE source
    /\ wire' = <<>>
    /\ Misses(TRUE)
    /\ UNCHANGED <<posted, to, again, user, recent>>

-----------------------------------------------------------------------------
(* The tab.                                                                 *)

Login(u) ==
    /\ user = Nobody
    /\ user' = u
    /\ source' = Connecting
    /\ Misses(TRUE)
    /\ UNCHANGED <<notes, gateway, wire, recent>>

\* Mutant of Logout: the effect's clean-up leaves the EventSource open.
LogoutOpen ==
    /\ user # Nobody
    /\ user' = Nobody
    /\ Misses(TRUE)
    /\ UNCHANGED <<notes, gateway, source, wire, recent>>

\* The effect's clean-up closes the EventSource; the store keeps the list.
Logout ==
    /\ user # Nobody
    /\ user' = Nobody
    /\ source' = NoSource /\ wire' = <<>>
    /\ Misses(TRUE)
    /\ UNCHANGED <<notes, gateway, recent>>

Reload ==
    /\ user # Nobody
    /\ source' = Connecting /\ wire' = <<>>
    /\ recent' = [n \in Note |-> 0]
    /\ load' = NoLoad
    /\ behind' = TRUE
    /\ UNCHANGED <<notes, gateway, user>>

\* The tab notices that its connection is gone, and connects again by itself.
Reconnect ==
    /\ source.phase = "open"
    /\ source' = Connecting /\ wire' = <<>>
    /\ Misses(wire # <<>>)
    /\ UNCHANGED <<notes, gateway, user, recent>>

\* An answer other than 200, such as a 401 for expired cookies, ends the
\* EventSource for good: onerror does nothing while isAuthenticated.
Refuse ==
    /\ source.phase = "connecting"
    /\ source' = [phase |-> "closed", conn |-> Nobody]
    /\ UNCHANGED <<notes, gateway, user, wire, recent, load, behind>>

\* addNotification and removeNotification; what arrives while an answer is on
\* its way is overwritten by it.
Receive ==
    /\ wire # <<>>
    /\ LET e == Head(wire) IN
       recent' = [recent EXCEPT ![e.note] = IF e.kind = "notification" THEN @ + 1 ELSE 0]
    /\ wire' = Tail(wire)
    /\ load' = [load EXCEPT !.clean = FALSE]
    /\ UNCHANGED <<notes, gateway, user, source, behind>>

\* The list is read.  The answer is clean if no event about it is still to come
\* and the tab is registered for the next.
OpenDrawer ==
    /\ user # Nobody /\ ~load.due
    /\ load' = [due |-> TRUE, answer |-> Listed(user),
                clean |-> /\ \A e \in Coming : ~Addressed(e.note, user)
                          /\ \E c \in subjects[user] : Listening(c)]
    /\ UNCHANGED <<notes, gateway, user, source, wire, recent, behind>>

\* setRecentNotifications, after a logout too; a lost answer changes nothing.
LoadNotifications ==
    /\ load.due
    /\ load' = NoLoad
    /\ \/ /\ recent' = Copies(load.answer)
          /\ behind' = ~load.clean
       \/ UNCHANGED <<recent, behind>>
    /\ UNCHANGED <<notes, gateway, user, source, wire>>

StreamNext ==
    \/ \E s \in Sender, n \in Note : Create(s, n) \/ CheckStatus(s, n)
    \/ \E s \in Sender : Store(s) \/ Broadcast(s)
    \/ \E n \in Note : Delete(n)
    \/ \E c \in Connection : Subscribe(c) \/ Finalize(c)
    \/ OnModuleDestroy \/ Restart
    \/ \E u \in User : Login(u)
    \/ Logout \/ Reload \/ Reconnect \/ Refuse \/ Receive
    \/ OpenDrawer \/ LoadNotifications

StreamSpec == StreamInit /\ [][StreamNext]_streamVars

-----------------------------------------------------------------------------
(* Properties.                                                              *)

StreamTypeOK ==
    /\ posted \in [Note -> {"absent", "draft", "published", "revoked", "removed"}]
    /\ to \in [Note -> User \union {Everyone, Nobody}]
    /\ job \in [Sender -> [stage : {"idle", "write", "push"}, event : Event \union {Nobody}]]
    /\ \A s \in Sender : job[s].stage # "idle" => job[s].event \in Event
    /\ again \subseteq Note
    /\ subjects \in [User -> SUBSET Connection]
    /\ conn \in [Connection -> [open : BOOLEAN, user : User \union {Nobody}, beating : BOOLEAN]]
    /\ stopped \in BOOLEAN /\ behind \in BOOLEAN
    /\ user \in User \union {Nobody}
    /\ source \in [phase : {"none", "connecting", "open", "closed"},
                   conn : Connection \union {Nobody}]
    /\ source.phase = "open" <=> source.conn \in Connection
    /\ wire \in Seq(Event)
    /\ recent \in [Note -> Nat]
    /\ load \in [due : BOOLEAN, answer : SUBSET Note, clean : BOOLEAN]

\* The gateway's lists hold the open connections of their account and no other,
\* and a stream the tab listens to is on the list although connections it left
\* behind are taken off late.  Only a shutdown empties the lists.
StreamsRegistered ==
    /\ StreamTypeOK
    /\ \A u \in User : \A c \in subjects[u] : conn[c].open /\ conn[c].user = u
    /\ ~stopped =>
         \A c \in Connection : Listening(c) /\ conn[c].open => c \in subjects[user]

\* What is on its way to a tab is meant for the account logged in there.
EventsAreOwn == \A e \in ToSet(wire) : user # Nobody /\ Addressed(e.note, user)

\* The list of a tab whose stream has stayed open since a clean load is what
\* the server would answer, the events still to come applied: no notification
\* twice, each one the server lists, and no other, except that a deleted one
\* may stay, for a deletion is not pushed.  Not said of a notification that was
\* published when it was no longer a draft: its check and its write are two
\* statements, so it may be pushed twice, and a revocation be pushed after it.
\* A load that crossed a push, a push that a revocation overtook, and every
\* interruption are left to the next load.
ListFollows ==
    user # Nobody /\ ~behind =>
      \A n \in Note \ again :
        /\ recent[n] \in IF Pushed(n) \in Coming THEN {0} ELSE {0, 1}
        /\ n \in Listed(user) => recent[n] = 1 \/ Pushed(n) \in Coming
        /\ recent[n] = 1 =>
             n \in Listed(user) \/ posted[n] = "removed" \/ Revoked(n) \in Coming

\* What is kept for ListFollows.  Who is past a check found an announcement
\* published once or a draft.  An event is about a notification that has got
\* that far, and unless it was published again it is pushed once.
EventsAreOnce ==
    /\ \A n \in Note : posted[n] = "absent" <=> to[n] = Nobody
    /\ \A n \in Note : posted[n] \in {"draft", "revoked"} => to[n] = Everyone
    /\ \A s \in Sender : job[s].stage = "write" =>
        /\ to[job[s].event.note] = Everyone
        /\ job[s].event.kind = "announcement-revoked" => posted[job[s].event.note] # "draft"
    /\ \A n \in Note : Pushed(n) \in Coming => posted[n] \notin {"absent", "draft"}
    /\ \A n \in Note : Revoked(n) \in Coming =>
        /\ to[n] = Everyone
        /\ posted[n] \in {"revoked", "removed"} \/ (n \in again /\ posted[n] = "published")
    /\ \A n \in Note \ again :
        /\ \A i, j \in DOMAIN wire : wire[i] = Pushed(n) /\ wire[j] = Pushed(n) => i = j
        /\ \A i \in DOMAIN wire : wire[i] = Pushed(n) => Pushed(n) \notin Due
        /\ \A r, s \in Sender :
             /\ job[r].stage = "push" /\ job[r].event = Pushed(n)
             /\ job[s].stage = "push" /\ job[s].event = Pushed(n)
             => r = s

\* The tab listens as the account that is logged in.
ListensAsUser ==
    /\ source.phase \in {"open", "connecting"} => user \in User
    /\ \A c \in Connection : Listening(c) /\ conn[c].open => conn[c].user = user
    /\ user = Nobody => behind /\ ~load.clean

\* Once the events on their way are applied, and the due ones after them, a
\* list of so many copies is right.
Follows(list) ==
    \A n \in Note \ again :
      /\ list[n] \in IF Pushed(n) \in Coming THEN {0} ELSE {0, 1}
      /\ n \in Listed(user) => list[n] = 1 \/ Pushed(n) \in Coming
      /\ n \notin Listed(user) /\ posted[n] # "removed" =>
           \/ list[n] = 0 /\ \A i \in DOMAIN wire : wire[i] # Pushed(n)
           \/ Revoked(n) \in Due
           \/ \E i \in DOMAIN wire :
                /\ wire[i] = Revoked(n)
                /\ \A j \in DOMAIN wire : wire[j] = Pushed(n) => j < i

StreamInv ==
    /\ StreamsRegistered /\ EventsAreOwn /\ EventsAreOnce /\ ListensAsUser
    /\ ~behind => Follows(recent)
    /\ load.clean => Follows(Copies(load.answer))

\* What notification.gateway.ts says of the heartbeat: it is sent every 30
\* seconds and keeps the connection; a registered stream has one.
HeartbeatKept == \A u \in User : \A c \in subjects[u] : conn[c].beating
=============================================================================
