---------------------------- MODULE EditDialogs ----------------------------
(***************************************************************************)
(* The edit dialogs of the role page and of the user page, over the rows   *)
(* RoleService and UserService keep: which menus a role has, which         *)
(* department, posts and roles a user has.                                 *)
(*                                                                         *)
(* Opening a dialog asks the server for the links of the row, and nothing  *)
(* ties the answer to the dialog that is on screen when it comes.  The     *)
(* role page opens its dialog with the answer and fills it with nothing    *)
(* when the request fails; the user page opens it at once.  A picture that *)
(* has been uploaded brings back the form it was chosen in.  A save sends  *)
(* what the form holds; its success closes whatever dialog is open.        *)
(*                                                                         *)
(* One page is open at a time.  What an earlier visit left in flight can   *)
(* only change rows, as other administrators do.                           *)
(***************************************************************************)
EXTENDS FiniteSets

CONSTANTS
    Holder,     \* the roles, or the users, the page edits
    Item,       \* what they are linked to: menus, or departments, posts and roles
    DeptItem,   \* the departments among them
    PostItem,   \* the posts among them
    Fetch,      \* the requests for a row that can be in flight at once
    Nobody      \* no role and no user

ASSUME DialogsAssumption ==
    DeptItem \subseteq Item /\ PostItem \subseteq Item \ DeptItem /\ Nobody \notin Holder

VARIABLES
    page,     \* which of the two pages it is
    row,      \* the rows: whether they exist, and their links
    dialog,   \* the form on screen: editingRole, selectedMenuIds and dialogOpen
    fetch,    \* the row each request in flight asks for
    save,     \* the save in flight
    avatar,   \* the picture on its way to the server, and the form it was chosen in
    sure      \* history: what the administrator saw and chose, with nothing crossing it

dialogVars == <<page, row, dialog, fetch, save, avatar, sure>>

-----------------------------------------------------------------------------
Links == SUBSET Item
RowState == [status : {"absent", "present", "removed"}, items : Links]
Absent == [status |-> "absent", items |-> {}]
DialogState == [open : BOOLEAN, of : Holder \union {Nobody}, chosen : Links]
SaveState == [busy : BOOLEAN, of : Holder \union {Nobody}, items : Links]
AvatarState == [busy : BOOLEAN, form : Links]
SureState == [known : BOOLEAN, of : Holder \union {Nobody}, wanted : Links]

Exists(h) == row[h].status = "present"
InFlight == {l \in Fetch : fetch[l] # Nobody}

\* Nothing that can change the form is still to be answered, or nothing at all.
Still == InFlight = {} /\ ~avatar.busy
Quiet == Still /\ ~save.busy

ResetForm == [open |-> FALSE, of |-> Nobody, chosen |-> {}]
NoAvatar == [busy |-> FALSE, form |-> {}]
NoSave == [busy |-> FALSE, of |-> Nobody, items |-> {}]
NotSure == [known |-> FALSE, of |-> Nobody, wanted |-> {}]
SureIf(known, of, wanted) ==
    IF known THEN [known |-> TRUE, of |-> of, wanted |-> wanted] ELSE NotSure

DialogsInit ==
    /\ page \in {"roles", "users"}
    /\ row = [h \in Holder |-> Absent]
    /\ dialog = ResetForm
    /\ fetch = [l \in Fetch |-> Nobody]
    /\ save = NoSave
    /\ avatar = NoAvatar
    /\ sure = NotSure

-----------------------------------------------------------------------------
(* The page.  A dialog is modal: the list behind it takes no clicks.        *)

\* handleEdit up to its await.  The role page keeps its dialog closed and the
\* old selection in it.
ClickEdit(l, h) ==
    /\ ~dialog.open /\ fetch[l] = Nobody /\ row[h].status # "absent"
    /\ fetch' = [fetch EXCEPT ![l] = h]
    /\ dialog' = IF page = "users" THEN [open |-> TRUE, of |-> h, chosen |-> {}]
                                   ELSE [dialog EXCEPT !.of = h]
    /\ sure' = SureIf(Quiet, h, {})
    /\ UNCHANGED <<page, row, save, avatar>>

\* Mutant of OpenForm: handleCreate opens the dialog as it was left.
OpenFormAsLeft == [dialog EXCEPT !.open = TRUE, !.of = Nobody]

\* handleCreate: resetForm, then the dialog.
OpenForm == [ResetForm EXCEPT !.open = TRUE]

ClickCreate ==
    /\ ~dialog.open
    /\ dialog' = OpenForm
    /\ sure' = SureIf(Quiet, Nobody, {})
    /\ UNCHANGED <<page, row, fetch, save, avatar>>

\* What the answer to a fetch, and its failure, make of the form.
Filled(items) ==
    IF page = "roles" THEN [dialog EXCEPT !.open = TRUE, !.chosen = items]
                      ELSE [dialog EXCEPT !.chosen = items]
NotFilled ==
    IF page = "roles" THEN [dialog EXCEPT !.open = TRUE, !.chosen = {}] ELSE dialog

\* handleEdit after its await, whatever dialog it finds.  (The server's reading
\* and the arrival are one step: a later change of the row shows neither way.)
Answered(l) ==
    /\ l \in InFlight /\ Exists(fetch[l])
    /\ dialog' = Filled(row[fetch[l]].items)
    /\ sure' = IF fetch[l] = sure.of THEN SureIf(sure.known, sure.of, row[fetch[l]].items) ELSE sure
    /\ fetch' = [fetch EXCEPT ![l] = Nobody]
    /\ UNCHANGED <<page, row, save, avatar>>

\* The request fails or the row is gone: the form does not say so.
NotAnswered(l) ==
    /\ l \in InFlight
    /\ dialog' = NotFilled
    /\ sure' = NotSure
    /\ fetch' = [fetch EXCEPT ![l] = Nobody]
    /\ UNCHANGED <<page, row, save, avatar>>

\* The administrator changes what is on screen, and means to change "wanted".
Choose(chosen, wanted) ==
    /\ dialog.open
    /\ dialog' = [dialog EXCEPT !.chosen = chosen]
    /\ sure' = SureIf(sure.known /\ Still, sure.of, wanted)
    /\ UNCHANGED <<page, row, fetch, save, avatar>>

Flip(items, i) == IF i \in items THEN items \ {i} ELSE items \union {i}

ToggleMenu(i) == page = "roles" /\ Choose(Flip(dialog.chosen, i), Flip(sure.wanted, i))
SelectAll == page = "roles" /\ Choose(Item, Item)
DeselectAll == page = "roles" /\ Choose({}, {})

\* The user page offers the department only: posts and roles go back as they came.
WithDept(items, d) == (items \ DeptItem) \union {d}
SelectDept(d) ==
    /\ page = "users"
    /\ Choose(WithDept(dialog.chosen, d), WithDept(sure.wanted, d))

\* A picture is chosen: handleUpload keeps the form of that moment in onChange.
ChoosePicture ==
    /\ page = "users" /\ dialog.open /\ ~avatar.busy
    /\ avatar' = [busy |-> TRUE, form |-> dialog.chosen]
    /\ sure' = SureIf(sure.known /\ Still, sure.of, sure.wanted)
    /\ UNCHANGED <<page, row, dialog, fetch, save>>

\* Its answer puts that form back, in whatever dialog it finds.
PictureStored ==
    /\ avatar.busy
    /\ dialog' = [dialog EXCEPT !.chosen = avatar.form]
    /\ avatar' = NoAvatar
    /\ UNCHANGED <<page, row, fetch, save, sure>>

PictureFails ==
    /\ avatar.busy
    /\ avatar' = NoAvatar
    /\ UNCHANGED <<page, row, dialog, fetch, save, sure>>

Cancel ==
    /\ dialog.open
    /\ dialog' = [dialog EXCEPT !.open = FALSE]
    /\ UNCHANGED <<page, row, fetch, save, avatar, sure>>

-----------------------------------------------------------------------------
(* Saving.                                                                  *)

\* The button is disabled while a save is in flight.  (The one that removes a
\* picture has no type and submits the form too: that it also does so during a
\* save is left out.)
Submit ==
    /\ dialog.open /\ ~save.busy
    /\ save' = [busy |-> TRUE, of |-> dialog.of, items |-> dialog.chosen]
    /\ UNCHANGED <<page, row, dialog, fetch, avatar, sure>>

\* The user page sends the links of a kind only if there is one.
Replaced(old, new, kind) ==
    IF new \intersect kind = {} THEN old \intersect kind ELSE new \intersect kind

\* The links of the row after the save.
Updated(old, new) ==
    IF page = "roles"
    THEN new
    ELSE UNION {Replaced(old, new, kind) :
                    kind \in {DeptItem, PostItem, Item \ (DeptItem \union PostItem)}}

\* The user page sends none of them for a new user.
Created(new) == IF page = "roles" THEN new ELSE {}

\* One statement, after checks that only make a save fail.
StoreSave ==
    \/ /\ save.of = Nobody
       /\ \E h \in Holder :
            /\ row[h] = Absent
            /\ row' = [row EXCEPT ![h] = [status |-> "present", items |-> Created(save.items)]]
    \/ /\ save.of # Nobody /\ Exists(save.of)
       /\ row' = [row EXCEPT ![save.of].items = Updated(@, save.items)]

\* onSuccess: the dialog is closed and reset, whichever it is by now.
SaveSucceeds ==
    /\ save.busy
    /\ StoreSave
    /\ dialog' = ResetForm
    /\ sure' = NotSure
    /\ save' = NoSave
    /\ UNCHANGED <<page, fetch, avatar>>

\* The save fails, or its answer is lost.
SaveFails ==
    /\ save.busy
    /\ StoreSave \/ UNCHANGED row
    /\ save' = NoSave
    /\ UNCHANGED <<page, dialog, fetch, avatar, sure>>

-----------------------------------------------------------------------------
(* The other administrators.                                                *)

\* Creations and updates.
WriteElsewhere(h) ==
    /\ row[h].status # "removed"
    /\ \E items \in Links : row' = [row EXCEPT ![h] = [status |-> "present", items |-> items]]
    /\ UNCHANGED <<page, dialog, fetch, save, avatar, sure>>

RemoveElsewhere(h) ==
    /\ Exists(h)
    /\ row' = [row EXCEPT ![h] = [status |-> "removed", items |-> {}]]
    /\ UNCHANGED <<page, dialog, fetch, save, avatar, sure>>

DialogsNext ==
    \/ \E l \in Fetch : Answered(l) \/ NotAnswered(l) \/ \E h \in Holder : ClickEdit(l, h)
    \/ ClickCreate \/ SelectAll \/ DeselectAll \/ Cancel \/ Submit \/ SaveSucceeds \/ SaveFails
    \/ ChoosePicture \/ PictureStored \/ PictureFails
    \/ \E i \in Item : ToggleMenu(i)
    \/ \E d \in DeptItem : SelectDept(d)
    \/ \E h \in Holder : WriteElsewhere(h) \/ RemoveElsewhere(h)

DialogsSpec == DialogsInit /\ [][DialogsNext]_dialogVars

-----------------------------------------------------------------------------
(* Properties.                                                              *)

DialogsTypeOK ==
    /\ page \in {"roles", "users"}
    /\ row \in [Holder -> RowState]
    /\ dialog \in DialogState
    /\ fetch \in [Fetch -> Holder \union {Nobody}]
    /\ save \in SaveState
    /\ avatar \in AvatarState
    /\ sure \in SureState

\* The form of an administrator who waits for every answer before the next
\* click is the one of the row that was clicked, and holds what was loaded for
\* it and changed since: nothing of a dialog before it is left, however that
\* one ended.
FormIsOwn ==
    /\ DialogsTypeOK
    /\ dialog.open /\ sure.known /\ InFlight = {} =>
          dialog.of = sure.of /\ dialog.chosen = sure.wanted

\* The inductive invariant of the proofs.
DialogsInv ==
    /\ FormIsOwn
    /\ sure.known =>
          /\ dialog.of = sure.of
          /\ \A l \in InFlight : fetch[l] = sure.of
          /\ avatar.busy => InFlight = {} /\ avatar.form = sure.wanted

-----------------------------------------------------------------------------
\* The dialog for a new user says its fields are filled in to create the
\* account.  The department among them is not sent.
NewRowsAreAsFilledIn ==
    [][SaveSucceeds /\ save.of = Nobody =>
          \E h \in Holder : row[h] = Absent /\ row'[h].items = save.items]_dialogVars
=============================================================================
