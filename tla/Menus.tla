------------------------------- MODULE Menus -------------------------------
(***************************************************************************)
(* The menu tree: MenuService, the dialogs of the menu page, and what      *)
(* AuthService.getUserMenus makes of the tree for the sidebar of a user.   *)
(*                                                                         *)
(* Nothing on the server keeps a menu from being moved below itself.  The  *)
(* page leaves the menu and what is below it out of the places it offers,  *)
(* in the tree it was loaded with.  A tree from the cache, or one shown    *)
(* for a while, is a dialog opened earlier.                                *)
(*                                                                         *)
(* Which menus a role grants is EditDialogs'; here every set of menus can  *)
(* be granted.  Types, names and the order of siblings are left out.       *)
(***************************************************************************)
EXTENDS Naturals, FiniteSets, SequencesExt

CONSTANTS
    Menu,      \* the menus that can be created
    Desk,      \* the administrators' dialogs and removals that can be open at once
    Top        \* no parent

ASSUME MenusAssumption == IsFiniteSet(Menu) /\ Top \notin Menu

VARIABLES
    menu,      \* the menu rows
    desk,      \* the open dialogs, and the removals past their check
    overtaken  \* history: menus put where they are from a tree that was out of date

menuVars == <<menu, desk, overtaken>>

-----------------------------------------------------------------------------
Spot == Menu \union {Top}
MenuRow == [status : {"absent", "ACTIVE", "INACTIVE"}, parent : Spot]
NoMenu == [status |-> "absent", parent |-> Top]

DeskState == [task : {"none", "edit", "remove"}, menu : Spot, options : SUBSET Menu, late : BOOLEAN]
NoTask == [task |-> "none", menu |-> Top, options |-> {}, late |-> FALSE]

Rows == {m \in Menu : menu[m].status # "absent"}
Active == {m \in Menu : menu[m].status = "ACTIVE"}

\* An id is used again only when nothing refers to it.
FreeId(m) ==
    m \notin Rows /\ \A d \in Desk : desk[d].menu # m /\ m \notin desk[d].options

MenusInit ==
    /\ menu = [m \in Menu |-> NoMenu]
    /\ desk = [d \in Desk |-> NoTask]
    /\ overtaken = {}

-----------------------------------------------------------------------------
(* Trees.                                                                   *)

\* What buildTree hangs below the "nodes" of one level: the least set with them
\* and with every row whose parent it has.
Grown(rows, nodes) ==
    {m \in rows \union nodes :
        \A S \in SUBSET (rows \union nodes) :
            nodes \subseteq S /\ (\A c \in rows : menu[c].parent \in S => c \in S) => m \in S}

\* buildTree: the rows it reaches from the top.
Tree(rows) == Grown(rows, {Top}) \ {Top}

\* Mutant of DescendantIds: only the menu itself.
OnlyItself(m) == {m}

\* getDescendantIds: a menu of the tree and what is below it.
DescendantIds(m) == Grown(Rows, {m})

\* getParentMenuOptions
ParentMenuOptions(m) == Tree(Rows) \ DescendantIds(m)

-----------------------------------------------------------------------------
(* Administration.                                                          *)

\* The row and the foreign key are one statement.
CreateMenu(m) ==
    /\ FreeId(m)
    /\ \E p \in Rows \union {Top}, s \in {"ACTIVE", "INACTIVE"} :
          menu' = [menu EXCEPT ![m] = [status |-> s, parent |-> p]]
    /\ UNCHANGED <<desk, overtaken>>

OpenEdit(d, m) ==
    /\ desk[d].task = "none" /\ m \in Tree(Rows)
    /\ desk' = [desk EXCEPT ![d] = [NoTask EXCEPT !.task = "edit", !.menu = m,
                                                  !.options = ParentMenuOptions(m)]]
    /\ UNCHANGED <<menu, overtaken>>

\* "No parent" is sent as no field at all, which leaves the parent as it is.
ParentSent(chosen, old) == IF chosen = Top THEN old ELSE chosen

\* A move puts every other open dialog behind.
Behind(d) ==
    desk' = [e \in Desk |-> CASE e = d -> NoTask
                              [] e # d /\ desk[e].task = "edit" -> [desk[e] EXCEPT !.late = TRUE]
                              [] OTHER -> desk[e]]

SubmitEdit(d, chosen) ==
    LET m == desk[d].menu
        parent == ParentSent(chosen, menu[m].parent) IN
    /\ desk[d].task = "edit" /\ chosen \in desk[d].options \union {Top}
    /\ m \in Rows /\ parent \in Rows \union {Top}
    /\ \E s \in {"ACTIVE", "INACTIVE"} :
          menu' = [menu EXCEPT ![m] = [status |-> s, parent |-> parent]]
    /\ IF parent = menu[m].parent
       THEN desk' = [desk EXCEPT ![d] = NoTask] /\ UNCHANGED overtaken
       ELSE /\ Behind(d)
            /\ overtaken' = IF desk[d].late THEN overtaken \union {m} ELSE overtaken \ {m}

\* Closed without a save.  A save that fails leaves the dialog open.
CloseEdit(d) ==
    /\ desk[d].task = "edit"
    /\ desk' = [desk EXCEPT ![d] = NoTask]
    /\ UNCHANGED <<menu, overtaken>>

\* remove, up to its check for children.
BeginRemoveMenu(d, m) ==
    /\ desk[d].task = "none" /\ m \in Rows
    /\ \A c \in Rows : menu[c].parent # m
    /\ desk' = [desk EXCEPT ![d] = [NoTask EXCEPT !.task = "remove", !.menu = m]]
    /\ UNCHANGED <<menu, overtaken>>

\* The deletion, or an error if the row is gone.  The foreign key of a menu put
\* below it meanwhile becomes null.
DeleteMenu(d) ==
    LET gone == desk[d].menu IN
    /\ desk[d].task = "remove"
    /\ menu' = [m \in Menu |-> CASE m = gone -> NoMenu
                                 [] m # gone /\ menu[m].parent = gone -> [menu[m] EXCEPT !.parent = Top]
                                 [] OTHER -> menu[m]]
    /\ desk' = [desk EXCEPT ![d] = NoTask]
    /\ overtaken' = overtaken \ {gone}

MenusNext ==
    \/ \E m \in Menu : CreateMenu(m)
    \/ \E d \in Desk :
        \/ CloseEdit(d) \/ DeleteMenu(d)
        \/ \E m \in Menu : OpenEdit(d, m) \/ BeginRemoveMenu(d, m)
        \/ \E p \in Spot : SubmitEdit(d, p)

MenusSpec == MenusInit /\ [][MenusNext]_menuVars

-----------------------------------------------------------------------------
(* The sidebar.                                                             *)

\* menuMap.get(m)?.parentId ?? null
ParentInMap == [m \in Menu |-> IF m \in Active THEN menu[m].parent ELSE Top]

\* What is met on the way up from m, as long as it is in "rows", once each.
Upwards(rows, parent, m) ==
    {p \in rows :
        \A S \in SUBSET rows :
            (\A q \in S \union {m} : parent[q] \in rows => parent[q] \in S) => p \in S}

\* Mutant of WithParents: one step up.
WithParent(ids, m) == ids \union ({ParentInMap[m]} \ {Top})

\* The ids, completed with the parents of m: upwards until one is there already.
WithParents(ids, m) == ids \union Upwards(Menu \ ids, ParentInMap, m)

\* getUserMenus for the menus a user's roles grant, in the order the set is
\* walked through.
UserMenus(granted) ==
    LET ids[n \in 0 .. Len(granted)] ==
          IF n = 0 THEN ToSet(granted) ELSE WithParents(ids[n - 1], granted[n])
    IN  Tree(Active \intersect ids[Len(granted)])

-----------------------------------------------------------------------------
(* Properties.                                                              *)

MenusTypeOK ==
    /\ menu \in [Menu -> MenuRow]
    /\ desk \in [Desk -> DeskState]
    /\ overtaken \subseteq Menu

\* The menus above m among "rows".
Above(rows, m) == Upwards(rows, [n \in Menu |-> menu[n].parent], m)

\* Every menu is in the tree the page shows, unless a menu above it was moved
\* by a dialog that another move had overtaken: one administrator, and several
\* who take turns, cannot lose a part of the tree.
TreeIsWhole ==
    /\ MenusTypeOK
    /\ \A m \in Rows \ Tree(Rows) :
          \E p \in Above(Rows, m) : p \in Above(Rows, p) /\ Above(Rows, p) \intersect overtaken # {}

\* A user sees the active menus granted by his roles and the way down to them,
\* as far as it is active up to the top, in whatever order the ids come.
SidebarIsComplete ==
    (\A d \in Desk : desk[d].task = "none") =>
        \A granted \in SUBSET Rows :
            LET shown == {m \in Active :
                            /\ \E g \in granted \intersect Active : m \in Above(Active, g) \union {g}
                            /\ \E r \in Above(Active, m) \union {m} : menu[r].parent = Top}
            IN  \A order \in SetToSeqs(granted) : UserMenus(order) = shown
=============================================================================
