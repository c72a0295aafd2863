---------------------------- MODULE Departments ----------------------------
(***************************************************************************)
(* The department tree and the users in it: DeptService, and UserService   *)
(* as far as it puts users into departments.                               *)
(*                                                                         *)
(* A handler awaits each statement, so any other request may run between   *)
(* its checks and its write.  A foreign key is set to null when the row it *)
(* names is deleted.  The cached trees are kept the way Dictionary keeps   *)
(* its cache and are left out.                                             *)
(***************************************************************************)
EXTENDS Integers, FiniteSets

CONSTANTS
    Editor,    \* the requests that can be in flight at once
    Dept,      \* the departments that can be created
    Name,      \* the names of departments
    Staff,     \* the users
    Root,      \* no parent, no department, no name
    Keep       \* a field an update leaves out

ASSUME DepartmentsAssumption ==
    /\ Root \notin Dept \union Name
    /\ Keep \notin Dept \union Name \union {Root}

VARIABLES
    dept,      \* the department rows
    place,     \* the users' departments
    edit,      \* the requests in flight
    unplaced   \* history: departments whose place was never checked as it is

deptVars == <<dept, place, edit, unplaced>>

-----------------------------------------------------------------------------
Place == Dept \union {Root}
NameOrNone == Name \union {Root}
DeptRow == [status : {"absent", "present", "removed"}, parent : Place, name : NameOrNone]
NoDept == [status |-> "absent", parent |-> Root, name |-> Root]

\* What a request asks for (to and name are the fields it sends), the parent
\* and name it takes the department to have afterwards, and whether another
\* write has overtaken what it looked at.
EditState ==
    [op : {"create", "update", "remove"},
     stage : {"idle", "checkSibling", "children", "users", "write"},
     dept : Place, to : Place \union {Keep}, name : NameOrNone \union {Keep},
     place : Place, called : NameOrNone, overtaken : BOOLEAN]

NoEdit == [op |-> "create", stage |-> "idle", dept |-> Root, to |-> Keep, name |-> Keep,
           place |-> Root, called |-> Root, overtaken |-> FALSE]

Known == {d \in Dept : dept[d].status # "absent"}
Present == {d \in Dept : dept[d].status = "present"}
Children(d) == {e \in Present : dept[e].parent = d}
StaffOf(d) == {u \in Staff : place[u] = d}

Editing(r, stage) == edit[r].stage = stage
Proceed(r, stage) == edit' = [edit EXCEPT ![r].stage = stage]
Stop(r) == edit' = [edit EXCEPT ![r] = NoEdit]

\* Has a request looked at the tree, or at a department's users?
LookedAtTree(e) ==
    e.stage \in {"users", "write"} \/ (e.stage = "checkSibling" /\ e.op = "update")
LookedAtUsers(e) == e.stage = "write" /\ e.op = "remove"

\* The write of r: what the overtaken requests have looked at is out of date.
StopOvertaking(r) ==
    edit' = [q \in Editor |->
               IF q = r THEN NoEdit ELSE [edit[q] EXCEPT !.overtaken = @ \/ LookedAtTree(edit[q])]]

DeptInit ==
    /\ dept = [d \in Dept |-> NoDept]
    /\ place = [u \in Staff |-> Root]
    /\ edit = [r \in Editor |-> NoEdit]
    /\ unplaced = {}

-----------------------------------------------------------------------------
(* Requests arrive, and make their first statement: one that it stops has   *)
(* no effect.                                                               *)

\* The departments in the way of d as "name" below p.
SameName(d, p, name) == {e \in Children(p) \ {d} : dept[e].name = name}

BeginEdit(r, asked) ==
    /\ Editing(r, "idle")
    /\ edit' = [edit EXCEPT ![r] = asked]
    /\ UNCHANGED <<dept, place, unplaced>>

BeginCreateDept(r) ==
    \E to \in Known \union {Root}, n \in Name :
        /\ SameName(Root, to, n) = {}
        /\ BeginEdit(r, [NoEdit EXCEPT !.op = "create", !.stage = "write", !.to = to, !.name = n])

Given(field, old) == IF field = Keep THEN old ELSE field

\* Mutant of Checked: a department that is only moved is not compared.
CheckedIfNamed(to, name) == name # Keep

\* Is an update with these fields compared with its siblings?
Checked(to, name) == to # Keep \/ name # Keep

BeginUpdateDept(r) ==
    \E d \in Present, to \in Known \union {Root, Keep}, n \in Name \union {Keep} :
        LET asked == [NoEdit EXCEPT !.op = "update", !.dept = d, !.to = to, !.name = n] IN
        IF Checked(to, n)
        THEN BeginEdit(r, [asked EXCEPT !.stage = "checkSibling",
                                    !.place = Given(to, dept[d].parent),
                                    !.called = Given(n, dept[d].name)])
        ELSE BeginEdit(r, [asked EXCEPT !.stage = "write"])

BeginRemoveDept(r) ==
    \E d \in Present : BeginEdit(r, [NoEdit EXCEPT !.op = "remove", !.stage = "children", !.dept = d])

\* The statement that saves a user puts it into a department or takes it out;
\* it fails for a department that is gone.
AssignUser(u) ==
    \E d \in Present \union {Root} :
        /\ place' = [place EXCEPT ![u] = d]
        /\ edit' = [q \in Editor |->
                      [edit[q] EXCEPT !.overtaken = @ \/ (d # Root /\ LookedAtUsers(edit[q]))]]
        /\ UNCHANGED <<dept, unplaced>>

-----------------------------------------------------------------------------
(* DeptService.                                                             *)

CheckSibling(r) ==
    LET e == edit[r] IN
    /\ Editing(r, "checkSibling")
    /\ IF SameName(e.dept, e.place, e.called) # {} THEN Stop(r)
       ELSE edit' = [edit EXCEPT ![r] = [@ EXCEPT !.stage = "write",
                                                  !.place = Root, !.called = Root]]
    /\ UNCHANGED <<dept, place, unplaced>>

\* Writes the row of d for r.  A parent that is gone makes the statement fail.
WriteRow(r, d, row, checked) ==
    /\ \/ /\ row.parent \in Present \union {Root}
          /\ dept' = [dept EXCEPT ![d] = row]
          /\ unplaced' = CASE ~checked -> unplaced
                           [] checked /\ edit[r].overtaken -> unplaced \union {d}
                           [] checked /\ ~edit[r].overtaken -> unplaced \ {d}
          /\ StopOvertaking(r)
       \/ /\ row.parent \notin Present \union {Root}
          /\ Stop(r) /\ UNCHANGED <<dept, unplaced>>
    /\ UNCHANGED place

WriteNew(r) ==
    LET e == edit[r] IN
    /\ Editing(r, "write") /\ e.op = "create"
    /\ \E d \in Dept \ Known :
          WriteRow(r, d, [status |-> "present", parent |-> e.to, name |-> e.name], TRUE)

\* The row is named by its id alone: only its removal makes the statement fail.
WriteChange(r) ==
    LET e == edit[r] IN
    /\ Editing(r, "write") /\ e.op = "update" /\ e.dept \in Present
    /\ WriteRow(r, e.dept,
                [dept[e.dept] EXCEPT !.parent = Given(e.to, @), !.name = Given(e.name, @)],
                Checked(e.to, e.name))

\* Dept bounds the departments.
FailDeptWrite(r) ==
    /\ Editing(r, "write")
    /\ IF edit[r].op = "create" THEN Known = Dept ELSE edit[r].dept \notin Present
    /\ Stop(r)
    /\ UNCHANGED <<dept, place, unplaced>>

CheckChildren(r) ==
    /\ Editing(r, "children")
    /\ IF Children(edit[r].dept) # {} THEN Stop(r) ELSE Proceed(r, "users")
    /\ UNCHANGED <<dept, place, unplaced>>

\* Mutant of CheckUsers: nobody looks for the department's users.
CheckUsersNot(r) ==
    /\ Editing(r, "users")
    /\ Proceed(r, "write")
    /\ UNCHANGED <<dept, place, unplaced>>

CheckUsers(r) ==
    /\ Editing(r, "users")
    /\ IF StaffOf(edit[r].dept) # {} THEN Stop(r) ELSE Proceed(r, "write")
    /\ UNCHANGED <<dept, place, unplaced>>

\* Mutant of Removed: the foreign key of the children is left as it is.
RemovedAlone(d) == [dept EXCEPT ![d].status = "removed"]

\* Children that got there meanwhile become roots.
Removed(d) ==
    [e \in Dept |-> IF e = d THEN [dept[e] EXCEPT !.status = "removed"]
                    ELSE IF e \in Children(d) THEN [dept[e] EXCEPT !.parent = Root] ELSE dept[e]]

DeleteRow(r) ==
    LET d == edit[r].dept IN
    /\ Editing(r, "write") /\ edit[r].op = "remove" /\ d \in Present
    /\ dept' = Removed(d)
    /\ place' = [u \in Staff |-> IF place[u] = d THEN Root ELSE place[u]]
    /\ unplaced' = (unplaced \union Children(d)) \ {d}
    /\ StopOvertaking(r)

DeptNext ==
    \/ \E u \in Staff : AssignUser(u)
    \/ \E r \in Editor :
        \/ BeginCreateDept(r) \/ BeginUpdateDept(r) \/ BeginRemoveDept(r)
        \/ CheckSibling(r) \/ WriteNew(r) \/ WriteChange(r) \/ FailDeptWrite(r)
        \/ CheckChildren(r) \/ CheckUsers(r) \/ DeleteRow(r)

DeptSpec == DeptInit /\ [][DeptNext]_deptVars

-----------------------------------------------------------------------------
(* Properties.                                                              *)

DeptTypeOK ==
    /\ dept \in [Dept -> DeptRow]
    /\ place \in [Staff -> Place]
    /\ edit \in [Editor -> EditState]
    /\ unplaced \subseteq Dept

\* No department hangs below one that is gone, and no user is in one: rows are
\* deleted and moved by requests that looked at each other earlier.
NothingDangles ==
    /\ DeptTypeOK
    /\ \A d \in Present : dept[d].parent \in Present \union {Root}
    /\ \A u \in Staff : place[u] \in Present \union {Root}

\* Two departments below one parent have different names, unless one of them
\* came there by a write that another one had overtaken.
SiblingsDiffer ==
    \A d, e \in Present \ unplaced :
        d # e /\ dept[d].parent = dept[e].parent => dept[d].name # dept[e].name

\* A department that has children or users is not deleted, unless they got
\* there after the request had looked for them.
RemovalIsChecked ==
    [][\A d \in Dept :
         /\ dept[d].status = "present" /\ dept'[d].status = "removed"
         /\ Children(d) # {} \/ StaffOf(d) # {}
         => \E r \in Editor : edit[r].dept = d /\ edit[r].overtaken]_deptVars
=============================================================================
