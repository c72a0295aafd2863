------------------------ MODULE AdministrationProofs ------------------------
(***************************************************************************)
(* What Dictionary, Departments, Accounts and EditDialogs guarantee for    *)
(* any number of rows and requests: each has its inductive invariant and   *)
(* its theorems.                                                           *)
(***************************************************************************)
EXTENDS Dictionary, Departments, Accounts, EditDialogs, FiniteSetTheorems, SequenceTheorems, TLAPS

-----------------------------------------------------------------------------
(* Accounts.                                                                *)

LEMMA AccountInitInv == AccountInit => AdministratorsRemain
  BY DEF AccountInit, AdministratorsRemain, AccountTypeOK, Admins, TxState, NoTx, Role,
         RoleOrUnset

\* A write takes an administrator away only if its transaction still sees two.
LEMMA AccountWriteInv ==
  ASSUME AdministratorsRemain, NEW t \in Transaction, Write(t)
  PROVE  AdministratorsRemain'
<1> DEFINE x == tx[t]
<1>1. /\ AccountTypeOK /\ x \in TxState /\ x.account \in Account
      /\ role[x.account] \in Role /\ role[x.account] = x.was
      /\ Demotes(x, x.was) => Cardinality(Admins) > 1
  BY DEF AdministratorsRemain, AccountTypeOK, Write, Serializable, Registered
<1>2. /\ x.op = "remove" => role' = [role EXCEPT ![x.account] = "gone"]
      /\ x.op = "update" /\ x.role = Unset => role' = role
      /\ x.op = "update" /\ x.role # Unset => role' = [role EXCEPT ![x.account] = x.role]
      /\ tx' = [tx EXCEPT ![t] = NoTx]
  BY <1>1 DEF Write, AccountTypeOK
<1>3. x.op \in {"update", "remove"} /\ x.role \in RoleOrUnset
  BY <1>1 DEF TxState
<1> HIDE DEF x
<1>4. AccountTypeOK'
  <2>1. tx' \in [Transaction -> TxState]
    BY <1>1, <1>2 DEF AccountTypeOK, TxState, NoTx, RoleOrUnset, Role
  <2>2. role' \in [Account -> Role \union {"none", "gone"}]
    BY <1>1, <1>2, <1>3 DEF AccountTypeOK, RoleOrUnset
  <2> QED BY <2>1, <2>2 DEF AccountTypeOK
<1>5. \A a \in Account \ {x.account} : role'[a] = role[a]
  BY <1>1, <1>2, <1>3 DEF AccountTypeOK
<1>6. Admins' # {}
  <2>1. CASE Demotes(x, x.was)
    <3>1. IsFiniteSet(Admins)
      BY AccountsAssumption, FS_Subset DEF Admins
    <3>2. Admins # {x.account}
      BY <1>1, <2>1, FS_Singleton
    <3>3. PICK a \in Admins : a # x.account
      BY <1>1, <3>2 DEF AdministratorsRemain
    <3> QED BY <1>5, <3>3 DEF Admins
  <2>2. CASE ~Demotes(x, x.was)
    <3>1. PICK a \in Admins : TRUE
      BY DEF AdministratorsRemain
    <3>2. CASE a # x.account
      BY <1>5, <3>1, <3>2 DEF Admins
    <3>3. CASE a = x.account
      <4>1. role[x.account] = "ADMIN" /\ x.op = "update" /\ x.role \in {"ADMIN", Unset}
        BY <1>1, <1>3, <2>2, <3>1, <3>3 DEF Admins, Demotes, RoleOrUnset, Role
      <4>2. role'[x.account] = "ADMIN"
        BY <1>1, <1>2, <4>1 DEF AccountTypeOK
      <4> QED BY <1>1, <4>2 DEF Admins
    <3> QED BY <3>2, <3>3
  <2> QED BY <2>1, <2>2
<1> QED BY <1>4, <1>6 DEF AdministratorsRemain

\* The other steps take no administrator away.
LEMMA AccountNextInv == AdministratorsRemain /\ [AccountNext]_accountVars => AdministratorsRemain'
<1> SUFFICES ASSUME AdministratorsRemain, [AccountNext]_accountVars
             PROVE  AdministratorsRemain'
  OBVIOUS
<1> USE DEF AdministratorsRemain
<1>1. CASE UNCHANGED accountVars
  BY <1>1 DEF accountVars, AccountTypeOK, Admins
<1>2. ASSUME NEW a \in Account, CreateAccount(a) PROVE AdministratorsRemain'
  BY <1>2 DEF CreateAccount, AccountTypeOK, Admins, Role
<1>3. ASSUME NEW t \in Transaction, Leave(t) PROVE AdministratorsRemain'
  BY <1>3 DEF Leave, AccountTypeOK, Admins, TxState, NoTx, RoleOrUnset, Role
<1>4. ASSUME NEW t \in Transaction, NEW new \in TxState, UNCHANGED role,
             tx' = [tx EXCEPT ![t] = new]
      PROVE  AdministratorsRemain'
  BY <1>4 DEF AccountTypeOK, Admins
<1>5. ASSUME NEW t \in Transaction, BeginUpdateUser(t) \/ BeginRemoveUser(t)
      PROVE  AdministratorsRemain'
  <2>1. CASE BeginUpdateUser(t)
    <3>1. PICK a \in Registered, asked \in RoleOrUnset :
            tx' = [tx EXCEPT ![t] = [NoTx EXCEPT !.op = "update", !.stage = "read",
                                                 !.account = a, !.role = asked]]
      BY <2>1 DEF BeginUpdateUser
    <3>2. [NoTx EXCEPT !.op = "update", !.stage = "read", !.account = a, !.role = asked]
            \in TxState
      BY <3>1 DEF NoTx, TxState, Registered, RoleOrUnset
    <3> QED BY <1>4, <2>1, <3>1, <3>2 DEF BeginUpdateUser
  <2>2. CASE BeginRemoveUser(t)
    <3>1. PICK a \in Registered :
            tx' = [tx EXCEPT ![t] = [NoTx EXCEPT !.op = "remove", !.stage = "read",
                                                 !.account = a]]
      BY <2>2 DEF BeginRemoveUser
    <3>2. [NoTx EXCEPT !.op = "remove", !.stage = "read", !.account = a] \in TxState
      BY <3>1 DEF NoTx, TxState, Registered, RoleOrUnset
    <3> QED BY <1>4, <2>2, <3>1, <3>2 DEF BeginRemoveUser
  <2> QED BY <1>5, <2>1, <2>2
<1>6. ASSUME NEW t \in Transaction, ReadRole(t) PROVE AdministratorsRemain'
  <2>1. CASE tx[t].account \notin Registered
    BY <1>3, <1>6, <2>1 DEF ReadRole
  <2>2. CASE tx[t].account \in Registered
    <3> DEFINE new == [tx[t] EXCEPT !.was = role[tx[t].account],
                                    !.stage = IF Demotes(tx[t], role[tx[t].account])
                                              THEN "count" ELSE "write"]
    <3>1. tx' = [tx EXCEPT ![t] = new] /\ UNCHANGED role
      BY <1>6, <2>2 DEF ReadRole
    <3>2. tx[t] \in TxState /\ role[tx[t].account] \in Role
      BY <2>2 DEF AccountTypeOK, Registered
    <3>3. new \in TxState
      BY <3>2 DEF TxState, RoleOrUnset
    <3> HIDE DEF new
    <3> QED BY <1>4, <3>1, <3>3
  <2> QED BY <2>1, <2>2
<1>7. ASSUME NEW t \in Transaction, CountAdmins(t) PROVE AdministratorsRemain'
  BY <1>3, <1>7 DEF CountAdmins, Continue, AccountTypeOK, Admins, TxState, RoleOrUnset, Role
<1>8. ASSUME NEW t \in Transaction, Write(t) PROVE AdministratorsRemain'
  BY <1>8, AccountWriteInv
<1>9. ASSUME NEW t \in Transaction, Abort(t) PROVE AdministratorsRemain'
  BY <1>3, <1>9 DEF Abort
<1> QED BY <1>1, <1>2, <1>5, <1>6, <1>7, <1>8, <1>9 DEF AccountNext

\* Whatever requests run at once, an administrator remains: the database lets a
\* demotion or a removal commit only if what it counted still holds.
THEOREM LastAdministrator == AccountSpec => []AdministratorsRemain
  BY AccountInitInv, AccountNextInv, PTL DEF AccountSpec

-----------------------------------------------------------------------------
(* Departments.                                                             *)

\* The inductive invariant of Departments is DeptInv.  What a request has looked at still holds unless another write has overtaken it.
LookHolds(e) ==
    ~e.overtaken =>
      /\ e.stage = "checkSibling" =>
           /\ e.op = "update" /\ e.dept \in Present
           /\ e.place = Given(e.to, dept[e.dept].parent)
           /\ e.called = Given(e.name, dept[e.dept].name)
      /\ e.stage = "write" /\ e.op = "create" => SameName(Root, e.to, e.name) = {}
      /\ e.stage = "write" /\ e.op = "update" /\ Checked(e.to, e.name) =>
           SameName(e.dept, Given(e.to, dept[e.dept].parent),
                            Given(e.name, dept[e.dept].name)) = {}
      /\ e.stage = "users" => e.op = "remove" /\ Children(e.dept) = {}
      /\ e.stage = "write" /\ e.op = "remove" => Children(e.dept) = {} /\ StaffOf(e.dept) = {}

\* The stages of an operation, and the fields of a creation.
EditFits(e) ==
    /\ e.stage = "checkSibling" => e.op = "update" /\ e.dept \in Dept
    /\ e.stage \in {"children", "users"} => e.op = "remove" /\ e.dept \in Dept
    /\ e.stage = "write" /\ e.op = "create" => e.to \in Place /\ e.name \in Name
    /\ e.stage = "write" /\ e.op # "create" => e.dept \in Dept

DeptInv ==
    /\ NothingDangles /\ SiblingsDiffer
    /\ \A r \in Editor : EditFits(edit[r]) /\ LookHolds(edit[r])

LEMMA DeptInitInv == DeptInit => DeptInv
<1> SUFFICES ASSUME DeptInit PROVE DeptInv
  OBVIOUS
<1>1. NoEdit \in EditState /\ EditFits(NoEdit) /\ LookHolds(NoEdit)
  BY DEF NoEdit, EditState, Place, NameOrNone, EditFits, LookHolds
<1>2. DeptTypeOK /\ Present = {}
  BY <1>1 DEF DeptInit, DeptTypeOK, NoDept, DeptRow, Place, NameOrNone, Present
<1> QED BY <1>1, <1>2 DEF DeptInit, DeptInv, NothingDangles, SiblingsDiffer

\* A request that leaves the tree and the users alone.
LEMMA LookInv ==
  ASSUME DeptInv, NEW r \in Editor, NEW e \in EditState, UNCHANGED <<dept, place, unplaced>>,
         edit' = [edit EXCEPT ![r] = e], EditFits(e), LookHolds(e)
  PROVE  DeptInv'
<1>1. DeptTypeOK /\ DeptTypeOK'
  BY DEF DeptInv, NothingDangles, DeptTypeOK
<1>2. \A q \in Editor : edit'[q] = IF q = r THEN e ELSE edit[q]
  BY <1>1 DEF DeptTypeOK
<1>3. \A q \in Editor : EditFits(edit'[q]) /\ LookHolds(edit'[q])
  BY <1>2 DEF DeptInv
<1>4. ASSUME NEW q \in Editor PROVE LookHolds(edit[q])'
  BY <1>3 DEF LookHolds, Present, SameName, Children, StaffOf
<1>5. \A q \in Editor : EditFits(edit[q])'
  BY <1>3 DEF EditFits
<1>6. NothingDangles' /\ SiblingsDiffer'
  BY <1>1 DEF DeptInv, NothingDangles, SiblingsDiffer, Present
<1> QED BY <1>4, <1>5, <1>6 DEF DeptInv

LEMMA StopInv ==
  ASSUME DeptInv, NEW r \in Editor, Stop(r), UNCHANGED <<dept, place, unplaced>>
  PROVE  DeptInv'
<1>1. NoEdit \in EditState /\ EditFits(NoEdit) /\ LookHolds(NoEdit)
  BY DEF NoEdit, EditState, Place, NameOrNone, EditFits, LookHolds
<1> QED BY <1>1, LookInv DEF Stop

LEMMA BeginCreateInv ==
  ASSUME DeptInv, NEW r \in Editor, BeginCreateDept(r)
  PROVE  DeptInv'
<1>1. PICK to \in Known \union {Root}, n \in Name :
        /\ SameName(Root, to, n) = {}
        /\ BeginEdit(r, [NoEdit EXCEPT !.op = "create", !.stage = "write", !.to = to, !.name = n])
  BY DEF BeginCreateDept
<1> DEFINE e == [NoEdit EXCEPT !.op = "create", !.stage = "write", !.to = to, !.name = n]
<1>2. e \in EditState /\ EditFits(e) /\ LookHolds(e)
  BY <1>1 DEF NoEdit, EditState, Place, NameOrNone, EditFits, LookHolds, Known
<1> QED BY <1>1, <1>2, LookInv DEF BeginEdit

LEMMA BeginUpdateInv ==
  ASSUME DeptInv, NEW r \in Editor, BeginUpdateDept(r)
  PROVE  DeptInv'
<1>1. PICK d \in Present, to \in Known \union {Root, Keep}, n \in Name \union {Keep} :
        LET asked == [NoEdit EXCEPT !.op = "update", !.dept = d, !.to = to, !.name = n] IN
        IF Checked(to, n)
        THEN BeginEdit(r, [asked EXCEPT !.stage = "checkSibling",
                                    !.place = Given(to, dept[d].parent),
                                    !.called = Given(n, dept[d].name)])
        ELSE BeginEdit(r, [asked EXCEPT !.stage = "write"])
  BY DEF BeginUpdateDept
<1>2. DeptTypeOK /\ d \in Dept /\ dept[d] \in DeptRow
  BY DEF DeptInv, NothingDangles, DeptTypeOK, Present
<1> DEFINE asked == [NoEdit EXCEPT !.op = "update", !.dept = d, !.to = to, !.name = n]
<1>3. CASE Checked(to, n)
  <2> DEFINE e == [asked EXCEPT !.stage = "checkSibling",
                                !.place = Given(to, dept[d].parent),
                                !.called = Given(n, dept[d].name)]
  <2>1. BeginEdit(r, e)
    BY <1>1, <1>3
  <2>2. Given(to, dept[d].parent) \in Place /\ Given(n, dept[d].name) \in NameOrNone
    BY <1>2 DEF Given, DeptRow, Place, NameOrNone, Known
  <2>3. e \in EditState /\ EditFits(e) /\ LookHolds(e)
    BY <1>2, <2>2 DEF NoEdit, EditState, Place, NameOrNone, EditFits, LookHolds, Known
  <2> QED BY <2>1, <2>3, LookInv DEF BeginEdit
<1>4. CASE ~Checked(to, n)
  <2> DEFINE e == [asked EXCEPT !.stage = "write"]
  <2>1. BeginEdit(r, e)
    BY <1>1, <1>4
  <2>2. e \in EditState /\ EditFits(e) /\ LookHolds(e)
    BY <1>2, <1>4 DEF NoEdit, EditState, Place, NameOrNone, EditFits, LookHolds, Known
  <2> QED BY <2>1, <2>2, LookInv DEF BeginEdit
<1> QED BY <1>3, <1>4

LEMMA BeginRemoveInv ==
  ASSUME DeptInv, NEW r \in Editor, BeginRemoveDept(r)
  PROVE  DeptInv'
<1>1. PICK d \in Present : BeginEdit(r, [NoEdit EXCEPT !.op = "remove", !.stage = "children",
                                                     !.dept = d])
  BY DEF BeginRemoveDept
<1> DEFINE e == [NoEdit EXCEPT !.op = "remove", !.stage = "children", !.dept = d]
<1>2. e \in EditState /\ EditFits(e) /\ LookHolds(e)
  BY <1>1 DEF NoEdit, EditState, Place, NameOrNone, EditFits, LookHolds, Present
<1> QED BY <1>1, <1>2, LookInv DEF BeginEdit

\* The three checks of a request that is in flight.
LEMMA CheckSiblingInv ==
  ASSUME DeptInv, NEW r \in Editor, CheckSibling(r)
  PROVE  DeptInv'
<1> DEFINE e == edit[r]
<1>1. CASE SameName(e.dept, e.place, e.called) # {}
  BY <1>1, StopInv DEF CheckSibling
<1>2. CASE SameName(e.dept, e.place, e.called) = {}
  <2> DEFINE f == [e EXCEPT !.stage = "write", !.place = Root, !.called = Root]
  <2>1. /\ edit' = [edit EXCEPT ![r] = f] /\ UNCHANGED <<dept, place, unplaced>>
        /\ e.stage = "checkSibling"
    BY <1>2 DEF CheckSibling, Editing
  <2>2. e \in EditState /\ EditFits(e) /\ LookHolds(e)
    BY DEF DeptInv, NothingDangles, DeptTypeOK
  <2>3. /\ f \in EditState /\ f.stage = "write" /\ f.op = e.op /\ f.dept = e.dept /\ f.to = e.to
        /\ f.name = e.name /\ f.overtaken = e.overtaken
    BY <2>2 DEF EditState, Place, NameOrNone
  <2> HIDE DEF e, f
  <2>4. EditFits(f)
    BY <2>1, <2>2, <2>3 DEF EditFits
  <2>5. LookHolds(f)
    BY <1>2, <2>1, <2>2, <2>3 DEF LookHolds, EditFits
  <2> QED BY <2>1, <2>3, <2>4, <2>5, LookInv
<1> QED BY <1>1, <1>2

LEMMA CheckChildrenInv ==
  ASSUME DeptInv, NEW r \in Editor, CheckChildren(r)
  PROVE  DeptInv'
<1> DEFINE e == edit[r]
<1>1. CASE Children(e.dept) # {}
  BY <1>1, StopInv DEF CheckChildren
<1>2. CASE Children(e.dept) = {}
  <2> DEFINE f == [e EXCEPT !.stage = "users"]
  <2>1. /\ edit' = [edit EXCEPT ![r] = f] /\ UNCHANGED <<dept, place, unplaced>>
        /\ e.stage = "children"
    BY <1>2 DEF CheckChildren, Proceed, Editing, DeptInv, NothingDangles, DeptTypeOK
  <2>2. e \in EditState /\ EditFits(e) /\ LookHolds(e)
    BY DEF DeptInv, NothingDangles, DeptTypeOK
  <2>3. f \in EditState /\ f.stage = "users" /\ f.op = e.op /\ f.dept = e.dept
    BY <2>2 DEF EditState
  <2> HIDE DEF e, f
  <2>4. EditFits(f) /\ LookHolds(f)
    BY <1>2, <2>1, <2>2, <2>3 DEF EditFits, LookHolds
  <2> QED BY <2>1, <2>3, <2>4, LookInv
<1> QED BY <1>1, <1>2

LEMMA CheckUsersInv ==
  ASSUME DeptInv, NEW r \in Editor, CheckUsers(r)
  PROVE  DeptInv'
<1> DEFINE e == edit[r]
<1>1. CASE StaffOf(e.dept) # {}
  BY <1>1, StopInv DEF CheckUsers
<1>2. CASE StaffOf(e.dept) = {}
  <2> DEFINE f == [e EXCEPT !.stage = "write"]
  <2>1. /\ edit' = [edit EXCEPT ![r] = f] /\ UNCHANGED <<dept, place, unplaced>>
        /\ e.stage = "users"
    BY <1>2 DEF CheckUsers, Proceed, Editing, DeptInv, NothingDangles, DeptTypeOK
  <2>2. e \in EditState /\ EditFits(e) /\ LookHolds(e)
    BY DEF DeptInv, NothingDangles, DeptTypeOK
  <2>3. /\ f \in EditState /\ f.stage = "write" /\ f.op = e.op /\ f.dept = e.dept
        /\ f.overtaken = e.overtaken
    BY <2>2 DEF EditState
  <2> HIDE DEF e, f
  <2>4. EditFits(f) /\ LookHolds(f)
    BY <1>2, <2>1, <2>2, <2>3 DEF EditFits, LookHolds
  <2> QED BY <2>1, <2>3, <2>4, LookInv
<1> QED BY <1>1, <1>2

\* A user who is put into a department overtakes the removals that looked.
LEMMA AssignInv ==
  ASSUME DeptInv, NEW u \in Staff, AssignUser(u)
  PROVE  DeptInv'
<1>1. PICK d \in Present \union {Root} :
        /\ place' = [place EXCEPT ![u] = d]
        /\ edit' = [q \in Editor |->
                      [edit[q] EXCEPT !.overtaken = @ \/ (d # Root /\ LookedAtUsers(edit[q]))]]
        /\ UNCHANGED <<dept, unplaced>>
  BY DEF AssignUser
<1>2. DeptTypeOK
  BY DEF DeptInv, NothingDangles
<1>3. \A q \in Editor :
        /\ edit'[q] \in EditState
        /\ edit'[q].op = edit[q].op /\ edit'[q].stage = edit[q].stage
        /\ edit'[q].dept = edit[q].dept /\ edit'[q].to = edit[q].to
        /\ edit'[q].name = edit[q].name /\ edit'[q].place = edit[q].place
        /\ edit'[q].called = edit[q].called
        /\ ~edit'[q].overtaken => ~edit[q].overtaken /\ (d = Root \/ ~LookedAtUsers(edit[q]))
  BY <1>1, <1>2 DEF DeptTypeOK, EditState, LookedAtUsers
<1>4. DeptTypeOK'
  <2>1. edit' \in [Editor -> EditState]
    BY <1>1, <1>3
  <2>2. place' \in [Staff -> Place]
    BY <1>1, <1>2 DEF DeptTypeOK, Place, Present
  <2> QED BY <1>1, <1>2, <2>1, <2>2 DEF DeptTypeOK
<1>5. NothingDangles' /\ SiblingsDiffer'
  BY <1>1, <1>2, <1>4 DEF DeptInv, NothingDangles, SiblingsDiffer, Present, DeptTypeOK
<1>6. ASSUME NEW q \in Editor PROVE EditFits(edit[q])' /\ LookHolds(edit[q])'
  <2>1. EditFits(edit[q]) /\ LookHolds(edit[q])
    BY DEF DeptInv
  <2>2. EditFits(edit[q])'
    BY <1>3, <2>1 DEF EditFits
  <2>3. Present' = Present /\ \A c : Children(c)' = Children(c)
    BY <1>1 DEF Present, Children
  <2>4. \A c, p, n : SameName(c, p, n)' = SameName(c, p, n)
    BY <1>1, <2>3 DEF SameName
  <2>5. edit[q].dept \in Dept /\ d = Root => (StaffOf(edit[q].dept)' \subseteq StaffOf(edit[q].dept))
    BY <1>1, <1>2, <1>3, DepartmentsAssumption DEF StaffOf, DeptTypeOK
  <2>6. LookHolds(edit[q])'
    BY <1>1, <1>3, <2>1, <2>3, <2>4, <2>5 DEF LookHolds, LookedAtUsers, EditFits
  <2> QED BY <2>2, <2>6
<1> QED BY <1>5, <1>6 DEF DeptInv

\* A write to the tree overtakes everybody who looked at it.
LEMMA OvertakingInv ==
  ASSUME DeptInv, NEW r \in Editor, StopOvertaking(r)
  PROVE  /\ edit' \in [Editor -> EditState]
         /\ \A q \in Editor : EditFits(edit[q])' /\ LookHolds(edit[q])'
<1>1. DeptTypeOK
  BY DEF DeptInv, NothingDangles
<1>2. NoEdit \in EditState /\ NoEdit.stage = "idle"
  BY DEF NoEdit, EditState, Place, NameOrNone
<1>3. \A q \in Editor \ {r} :
        /\ edit'[q] \in EditState
        /\ edit'[q].op = edit[q].op /\ edit'[q].stage = edit[q].stage
        /\ edit'[q].dept = edit[q].dept /\ edit'[q].to = edit[q].to
        /\ edit'[q].name = edit[q].name
        /\ ~edit'[q].overtaken => ~LookedAtTree(edit[q])
  BY <1>1 DEF StopOvertaking, DeptTypeOK, EditState, LookedAtTree
<1>4. edit'[r] = NoEdit
  BY DEF StopOvertaking
<1>5. edit' \in [Editor -> EditState]
  BY <1>2, <1>3, <1>4 DEF StopOvertaking
<1>6. ASSUME NEW q \in Editor PROVE EditFits(edit[q])' /\ LookHolds(edit[q])'
  <2>1. CASE q = r
    BY <1>2, <1>4, <2>1 DEF EditFits, LookHolds
  <2>2. CASE q # r
    <3>1. EditFits(edit[q])
      BY DEF DeptInv
    <3> QED BY <1>3, <2>2, <3>1 DEF EditFits, LookHolds, LookedAtTree
  <2> QED BY <2>1, <2>2
<1> QED BY <1>5, <1>6

LEMMA FailDeptWriteInv ==
  ASSUME DeptInv, NEW r \in Editor, FailDeptWrite(r)
  PROVE  DeptInv'
  BY StopInv DEF FailDeptWrite

\* Saving the row of d: what the request compared it with is still there, or
\* it joins the departments nobody vouches for.
LEMMA WriteRowInv ==
  ASSUME DeptInv, NEW r \in Editor, NEW d \in Dept, NEW deptRow \in DeptRow, NEW checked \in BOOLEAN,
         WriteRow(r, d, deptRow, checked), deptRow.status = "present",
         ~checked => deptRow = dept[d],
         checked /\ ~edit[r].overtaken => SameName(d, deptRow.parent, deptRow.name) = {}
  PROVE  DeptInv'
<1>1. DeptTypeOK
  BY DEF DeptInv, NothingDangles
<1>2. CASE deptRow.parent \notin Present \union {Root}
  BY <1>2, StopInv DEF WriteRow
<1>3. CASE deptRow.parent \in Present \union {Root}
  <2>1. /\ dept' = [dept EXCEPT ![d] = deptRow]
        /\ unplaced' = CASE ~checked -> unplaced
                         [] checked /\ edit[r].overtaken -> unplaced \union {d}
                         [] checked /\ ~edit[r].overtaken -> unplaced \ {d}
        /\ StopOvertaking(r) /\ UNCHANGED place
    BY <1>3 DEF WriteRow
  <2>2. /\ edit' \in [Editor -> EditState]
        /\ \A q \in Editor : EditFits(edit[q])' /\ LookHolds(edit[q])'
    BY <2>1, OvertakingInv
  <2>3. edit[r].overtaken \in BOOLEAN
    BY <1>1 DEF DeptTypeOK, EditState
  <2>4. /\ ~checked => unplaced' = unplaced
        /\ checked /\ edit[r].overtaken => unplaced' = unplaced \union {d}
        /\ checked /\ ~edit[r].overtaken => unplaced' = unplaced \ {d}
    BY <2>1
  <2>5. DeptTypeOK'
    <3>1. dept' \in [Dept -> DeptRow]
      BY <1>1, <2>1 DEF DeptTypeOK
    <3>2. unplaced' \subseteq Dept
      BY <1>1, <2>3, <2>4 DEF DeptTypeOK
    <3> QED BY <1>1, <2>1, <2>2, <3>1, <3>2 DEF DeptTypeOK
  <2>6. dept'[d] = deptRow /\ \A e \in Dept \ {d} : dept'[e] = dept[e]
    BY <1>1, <2>1 DEF DeptTypeOK
  <2>7. Present' = Present \union {d}
    BY <2>6 DEF Present
  <2>8. NothingDangles'
    BY <1>3, <2>1, <2>5, <2>6, <2>7 DEF DeptInv, NothingDangles
  <2>9. SiblingsDiffer'
    <3>1. SUFFICES ASSUME NEW e \in Present' \ unplaced', NEW f \in Present' \ unplaced',
                          e # f, dept'[e].parent = dept'[f].parent
                   PROVE  dept'[e].name # dept'[f].name
      BY DEF SiblingsDiffer
    <3>2. CASE ~checked
      BY <2>4, <2>6, <2>7, <3>1, <3>2 DEF DeptInv, SiblingsDiffer, Present
    <3>3. CASE checked /\ edit[r].overtaken
      <4>1. /\ e \in Present \ unplaced /\ f \in Present \ unplaced /\ e # d /\ f # d
            /\ e \in Dept /\ f \in Dept
        BY <2>4, <2>7, <3>1, <3>3 DEF Present
      <4> QED BY <2>6, <3>1, <4>1 DEF DeptInv, SiblingsDiffer
    <3>4. CASE checked /\ ~edit[r].overtaken
      <4>1. \A g \in Present \ {d} : g \notin unplaced' => g \notin unplaced
        BY <2>4, <3>4
      <4>2. \A g \in Present \ {d} : dept[g].parent = deptRow.parent => dept[g].name # deptRow.name
        BY <3>4 DEF SameName, Children
      <4>3. \A g \in Present : g \in Dept
        BY DEF Present
      <4> QED BY <2>6, <2>7, <3>1, <4>1, <4>2, <4>3 DEF DeptInv, SiblingsDiffer
    <3> QED BY <2>3, <3>2, <3>3, <3>4
  <2> QED BY <2>2, <2>8, <2>9 DEF DeptInv
<1> QED BY <1>2, <1>3

LEMMA WriteNewInv ==
  ASSUME DeptInv, NEW r \in Editor, WriteNew(r)
  PROVE  DeptInv'
<1> DEFINE e == edit[r]
<1>1. PICK d \in Dept \ Known :
        WriteRow(r, d, [status |-> "present", parent |-> e.to, name |-> e.name], TRUE)
  BY DEF WriteNew
<1>2. e.stage = "write" /\ e.op = "create" /\ EditFits(e) /\ LookHolds(e)
  BY DEF WriteNew, Editing, DeptInv
<1> DEFINE deptRow == [status |-> "present", parent |-> e.to, name |-> e.name]
<1>3. deptRow \in DeptRow
  BY <1>2 DEF EditFits, DeptRow, NameOrNone
<1>4. ~e.overtaken => SameName(d, deptRow.parent, deptRow.name) = {}
  <2>1. d \notin Present /\ Root \notin Present
    BY DepartmentsAssumption DEF Known, Present
  <2> QED BY <1>2, <2>1 DEF LookHolds, SameName, Children
<1> QED BY <1>1, <1>3, <1>4, WriteRowInv

LEMMA WriteChangeInv ==
  ASSUME DeptInv, NEW r \in Editor, WriteChange(r)
  PROVE  DeptInv'
<1> DEFINE e == edit[r]
<1> DEFINE deptRow == [dept[e.dept] EXCEPT !.parent = Given(e.to, @), !.name = Given(e.name, @)]
<1>1. /\ e.stage = "write" /\ e.op = "update" /\ e.dept \in Present /\ LookHolds(e)
      /\ WriteRow(r, e.dept, deptRow, Checked(e.to, e.name))
  BY DEF WriteChange, Editing, DeptInv
<1>2. /\ e.dept \in Dept /\ dept[e.dept] \in DeptRow /\ dept[e.dept].status = "present"
      /\ e \in EditState
  BY <1>1 DEF Present, DeptInv, NothingDangles, DeptTypeOK
<1>3. /\ deptRow \in DeptRow /\ deptRow.status = "present"
      /\ deptRow.parent = Given(e.to, dept[e.dept].parent)
      /\ deptRow.name = Given(e.name, dept[e.dept].name)
  <2>1. Given(e.to, dept[e.dept].parent) \in Place
    BY <1>2 DEF Given, EditState, DeptRow, Place
  <2>2. Given(e.name, dept[e.dept].name) \in NameOrNone
    BY <1>2 DEF Given, EditState, DeptRow, NameOrNone
  <2> QED BY <1>2, <2>1, <2>2 DEF DeptRow
<1>4. ~Checked(e.to, e.name) => deptRow = dept[e.dept]
  BY <1>2 DEF Checked, Given, DeptRow
<1>5. Checked(e.to, e.name) \in BOOLEAN
  BY DEF Checked
<1>6. Checked(e.to, e.name) /\ ~e.overtaken => SameName(e.dept, deptRow.parent, deptRow.name) = {}
  BY <1>1, <1>3 DEF LookHolds
<1> HIDE DEF deptRow
<1> QED BY <1>1, <1>2, <1>3, <1>4, <1>5, <1>6, WriteRowInv

\* The children a deleted department still has become roots of their own.
LEMMA DeleteRowInv ==
  ASSUME DeptInv, NEW r \in Editor, DeleteRow(r)
  PROVE  DeptInv'
<1> DEFINE d == edit[r].dept
<1>1. /\ d \in Present
      /\ dept' = Removed(d)
      /\ place' = [u \in Staff |-> IF place[u] = d THEN Root ELSE place[u]]
      /\ unplaced' = (unplaced \union Children(d)) \ {d}
      /\ StopOvertaking(r)
  BY DEF DeleteRow
<1> HIDE DEF d
<1>2. DeptTypeOK /\ d \in Dept
  BY <1>1 DEF DeptInv, NothingDangles, Present
<1>3. \A e \in Dept :
        dept'[e] = IF e = d THEN [dept[e] EXCEPT !.status = "removed"]
                   ELSE IF e \in Children(d) THEN [dept[e] EXCEPT !.parent = Root] ELSE dept[e]
  BY <1>1 DEF Removed
<1>4. /\ dept'[d].status = "removed"
      /\ \A e \in Dept \ {d} :
            /\ dept'[e].status = dept[e].status /\ dept'[e].name = dept[e].name
            /\ dept'[e].parent = IF e \in Children(d) THEN Root ELSE dept[e].parent
  <2>1. dept'[d].status = "removed"
    BY <1>2, <1>3 DEF DeptTypeOK, DeptRow
  <2>2. ASSUME NEW e \in Dept \ {d}
        PROVE  /\ dept'[e].status = dept[e].status /\ dept'[e].name = dept[e].name
               /\ dept'[e].parent = IF e \in Children(d) THEN Root ELSE dept[e].parent
    <3>1. dept[e] \in DeptRow
      BY <1>2 DEF DeptTypeOK
    <3>2. CASE e \in Children(d)
      <4>1. dept'[e] = [dept[e] EXCEPT !.parent = Root]
        BY <1>3, <3>2
      <4> QED BY <3>1, <3>2, <4>1 DEF DeptRow
    <3>3. CASE e \notin Children(d)
      BY <1>3, <3>3
    <3> QED BY <3>2, <3>3
  <2> QED BY <2>1, <2>2
<1>5. Present' = Present \ {d}
  BY <1>2, <1>4 DEF Present
<1>6. /\ edit' \in [Editor -> EditState]
      /\ \A q \in Editor : EditFits(edit[q])' /\ LookHolds(edit[q])'
  BY <1>1, OvertakingInv
<1>7. DeptTypeOK'
  <2>1. dept' \in [Dept -> DeptRow]
    <3>1. \A e \in Dept : dept'[e] \in DeptRow
      BY <1>2, <1>3 DEF DeptTypeOK, DeptRow, Place
    <3> QED BY <1>1, <3>1 DEF Removed
  <2>2. place' \in [Staff -> Place]
    BY <1>1, <1>2 DEF DeptTypeOK, Place
  <2>3. unplaced' \subseteq Dept
    BY <1>1, <1>2 DEF DeptTypeOK, Children, Present
  <2> QED BY <1>6, <2>1, <2>2, <2>3 DEF DeptTypeOK
<1>8. NothingDangles'
  <2>1. ASSUME NEW e \in Present' PROVE dept'[e].parent \in Present' \union {Root}
    <3>1. e \in Present /\ e # d /\ e \in Dept
      BY <1>5 DEF Present
    <3>2. dept[e].parent \in Present \union {Root} /\ (dept[e].parent = d => e \in Children(d))
      BY <3>1 DEF DeptInv, NothingDangles, Children
    <3> QED BY <1>4, <1>5, <3>1, <3>2
  <2>2. ASSUME NEW u \in Staff PROVE place'[u] \in Present' \union {Root}
    BY <1>1, <1>5 DEF DeptInv, NothingDangles
  <2> QED BY <1>7, <2>1, <2>2 DEF NothingDangles
<1>9. SiblingsDiffer'
  <2>1. SUFFICES ASSUME NEW e \in Present' \ unplaced', NEW f \in Present' \ unplaced',
                        e # f, dept'[e].parent = dept'[f].parent
                 PROVE  dept'[e].name # dept'[f].name
    BY DEF SiblingsDiffer
  <2>2. /\ e \in Present \ unplaced /\ f \in Present \ unplaced
        /\ e \in Dept \ {d} /\ f \in Dept \ {d}
        /\ e \notin Children(d) /\ f \notin Children(d)
    BY <1>1, <1>5 DEF Present
  <2> QED BY <1>4, <2>1, <2>2 DEF DeptInv, SiblingsDiffer
<1> QED BY <1>6, <1>8, <1>9 DEF DeptInv

\* Every step of the requests keeps the invariant.
LEMMA DeptNextInv == DeptInv /\ [DeptNext]_deptVars => DeptInv'
<1> SUFFICES ASSUME DeptInv, [DeptNext]_deptVars PROVE DeptInv'
  OBVIOUS
<1>1. CASE UNCHANGED deptVars
  BY <1>1 DEF deptVars, DeptInv, NothingDangles, SiblingsDiffer, DeptTypeOK, EditFits, LookHolds,
              Present, Children, SameName, StaffOf
<1>2. CASE DeptNext
  BY <1>2, AssignInv, BeginCreateInv, BeginUpdateInv, BeginRemoveInv, CheckSiblingInv,
     CheckChildrenInv, CheckUsersInv, WriteNewInv, WriteChangeInv, FailDeptWriteInv, DeleteRowInv
  DEF DeptNext
<1> QED BY <1>1, <1>2

THEOREM DepartmentInvariant == DeptSpec => []DeptInv
  BY DeptInitInv, DeptNextInv, PTL DEF DeptSpec

\* Departments and users always hang below a department that is there.
THEOREM TreeHolds == DeptSpec => []NothingDangles
<1>1. DeptInv => NothingDangles
  BY DEF DeptInv
<1> QED BY <1>1, DepartmentInvariant, PTL

\* Siblings share a name only where a write came between a look and a write.
THEOREM DifferentSiblings == DeptSpec => []SiblingsDiffer
<1>1. DeptInv => SiblingsDiffer
  BY DEF DeptInv
<1> QED BY <1>1, DepartmentInvariant, PTL

\* A department is deleted with children or users only after the request had
\* looked and been overtaken.
THEOREM CheckedRemovals == DeptSpec => RemovalIsChecked
<1> DEFINE Removal ==
      \A d \in Dept :
         /\ dept[d].status = "present" /\ dept'[d].status = "removed"
         /\ Children(d) # {} \/ StaffOf(d) # {}
         => \E r \in Editor : edit[r].dept = d /\ edit[r].overtaken
<1>1. DeptInv /\ [DeptNext]_deptVars => [Removal]_deptVars
  <2> SUFFICES ASSUME DeptInv, DeptNext PROVE Removal
    BY DEF deptVars
  <2>1. SUFFICES ASSUME NEW d \in Dept, dept[d].status = "present",
                        dept'[d].status = "removed", Children(d) # {} \/ StaffOf(d) # {}
                 PROVE  \E r \in Editor : edit[r].dept = d /\ edit[r].overtaken
    BY DEF Removal
  <2>2. DeptTypeOK
    BY DEF DeptInv, NothingDangles
  <2>3. PICK r \in Editor : WriteNew(r) \/ WriteChange(r) \/ DeleteRow(r)
    BY <2>1 DEF DeptNext, AssignUser, BeginCreateDept, BeginUpdateDept, BeginRemoveDept,
                BeginEdit, CheckSibling, FailDeptWrite, CheckChildren, CheckUsers
  <2>4. CASE WriteNew(r)
    BY <2>1, <2>2, <2>4 DEF WriteNew, WriteRow, DeptTypeOK
  <2>5. CASE WriteChange(r)
    BY <2>1, <2>2, <2>5 DEF WriteChange, WriteRow, DeptTypeOK, DeptRow, Present
  <2>6. CASE DeleteRow(r)
    <3>1. edit[r].dept = d
      BY <2>1, <2>2, <2>6 DEF DeleteRow, Removed, DeptTypeOK, DeptRow
    <3>2. edit[r].overtaken
      BY <2>1, <2>6, <3>1 DEF DeptInv, LookHolds, DeleteRow, Editing
    <3> QED BY <3>1, <3>2
  <2> QED BY <2>3, <2>4, <2>5, <2>6
<1> QED BY <1>1, DepartmentInvariant, PTL DEF DeptSpec, RemovalIsChecked

-----------------------------------------------------------------------------
(* Dictionary.                                                              *)

WriteFits(a) ==
    /\ a.op \in WriteOp
    /\ a.op = "create" => a.to \in Code
    /\ a.op = "update" => a.dict \in Dict /\ a.was \in Code /\ a.to \in Code \union {None}
    /\ a.op = "remove" => a.dict \in Dict /\ a.was \in Code /\ a.to = None
    /\ a.op \in {"updateData", "removeData"} => a.entry \in Entry /\ a.dict \in Dict
    /\ a.op = "updateData" => a.to \in Dict \union {None}

AccessFits(a) ==
    /\ a.stage # "del" => a.owed = <<>>
    /\ a.stage = "del" => a.owed # <<>>
    /\ a.stage = "set" => FillKey(a) \in Key /\ a.copy \in {"fresh", "old"}
    /\ a.stage = "findCode" => a.dict \in Dict
    /\ a.stage \in {"check", "write"} => WriteFits(a)
    /\ a.stage = "check" => a.op = "update" /\ a.to \in Code

Belonging == \A x \in Entry : belongs[x] \in Existing \union {None}

DictInv == CacheIsCurrent /\ Belonging /\ \A r \in Client : AccessFits(access[r])

\* The keys of a dictionary are keys.
LEMMA KeysAreKeys ==
  /\ ListKey \in Key
  /\ \A d \in Dict : IdKey(d) \in Key
  /\ \A c \in Code : DataKey(c) \in Key
  BY DEF Key

LEMMA NoAccessFits == NoAccess \in AccessState /\ AccessFits(NoAccess) /\ Promised(NoAccess) = {}
  BY DEF NoAccess, AccessState, AccessFits, ReadOp, WriteOp, Promised, Range

LEMMA DictInitInv == DictInit => DictInv
  BY NoAccessFits DEF DictInit, DictInv, CacheIsCurrent, DictTypeOK, Belonging

\* A request that owes nothing has nothing to delete.
LEMMA NothingPromised ==
  ASSUME NEW a \in AccessState, AccessFits(a), a.stage \notin {"findCode", "del"}
  PROVE  Promised(a) = {}
  BY DEF AccessFits, Promised, Range

\* A step of one request that changes no row and no key: what it owes is still
\* owed, or known.
LEMMA AccessInv ==
  ASSUME DictInv, NEW r \in Client, NEW a \in AccessState, AccessFits(a),
         access' = [access EXCEPT ![r] = a], UNCHANGED <<code, belongs, cache>>,
         stale \subseteq stale', stale' \subseteq Key,
         \A k \in Promised(access[r]) : cache[k] = "old" => k \in stale' \/ k \in Promised(a)
  PROVE  DictInv'
<1>1. DictTypeOK /\ access' \in [Client -> AccessState]
  BY DEF DictInv, CacheIsCurrent, DictTypeOK
<1>2. DictTypeOK'
  BY <1>1 DEF DictTypeOK
<1>3. \A q \in Client : access'[q] = IF q = r THEN a ELSE access[q]
  BY <1>1 DEF DictTypeOK
<1>4. ASSUME NEW q \in Client PROVE AccessFits(access[q])' /\ Promised(access[q])' = Promised(access'[q])
  BY <1>3 DEF DictInv, AccessFits, Promised, Existing, ShowsData, FillKey
<1>5. ASSUME NEW k \in Key \ stale', cache'[k] = "old"
      PROVE  \E q \in Client : k \in Promised(access[q])'
  <2>1. PICK q \in Client : k \in Promised(access[q])
    BY <1>5 DEF DictInv, CacheIsCurrent
  <2>2. CASE q = r
    BY <1>3, <1>4, <1>5, <2>1, <2>2
  <2>3. CASE q # r
    BY <1>3, <1>4, <2>1, <2>3
  <2> QED BY <2>2, <2>3
<1>6. Belonging'
  BY DEF DictInv, Belonging, Existing
<1> QED BY <1>2, <1>4, <1>5, <1>6 DEF DictInv, CacheIsCurrent

\* The end of a request that owes nothing.
LEMMA DoneInv ==
  ASSUME DictInv, NEW r \in Client, Done(r), UNCHANGED <<code, belongs, cache, stale>>,
         access[r].stage \notin {"findCode", "del"}
  PROVE  DictInv'
<1>1. Promised(access[r]) = {}
  BY NothingPromised DEF DictInv, CacheIsCurrent, DictTypeOK
<1>2. stale' \subseteq Key
  BY DEF DictInv, CacheIsCurrent, DictTypeOK
<1> QED BY <1>1, <1>2, AccessInv, NoAccessFits DEF Done

\* A request arrives.
LEMMA ArriveInv ==
  ASSUME DictInv, NEW r \in Client, NEW a \in AccessState, AccessFits(a), AccessAt(r, "idle"),
         access' = [access EXCEPT ![r] = a], UNCHANGED <<code, belongs, cache, stale>>
  PROVE  DictInv'
<1>1. Promised(access[r]) = {}
  BY NothingPromised DEF AccessAt, DictInv, CacheIsCurrent, DictTypeOK
<1>2. stale' \subseteq Key
  BY DEF DictInv, CacheIsCurrent, DictTypeOK
<1> QED BY <1>1, <1>2, AccessInv

LEMMA ReadersInv ==
  ASSUME DictInv, NEW r \in Client, FindAll(r) \/ FindOne(r) \/ FindByCode(r)
  PROVE  DictInv'
<1>1. ASSUME NEW asked \in AccessState, asked.owed = <<>>, asked.op \in ReadOp,
             FillKey(asked) \in Key, Load(r, asked)
      PROVE  DictInv'
  <2> DEFINE a == [asked EXCEPT !.stage = "set", !.copy = "fresh"]
  <2>1. a \in AccessState /\ AccessFits(a)
    BY <1>1 DEF AccessState, AccessFits, FillKey, ReadOp
  <2> QED BY <1>1, <2>1, ArriveInv DEF Load
<1>2. CASE FindAll(r)
  <2> DEFINE asked == [NoAccess EXCEPT !.op = "findAll"]
  <2>1. /\ asked \in AccessState /\ asked.owed = <<>> /\ asked.op \in ReadOp
        /\ FillKey(asked) \in Key
    BY KeysAreKeys, NoAccessFits DEF NoAccess, AccessState, ReadOp, FillKey
  <2> QED BY <1>1, <1>2, <2>1 DEF FindAll
<1>3. CASE FindOne(r)
  <2>1. PICK d \in Existing : Load(r, [NoAccess EXCEPT !.op = "findOne", !.dict = d])
    BY <1>3 DEF FindOne
  <2> DEFINE asked == [NoAccess EXCEPT !.op = "findOne", !.dict = d]
  <2>2. /\ asked \in AccessState /\ asked.owed = <<>> /\ asked.op \in ReadOp
        /\ FillKey(asked) \in Key
    BY KeysAreKeys, NoAccessFits DEF NoAccess, AccessState, ReadOp, FillKey, Existing
  <2> QED BY <1>1, <2>1, <2>2
<1>4. CASE FindByCode(r)
  <2>1. PICK d \in Existing : Load(r, [NoAccess EXCEPT !.op = "findByCode", !.to = code[d]])
    BY <1>4 DEF FindByCode
  <2>2. code[d] \in Code
    BY DEF DictInv, CacheIsCurrent, DictTypeOK, Existing
  <2> DEFINE asked == [NoAccess EXCEPT !.op = "findByCode", !.to = code[d]]
  <2>3. /\ asked \in AccessState /\ asked.owed = <<>> /\ asked.op \in ReadOp
        /\ FillKey(asked) \in Key
    BY <2>2, KeysAreKeys, NoAccessFits DEF NoAccess, AccessState, ReadOp, FillKey
  <2> QED BY <1>1, <2>1, <2>3
<1> QED BY <1>2, <1>3, <1>4

\* An overtaken copy is out of date from the start: somebody is going to delete
\* it, or it is known.
LEMMA SetInv ==
  ASSUME DictInv, NEW r \in Client, Set(r)
  PROVE  DictInv'
<1> DEFINE a == access[r]  k == FillKey(a)
           late == a.copy = "old" /\ \A q \in Client : k \notin Promised(access[q])
<1>1. /\ a.stage = "set" /\ cache' = [cache EXCEPT ![k] = a.copy]
      /\ stale' = IF late THEN stale \union {k} ELSE stale \ {k}
      /\ access' = [access EXCEPT ![r] = NoAccess] /\ UNCHANGED <<code, belongs>>
  BY DEF Set, Done, AccessAt
<1>2. /\ DictTypeOK /\ a \in AccessState /\ AccessFits(a)
      /\ k \in Key /\ a.copy \in {"fresh", "old"} /\ Promised(a) = {}
  BY <1>1, NothingPromised DEF DictInv, CacheIsCurrent, DictTypeOK, AccessFits
<1> HIDE DEF a, k
<1>3. DictTypeOK'
  <2>1. stale' \subseteq Key
    BY <1>1, <1>2 DEF DictTypeOK
  <2>2. access' \in [Client -> AccessState] /\ cache' \in [Key -> {"absent", "fresh", "old"}]
    BY <1>1, <1>2, NoAccessFits DEF DictTypeOK
  <2> QED BY <1>1, <1>2, <2>1, <2>2 DEF DictTypeOK
<1>4. \A q \in Client : access'[q] = IF q = r THEN NoAccess ELSE access[q]
  BY <1>1, <1>2 DEF DictTypeOK
<1>5. ASSUME NEW q \in Client
      PROVE  AccessFits(access[q])' /\ Promised(access[q])' = Promised(access'[q])
  BY <1>1, <1>4, NoAccessFits DEF DictInv, AccessFits, Promised, Existing, ShowsData, FillKey
<1>6. ASSUME NEW j \in Key \ stale', cache'[j] = "old"
      PROVE  \E q \in Client : j \in Promised(access[q])'
  <2>1. CASE j = k
    <3>1. a.copy = "old" /\ ~late
      BY <1>1, <1>2, <1>6, <2>1 DEF DictTypeOK
    <3>2. PICK q \in Client : k \in Promised(access[q])
      BY <3>1
    <3>3. q # r
      BY <1>2, <3>2 DEF a
    <3> QED BY <1>4, <1>5, <2>1, <3>2, <3>3
  <2>2. CASE j # k
    <3>1. j \notin stale /\ cache[j] = "old"
      BY <1>1, <1>2, <1>6, <2>2 DEF DictTypeOK
    <3>2. PICK q \in Client : j \in Promised(access[q])
      BY <3>1 DEF DictInv, CacheIsCurrent
    <3>3. q # r
      BY <1>2, <3>2 DEF a
    <3> QED BY <1>4, <1>5, <3>2, <3>3
  <2> QED BY <2>1, <2>2
<1>7. Belonging'
  BY <1>1 DEF DictInv, Belonging, Existing
<1> QED BY <1>3, <1>5, <1>6, <1>7 DEF DictInv, CacheIsCurrent

\* A request with nothing to store and nothing to delete.
Asking(op, stage, d, x, to, was) ==
    [op : {op}, stage : {stage}, dict : {d}, entry : {x}, to : {to}, was : {was},
     copy : {"none"}, owed : {<<>>}]

LEMMA AskingFits ==
  ASSUME NEW op \in ReadOp \union WriteOp,
         NEW stage \in {"idle", "set", "check", "write", "findCode", "del"},
         NEW d \in Dict \union {None}, NEW x \in Entry \union {None},
         NEW to \in Code \union Dict \union {None}, NEW was \in Code \union {None},
         NEW a \in Asking(op, stage, d, x, to, was)
  PROVE  a \in AccessState
<1>1. <<>> \in Seq(Key) /\ "none" \in {"none", "fresh", "old"}
  OBVIOUS
<1> QED BY <1>1 DEF AccessState, Asking

\* A writer that arrives.
LEMMA WriterFits ==
  ASSUME NEW op \in WriteOp, NEW stage \in {"check", "write"}, NEW d \in Dict \union {None},
         NEW x \in Entry \union {None}, NEW to \in Code \union Dict \union {None},
         NEW was \in Code \union {None}, NEW a \in Asking(op, stage, d, x, to, was),
         op = "create" => to \in Code,
         op = "update" => d \in Dict /\ was \in Code /\ to \in Code \union {None},
         op = "remove" => d \in Dict /\ was \in Code /\ to = None,
         op \in {"updateData", "removeData"} => x \in Entry /\ d \in Dict,
         op = "updateData" => to \in Dict \union {None},
         stage = "check" => op = "update" /\ to \in Code
  PROVE  a \in AccessState /\ AccessFits(a)
<1>1. a \in AccessState
  BY AskingFits
<1>2. /\ a.op = op /\ a.stage = stage /\ a.dict = d /\ a.entry = x /\ a.to = to
      /\ a.was = was /\ a.owed = <<>>
  BY DEF Asking
<1>3. WriteFits(a)
  BY <1>2 DEF WriteFits
<1> QED BY <1>1, <1>2, <1>3 DEF AccessFits

LEMMA BeginsInv ==
  ASSUME DictInv, NEW r \in Client,
         BeginCreate(r) \/ BeginUpdate(r) \/ BeginRemove(r) \/ BeginUpdateData(r)
           \/ BeginRemoveData(r)
  PROVE  DictInv'
<1>1. ASSUME NEW a \in AccessState, AccessFits(a), Begin(r, a) PROVE DictInv'
  BY <1>1, ArriveInv DEF Begin
<1>2. DictTypeOK
  BY DEF DictInv, CacheIsCurrent
<1>3. CASE BeginCreate(r)
  <2>1. PICK c \in Code : Begin(r, [NoAccess EXCEPT !.op = "create", !.stage = "write", !.to = c])
    BY <1>3 DEF BeginCreate
  <2> DEFINE a == [NoAccess EXCEPT !.op = "create", !.stage = "write", !.to = c]
  <2>2. a \in Asking("create", "write", None, None, c, None)
    BY DEF NoAccess, Asking
  <2> HIDE DEF a
  <2>3. a \in AccessState /\ AccessFits(a)
    BY <2>2, WriterFits DEF WriteOp
  <2> QED BY <1>1, <2>1, <2>3 DEF a
<1>4. CASE BeginUpdate(r)
  <2>1. PICK d \in Existing, c \in Code \union {None} :
          LET asked == [NoAccess EXCEPT !.op = "update", !.dict = d, !.to = c, !.was = code[d]]
          IN Begin(r, [asked EXCEPT !.stage = IF Renames(asked) THEN "check" ELSE "write"])
    BY <1>4 DEF BeginUpdate
  <2> DEFINE asked == [NoAccess EXCEPT !.op = "update", !.dict = d, !.to = c, !.was = code[d]]
             a == [asked EXCEPT !.stage = IF Renames(asked) THEN "check" ELSE "write"]
             stage == IF c # None /\ c # code[d] THEN "check" ELSE "write"
  <2>2. d \in Dict /\ code[d] \in Code
    BY <1>2 DEF Existing, DictTypeOK
  <2>3. a \in Asking("update", stage, d, None, c, code[d])
    BY DEF NoAccess, Asking, Renames
  <2>4. stage \in {"check", "write"} /\ (stage = "check" => c \in Code)
    OBVIOUS
  <2>5. Begin(r, a)
    BY <2>1
  <2> HIDE DEF a, stage
  <2>6. a \in AccessState /\ AccessFits(a)
    BY <2>2, <2>3, <2>4, WriterFits DEF WriteOp
  <2> QED BY <1>1, <2>5, <2>6
<1>5. CASE BeginRemove(r)
  <2>1. PICK d \in Existing :
          Begin(r, [NoAccess EXCEPT !.op = "remove", !.stage = "write", !.dict = d, !.was = code[d]])
    BY <1>5 DEF BeginRemove
  <2> DEFINE a == [NoAccess EXCEPT !.op = "remove", !.stage = "write", !.dict = d, !.was = code[d]]
  <2>2. d \in Dict /\ code[d] \in Code
    BY <1>2 DEF Existing, DictTypeOK
  <2>3. a \in Asking("remove", "write", d, None, None, code[d])
    BY DEF NoAccess, Asking
  <2> HIDE DEF a
  <2>4. a \in AccessState /\ AccessFits(a)
    BY <2>2, <2>3, WriterFits DEF WriteOp
  <2> QED BY <1>1, <2>1, <2>4 DEF a
<1>6. CASE BeginUpdateData(r)
  <2>1. PICK x \in Entry, to \in Dict \union {None} :
          /\ belongs[x] \in Dict
          /\ Begin(r, [NoAccess EXCEPT !.op = "updateData", !.stage = "write", !.entry = x,
                                       !.dict = belongs[x], !.to = to])
    BY <1>6 DEF BeginUpdateData
  <2> DEFINE a == [NoAccess EXCEPT !.op = "updateData", !.stage = "write", !.entry = x,
                                   !.dict = belongs[x], !.to = to]
  <2>2. a \in Asking("updateData", "write", belongs[x], x, to, None)
    BY DEF NoAccess, Asking
  <2> HIDE DEF a
  <2>3. a \in AccessState /\ AccessFits(a)
    BY <2>1, <2>2, WriterFits DEF WriteOp
  <2> QED BY <1>1, <2>1, <2>3 DEF a
<1>7. CASE BeginRemoveData(r)
  <2>1. PICK x \in Entry :
          /\ belongs[x] \in Dict
          /\ Begin(r, [NoAccess EXCEPT !.op = "removeData", !.stage = "write", !.entry = x,
                                       !.dict = belongs[x]])
    BY <1>7 DEF BeginRemoveData
  <2> DEFINE a == [NoAccess EXCEPT !.op = "removeData", !.stage = "write", !.entry = x,
                                   !.dict = belongs[x]]
  <2>2. a \in Asking("removeData", "write", belongs[x], x, None, None)
    BY DEF NoAccess, Asking
  <2> HIDE DEF a
  <2>3. a \in AccessState /\ AccessFits(a)
    BY <2>1, <2>2, WriterFits DEF WriteOp
  <2> QED BY <1>1, <2>1, <2>3 DEF a
<1> QED BY <1>3, <1>4, <1>5, <1>6, <1>7

LEMMA CheckInv ==
  ASSUME DictInv, NEW r \in Client, Check(r)
  PROVE  DictInv'
<1> DEFINE a == access[r]
           b == [a EXCEPT !.stage = "write"]
<1>1. a.stage = "check" /\ a \in AccessState /\ AccessFits(a) /\ Promised(a) = {}
  BY NothingPromised DEF Check, AccessAt, DictInv, CacheIsCurrent, DictTypeOK
<1>2. stale' \subseteq Key
  BY DEF Check, DictInv, CacheIsCurrent, DictTypeOK
<1>3. CASE Done(r)
  BY <1>1, <1>3, DoneInv DEF Check
<1>4. CASE Step(r, "write")
  <2>1. b \in AccessState /\ AccessFits(b)
    BY <1>1 DEF AccessState, AccessFits, WriteFits
  <2> QED BY <1>1, <1>2, <1>4, <2>1, AccessInv DEF Check, Step
<1> QED BY <1>3, <1>4 DEF Check

LEMMA FailWriteInv ==
  ASSUME DictInv, NEW r \in Client, FailWrite(r)
  PROVE  DictInv'
  BY DoneInv DEF FailWrite, AccessAt

\* A write that promises each key it outdates, but for those it misses: what others
\* were going to delete of a dictionary that has changed is the writer's to delete
\* as well, or known.
LEMMA OutdateInv ==
  ASSUME DictInv, NEW r \in Client, NEW K \in SUBSET Key, NEW missed \in SUBSET Key,
         NEW next \in AccessState, AccessFits(next), next.stage \in {"del", "findCode"},
         Outdate(K, missed, r, next), K \subseteq missed \union Promised(next),
         code' \in [Dict -> Code \union {None}], belongs' \in [Entry -> Dict \union {None}],
         access[r].stage \notin {"findCode", "del"},
         next.stage = "findCode" => code' = code,
         \A d \in Dict : code[d] # None /\ code'[d] # code[d] => ShowsRow(d) \subseteq K,
         \A x \in Entry : belongs'[x] = None \/ (belongs'[x] \in Dict /\ code'[belongs'[x]] # None)
  PROVE  DictInv'
<1>1. /\ cache' = [k \in Key |-> IF k \in K /\ cache[k] = "fresh" THEN "old" ELSE cache[k]]
      /\ access' = [q \in Client |->
                      IF q = r THEN next
                      ELSE IF access[q].copy = "fresh" /\ FillKey(access[q]) \in K
                      THEN [access[q] EXCEPT !.copy = "old"] ELSE access[q]]
      /\ stale' = stale \union {k \in missed \ Promised(next) : cache[k] # "absent"}
  BY DEF Outdate
<1>2. DictTypeOK
  BY DEF DictInv, CacheIsCurrent
<1>3. ASSUME NEW q \in Client \ {r}
      PROVE  /\ access'[q] \in AccessState /\ AccessFits(access[q])'
             /\ access'[q].stage = access[q].stage /\ access'[q].dict = access[q].dict
             /\ access'[q].owed = access[q].owed
  <2>1. access[q] \in AccessState /\ AccessFits(access[q])
    BY <1>2 DEF DictInv, DictTypeOK
  <2>2. CASE access[q].copy = "fresh" /\ FillKey(access[q]) \in K
    <3>1. access'[q] = [access[q] EXCEPT !.copy = "old"]
      BY <1>1, <2>2
    <3>2. /\ access'[q].op = access[q].op /\ access'[q].stage = access[q].stage
          /\ access'[q].dict = access[q].dict /\ access'[q].owed = access[q].owed
          /\ access'[q].to = access[q].to /\ access'[q].was = access[q].was
          /\ access'[q].entry = access[q].entry /\ access'[q].copy = "old"
          /\ access'[q] \in AccessState
      BY <2>1, <3>1 DEF AccessState
    <3>3. FillKey(access[q])' = FillKey(access[q])
      BY <3>2 DEF FillKey
    <3> QED BY <2>1, <3>2, <3>3 DEF AccessFits, WriteFits
  <2>3. CASE ~(access[q].copy = "fresh" /\ FillKey(access[q]) \in K)
    <3>1. access'[q] = access[q]
      BY <1>1, <2>3
    <3> QED BY <2>1, <3>1 DEF AccessFits, FillKey
  <2> QED BY <2>2, <2>3
<1>4. access'[r] = next
  BY <1>1
<1>5. DictTypeOK'
  <2>1. access' \in [Client -> AccessState]
    BY <1>1, <1>3, <1>4
  <2>2. cache' \in [Key -> {"absent", "fresh", "old"}]
    BY <1>1, <1>2 DEF DictTypeOK
  <2>3. stale' \subseteq Key
    BY <1>1, <1>2 DEF DictTypeOK
  <2> QED BY <2>1, <2>2, <2>3 DEF DictTypeOK
<1>6. AccessFits(access[r])'
  BY <1>4 DEF AccessFits, FillKey
<1>7. Promised(access[r])' = Promised(next)
  BY <1>4 DEF Promised, Existing, ShowsData
<1>8. Promised(access[r]) = {}
  BY <1>2, NothingPromised DEF DictInv, DictTypeOK
<1>9. ASSUME NEW k \in Key \ stale', cache'[k] = "old"
      PROVE  \E q \in Client : k \in Promised(access[q])'
  <2>1. CASE k \in K
    <3>1. cache[k] # "absent"
      BY <1>1, <1>9
    <3> QED BY <1>1, <1>7, <1>9, <2>1, <3>1
  <2>2. CASE k \notin K
    <3>1. cache[k] = "old" /\ k \notin stale
      BY <1>1, <1>9, <2>2
    <3>2. PICK q \in Client : k \in Promised(access[q])
      BY <3>1 DEF DictInv, CacheIsCurrent
    <3>3. q # r
      BY <1>8, <3>2
    <3>4. CASE access[q].stage = "findCode"
      <4>1. access[q].dict \in Dict
        BY <3>4 DEF DictInv, AccessFits
      <4>2. CASE k = ListKey
        BY <1>3, <3>3, <3>4, <4>2 DEF Promised
      <4>3. CASE access[q].dict \in Existing /\ k \in ShowsData(access[q].dict)
        <5>1. code'[access[q].dict] = code[access[q].dict]
          BY <2>2, <4>1, <4>3 DEF Existing, ShowsRow
        <5> QED BY <1>3, <3>3, <3>4, <4>3, <5>1 DEF Promised, Existing, ShowsData
      <4> QED BY <3>2, <3>4, <4>2, <4>3 DEF Promised
    <3>5. CASE access[q].stage # "findCode"
      BY <1>3, <3>2, <3>3, <3>5 DEF Promised
    <3> QED BY <3>4, <3>5
  <2> QED BY <2>1, <2>2
<1>10. \A q \in Client : AccessFits(access[q])'
  BY <1>3, <1>6
<1> QED BY <1>5, <1>9, <1>10 DEF DictInv, CacheIsCurrent, Belonging, Existing

\* What a writer owes after its write.
LEMMA DeletingFits ==
  ASSUME NEW owed \in Seq(Key), owed # <<>>
  PROVE  /\ Deleting(owed) \in AccessState /\ AccessFits(Deleting(owed))
         /\ Deleting(owed).stage = "del"
  BY DEF Deleting, NoAccess, AccessState, AccessFits, ReadOp, WriteOp

\* What update and remove promise: everything that shows the row they have read.
LEMMA RowKeysCover ==
  ASSUME DictTypeOK, NEW a \in AccessState, a.dict \in Existing, a.was \in Code,
         a.to \in Code \union {None}
  PROVE  /\ RowKeys(a) \in Seq(Key) /\ RowKeys(a) # <<>>
         /\ ShowsRow(a.dict) \subseteq GivenAnotherCode(a) \union Promised(Deleting(RowKeys(a)))
         /\ ShowsRow(a.dict) \in SUBSET Key /\ GivenAnotherCode(a) \in SUBSET Key
<1>1. a.dict \in Dict /\ code[a.dict] \in Code
  BY DEF Existing, DictTypeOK
<1> DEFINE first == <<IdKey(a.dict), DataKey(a.was)>>
           renamed == IF Renames(a) THEN <<DataKey(a.to)>> ELSE <<>>
           some == first \o renamed
           owed == some \o <<ListKey>>
<1>2. /\ first \in Seq(Key) /\ Len(first) = 2
      /\ first[1] = IdKey(a.dict) /\ first[2] = DataKey(a.was)
  BY <1>1, KeysAreKeys
<1>3. renamed \in Seq(Key) /\ Len(renamed) \in Nat
  BY KeysAreKeys DEF Renames
<1>4. <<ListKey>> \in Seq(Key) /\ Len(<<ListKey>>) = 1 /\ <<ListKey>>[1] = ListKey
  BY KeysAreKeys
<1>5. RowKeys(a) = owed
  BY DEF RowKeys
<1> HIDE DEF first, renamed
<1>6. /\ some \in Seq(Key) /\ Len(some) = 2 + Len(renamed)
      /\ some[1] = IdKey(a.dict) /\ some[2] = DataKey(a.was)
  <2>1. /\ some \in Seq(Key) /\ Len(some) = Len(first) + Len(renamed)
        /\ \A i \in 1 .. Len(first) + Len(renamed) :
             some[i] = IF i <= Len(first) THEN first[i] ELSE renamed[i - Len(first)]
    BY <1>2, <1>3, ConcatProperties
  <2> HIDE DEF some
  <2> QED BY <1>2, <1>3, <2>1
<1> HIDE DEF some
<1>7. /\ owed \in Seq(Key) /\ Len(owed) = 3 + Len(renamed)
      /\ owed[1] = IdKey(a.dict) /\ owed[2] = DataKey(a.was) /\ owed[3 + Len(renamed)] = ListKey
  <2>1. /\ owed \in Seq(Key) /\ Len(owed) = Len(some) + Len(<<ListKey>>)
        /\ \A i \in 1 .. Len(some) + Len(<<ListKey>>) :
             owed[i] = IF i <= Len(some) THEN some[i] ELSE <<ListKey>>[i - Len(some)]
    BY <1>4, <1>6, ConcatProperties
  <2> HIDE DEF owed
  <2> QED BY <1>3, <1>4, <1>6, <2>1
<1> HIDE DEF owed
<1>8. {IdKey(a.dict), DataKey(a.was), ListKey} \subseteq Range(owed)
  <2>1. DOMAIN owed = 1 .. Len(owed)
    BY <1>7
  <2>2. {1, 2, 3 + Len(renamed)} \subseteq DOMAIN owed
    BY <1>3, <1>7, <2>1
  <2> QED BY <1>7, <2>2 DEF Range
<1>9. Promised(Deleting(owed)) = Range(owed)
  BY DEF Promised, Deleting, NoAccess
<1>10. ShowsRow(a.dict) = {IdKey(a.dict), DataKey(code[a.dict]), ListKey}
  BY DEF ShowsRow, ShowsData
<1>11. DataKey(code[a.dict]) \in GivenAnotherCode(a) \/ code[a.dict] = a.was
  BY DEF GivenAnotherCode
<1>12. GivenAnotherCode(a) \subseteq Key /\ ShowsRow(a.dict) \subseteq Key
  BY <1>1, <1>10, KeysAreKeys DEF GivenAnotherCode
<1>13. owed # <<>>
  BY <1>3, <1>7
<1> QED BY <1>5, <1>7, <1>8, <1>9, <1>10, <1>11, <1>12, <1>13

LEMMA RowWritesInv ==
  ASSUME DictInv, NEW r \in Client, WriteCreate(r) \/ WriteUpdate(r) \/ WriteRemove(r)
  PROVE  DictInv'
<1> DEFINE a == access[r]
<1>1. DictTypeOK /\ a \in AccessState /\ AccessFits(a) /\ a.stage = "write"
  BY DEF DictInv, CacheIsCurrent, DictTypeOK, WriteCreate, WriteUpdate, WriteRemove, Writing,
         AccessAt
<1>2. CASE WriteCreate(r)
  <2>1. <<ListKey>> \in Seq(Key) /\ <<ListKey>> # <<>>
    BY KeysAreKeys
  <2>2. PICK d \in Dict \ Existing : code' = [code EXCEPT ![d] = a.to]
    BY <1>2 DEF WriteCreate
  <2>3. a.op = "create" /\ a.to \in Code
    BY <1>1, <1>2 DEF WriteCreate, Writing, AccessFits, WriteFits
  <2>4. code' \in [Dict -> Code \union {None}]
    BY <1>1, <2>2, <2>3 DEF DictTypeOK
  <2>5. \A e \in Dict : code[e] # None => code'[e] = code[e]
    BY <1>1, <2>2 DEF DictTypeOK, Existing
  <2>6. /\ Outdate({ListKey}, {}, r, Deleting(<<ListKey>>)) /\ UNCHANGED belongs
        /\ {ListKey} \in SUBSET Key /\ {} \in SUBSET Key
    BY <1>2, KeysAreKeys DEF WriteCreate
  <2>8. {ListKey} \subseteq {} \union Promised(Deleting(<<ListKey>>))
    BY DEF Promised, Deleting, NoAccess, Range
  <2>7. \A x \in Entry : belongs'[x] = None \/ (belongs'[x] \in Dict /\ code'[belongs'[x]] # None)
    <3> SUFFICES ASSUME NEW x \in Entry, belongs[x] # None
                 PROVE  belongs[x] \in Dict /\ code'[belongs[x]] # None
      BY <2>6
    <3>1. belongs[x] \in Dict /\ code[belongs[x]] # None
      BY DEF DictInv, Belonging, Existing
    <3> QED BY <2>5, <3>1
  <2> QED BY <1>1, <2>1, <2>4, <2>5, <2>6, <2>7, <2>8, DeletingFits, OutdateInv DEF DictTypeOK
<1>3. CASE WriteUpdate(r)
  <2> DEFINE owed == RowKeys(a)
  <2>1. /\ a.op = "update" /\ a.dict \in Existing /\ a.dict \in Dict /\ a.was \in Code
        /\ a.to \in Code \union {None} /\ code[a.dict] \in Code
    BY <1>1, <1>3 DEF WriteUpdate, Writing, Feasible, AccessFits, WriteFits, Existing, DictTypeOK
  <2>2. /\ owed \in Seq(Key) /\ owed # <<>>
        /\ ShowsRow(a.dict) \subseteq GivenAnotherCode(a) \union Promised(Deleting(owed))
        /\ ShowsRow(a.dict) \in SUBSET Key /\ GivenAnotherCode(a) \in SUBSET Key
    BY <1>1, <2>1, RowKeysCover
  <2>3. /\ code' = IF a.to = None THEN code ELSE [code EXCEPT ![a.dict] = a.to]
        /\ Outdate(ShowsRow(a.dict), GivenAnotherCode(a), r, Deleting(owed))
        /\ UNCHANGED belongs
    BY <1>3 DEF WriteUpdate
  <2>5. /\ code' \in [Dict -> Code \union {None}]
        /\ \A e \in Dict : code'[e] # code[e] => e = a.dict
    BY <1>1, <2>1, <2>3 DEF DictTypeOK
  <2>6. \A x \in Entry : belongs'[x] = None \/ (belongs'[x] \in Dict /\ code'[belongs'[x]] # None)
    <3> SUFFICES ASSUME NEW x \in Entry, belongs[x] # None
                 PROVE  belongs[x] \in Dict /\ code'[belongs[x]] # None
      BY <2>3
    <3>1. belongs[x] \in Dict /\ code[belongs[x]] # None
      BY DEF DictInv, Belonging, Existing
    <3>2. code'[a.dict] # None
      BY <1>1, <2>1, <2>3, DictionaryAssumption DEF DictTypeOK
    <3> QED BY <2>5, <3>1, <3>2
  <2> HIDE DEF owed
  <2> QED BY <1>1, <2>2, <2>3, <2>5, <2>6, DeletingFits, OutdateInv DEF DictTypeOK
<1>4. CASE WriteRemove(r)
  <2> DEFINE owed == RowKeys(a)
  <2>1. /\ a.op = "remove" /\ a.dict \in Existing /\ a.dict \in Dict /\ a.was \in Code
        /\ code[a.dict] \in Code /\ a.to \in Code \union {None}
    BY <1>1, <1>4 DEF WriteRemove, Writing, Feasible, AccessFits, WriteFits, Existing, DictTypeOK
  <2>2. /\ owed \in Seq(Key) /\ owed # <<>>
        /\ ShowsRow(a.dict) \subseteq GivenAnotherCode(a) \union Promised(Deleting(owed))
        /\ ShowsRow(a.dict) \in SUBSET Key /\ GivenAnotherCode(a) \in SUBSET Key
    BY <1>1, <2>1, RowKeysCover
  <2>3. /\ code' = [code EXCEPT ![a.dict] = None]
        /\ belongs' = [x \in Entry |-> IF belongs[x] = a.dict THEN None ELSE belongs[x]]
        /\ Outdate(ShowsRow(a.dict), GivenAnotherCode(a), r, Deleting(owed))
    BY <1>4 DEF WriteRemove
  <2>5. /\ code' \in [Dict -> Code \union {None}]
        /\ \A e \in Dict : code'[e] # code[e] => e = a.dict
    BY <1>1, <2>1, <2>3 DEF DictTypeOK
  <2>6. belongs' \in [Entry -> Dict \union {None}]
    BY <1>1, <2>3 DEF DictTypeOK
  <2>7. \A x \in Entry : belongs'[x] = None \/ (belongs'[x] \in Dict /\ code'[belongs'[x]] # None)
    <3> SUFFICES ASSUME NEW x \in Entry, belongs'[x] # None
                 PROVE  belongs'[x] \in Dict /\ code'[belongs'[x]] # None
      OBVIOUS
    <3>1. belongs'[x] = belongs[x] /\ belongs[x] # a.dict
      BY <2>3
    <3>2. belongs[x] \in Dict /\ code[belongs[x]] # None
      BY <3>1 DEF DictInv, Belonging, Existing
    <3> QED BY <2>5, <3>1, <3>2
  <2> HIDE DEF owed
  <2> QED BY <1>1, <2>2, <2>3, <2>5, <2>6, <2>7, DeletingFits, OutdateInv
<1> QED BY <1>2, <1>3, <1>4

LEMMA DataWritesInv ==
  ASSUME DictInv, NEW r \in Client, CreateData(r) \/ WriteUpdateData(r) \/ WriteRemoveData(r)
  PROVE  DictInv'
<1>1. DictTypeOK
  BY DEF DictInv, CacheIsCurrent
<1>2. ASSUME NEW d \in Dict, NEW x \in Entry, NEW from \in Dict \union {None},
             NEW to \in Dict \union {None}, SaveEntry(r, d, x, from, to),
             {from, to} \intersect Dict \subseteq Existing,
             access[r].stage \notin {"findCode", "del"}
      PROVE  DictInv'
  <2> DEFINE next == [NoAccess EXCEPT !.stage = "findCode", !.dict = d]
  <2>1. next \in Asking("findAll", "findCode", d, None, None, None)
    BY DEF NoAccess, Asking
  <2>2. next \in AccessState /\ AccessFits(next) /\ next.stage = "findCode"
    <3>1. next.stage = "findCode" /\ next.dict = d /\ next.owed = <<>>
      BY DEF NoAccess
    <3> HIDE DEF next
    <3> QED BY <2>1, <3>1, AskingFits DEF AccessFits, ReadOp
  <2>3. Showing({from, to} \intersect Dict) \in SUBSET Key
    <3> SUFFICES ASSUME NEW e \in {from, to} \intersect Dict PROVE ShowsData(e) \subseteq Key
      BY DEF Showing
    <3>1. e \in Dict /\ code[e] \in Code
      BY <1>1, <1>2 DEF Existing, DictTypeOK
    <3> QED BY <3>1, KeysAreKeys DEF ShowsData
  <2>4. /\ belongs' = [belongs EXCEPT ![x] = to] /\ UNCHANGED code
        /\ Outdate(Showing({from, to} \intersect Dict), Uncleared(d, from, to), r, next)
    BY <1>2 DEF SaveEntry
  <2>9. Uncleared(d, from, to) \in SUBSET Key
    BY <2>3 DEF Uncleared, Showing
  <2>10. Showing({from, to} \intersect Dict) \subseteq Uncleared(d, from, to) \union Promised(next)
    <3>1. SUFFICES ASSUME NEW e \in {from, to} \intersect Dict, NEW k \in ShowsData(e)
                   PROVE  k \in Uncleared(d, from, to) \union Promised(next)
      BY DEF Showing
    <3>2. CASE e = d
      <4>1. next.stage = "findCode" /\ next.dict = d /\ d \in Existing
        BY <1>2, <3>1, <3>2 DEF NoAccess
      <4> QED BY <3>1, <3>2, <4>1 DEF Promised
    <3>3. CASE e # d
      BY <3>1, <3>3 DEF Uncleared, Showing
    <3> QED BY <3>2, <3>3
  <2>5. belongs' \in [Entry -> Dict \union {None}]
    BY <1>1, <2>4 DEF DictTypeOK
  <2> HIDE DEF next
  <2>6. \A e \in Entry : belongs'[e] \in Existing \union {None}
    BY <1>1, <1>2, <2>4 DEF DictInv, Belonging, Existing, DictTypeOK
  <2>7. \A e \in Entry : belongs'[e] = None \/ (belongs'[e] \in Dict /\ code'[belongs'[e]] # None)
    BY <2>4, <2>6 DEF Existing
  <2>8. code' \in [Dict -> Code \union {None}]
    BY <1>1, <2>4 DEF DictTypeOK
  <2> HIDE DEF next
  <2> QED BY <1>2, <2>2, <2>3, <2>4, <2>5, <2>7, <2>8, <2>9, <2>10, OutdateInv
<1> DEFINE a == access[r]
<1>3. a \in AccessState /\ AccessFits(a)
  BY <1>1 DEF DictInv, DictTypeOK
<1>4. CASE CreateData(r)
  <2>1. PICK d \in Existing, x \in Entry : SaveEntry(r, d, x, None, d)
    BY <1>4 DEF CreateData
  <2> QED BY <1>2, <1>4, <2>1, DictionaryAssumption DEF CreateData, AccessAt, Existing
<1>5. CASE WriteUpdateData(r)
  <2>1. /\ a.stage = "write" /\ a.op = "updateData" /\ a.entry \in Entry /\ a.dict \in Dict
        /\ a.to \in Existing \union {None} /\ belongs[a.entry] \in Dict
    BY <1>3, <1>5 DEF WriteUpdateData, Writing, Feasible, AccessAt, AccessFits, WriteFits
  <2> DEFINE from == belongs[a.entry]
             to == IF a.to = None THEN from ELSE a.to
  <2>2. from \in Existing /\ from \in Dict /\ to \in Existing /\ to \in Dict
    BY <2>1, DictionaryAssumption DEF DictInv, Belonging, Existing
  <2>3. SaveEntry(r, a.dict, a.entry, from, to)
    BY <1>5 DEF WriteUpdateData
  <2> HIDE DEF from, to
  <2> QED BY <1>2, <2>1, <2>2, <2>3
<1>6. CASE WriteRemoveData(r)
  <2>1. /\ a.stage = "write" /\ a.op = "removeData" /\ a.entry \in Entry /\ a.dict \in Dict
        /\ belongs[a.entry] \in Dict
    BY <1>3, <1>6 DEF WriteRemoveData, Writing, Feasible, AccessAt, AccessFits, WriteFits
  <2> DEFINE from == belongs[a.entry]
  <2>2. from \in Existing /\ from \in Dict /\ None \notin Dict
    BY <2>1, DictionaryAssumption DEF DictInv, Belonging, Existing
  <2>3. SaveEntry(r, a.dict, a.entry, from, None)
    BY <1>6 DEF WriteRemoveData
  <2> HIDE DEF from
  <2> QED BY <1>2, <2>1, <2>2, <2>3
<1> QED BY <1>4, <1>5, <1>6

\* What the keys are is read anew: they are the ones that were promised.
LEMMA FindCodeInv ==
  ASSUME DictInv, NEW r \in Client, FindCode(r)
  PROVE  DictInv'
<1> DEFINE a == access[r]
           found == IF a.dict \in Existing THEN DataKeys(a.dict) ELSE <<>>
           owed == found \o <<ListKey>>
<1>1. /\ a.stage = "findCode" /\ access' = [access EXCEPT ![r] = Deleting(owed)]
      /\ UNCHANGED <<code, belongs, cache, stale>>
  BY DEF FindCode, AccessAt
<1>2. DictTypeOK /\ a.dict \in Dict
  BY <1>1 DEF DictInv, CacheIsCurrent, AccessFits
<1>3. /\ found \in Seq(Key)
      /\ Range(owed) = {ListKey} \union (IF a.dict \in Existing THEN ShowsData(a.dict) ELSE {})
      /\ owed # <<>>
  <2>1. CASE a.dict \in Existing
    <3>1. code[a.dict] \in Code
      BY <1>2, <2>1 DEF Existing, DictTypeOK
    <3>2. /\ found \in Seq(Key) /\ Len(found) = 2
          /\ found[1] = DataKey(code[a.dict]) /\ found[2] = IdKey(a.dict)
      BY <1>2, <2>1, <3>1, KeysAreKeys DEF DataKeys
    <3>3. /\ owed \in Seq(Key) /\ Len(owed) = 3
          /\ owed[1] = found[1] /\ owed[2] = found[2] /\ owed[3] = ListKey
      <4> HIDE DEF found
      <4>1. <<ListKey>> \in Seq(Key) /\ Len(<<ListKey>>) = 1
        BY KeysAreKeys
      <4>2. /\ owed \in Seq(Key) /\ Len(owed) = Len(found) + Len(<<ListKey>>)
            /\ \A i \in 1 .. Len(found) + Len(<<ListKey>>) :
                 owed[i] = IF i <= Len(found) THEN found[i] ELSE <<ListKey>>[i - Len(found)]
        BY <3>2, <4>1, ConcatProperties
      <4> HIDE DEF owed
      <4> QED BY <3>2, <4>1, <4>2
    <3> HIDE DEF owed
    <3>4. DOMAIN owed = {1, 2, 3}
      BY <3>3
    <3>5. Range(owed) = {DataKey(code[a.dict]), IdKey(a.dict), ListKey}
      BY <3>2, <3>3, <3>4 DEF Range
    <3> QED BY <2>1, <3>2, <3>3, <3>5 DEF ShowsData
  <2>2. CASE a.dict \notin Existing
    <3>1. owed = <<ListKey>>
      BY <2>2
    <3> QED BY <2>2, <3>1 DEF Range
  <2> QED BY <2>1, <2>2
<1>4. owed \in Seq(Key)
  BY <1>3, KeysAreKeys
<1>5. Promised(a) = Range(owed)
  BY <1>1, <1>3 DEF Promised
<1> HIDE DEF owed, a
<1>6. Promised(Deleting(owed)) = Range(owed)
  BY DEF Promised, Deleting, NoAccess
<1>7. stale' \subseteq Key
  BY <1>1, <1>2 DEF DictTypeOK
<1> QED BY <1>1, <1>3, <1>4, <1>5, <1>6, <1>7, DeletingFits, AccessInv DEF a

\* One key less to delete.
LEMMA DeletedFits ==
  ASSUME DictInv, NEW r \in Client, AccessAt(r, "del"), Deleted(r)
  PROVE  /\ Head(access[r].owed) \in Key
         /\ \E b \in AccessState :
              /\ AccessFits(b) /\ access' = [access EXCEPT ![r] = b]
              /\ Promised(access[r]) \subseteq {Head(access[r].owed)} \union Promised(b)
              /\ b.stage # "findCode"
<1> DEFINE a == access[r]  owed == a.owed
<1>1. a \in AccessState /\ AccessFits(a) /\ a.stage = "del"
  BY DEF DictInv, CacheIsCurrent, DictTypeOK, AccessAt
<1>2. owed \in Seq(Key) /\ owed # <<>>
  BY <1>1 DEF AccessState, AccessFits
<1>3. Head(owed) \in Key /\ Tail(owed) \in Seq(Key)
  BY <1>2
<1>4. Range(owed) \subseteq {Head(owed)} \union Range(Tail(owed))
  <2> SUFFICES ASSUME NEW i \in 1 .. Len(owed)
               PROVE  owed[i] = Head(owed) \/ owed[i] \in Range(Tail(owed))
    BY <1>2 DEF Range
  <2>1. CASE i = 1
    BY <1>2, <2>1
  <2>2. CASE i # 1
    <3>1. i - 1 \in 1 .. Len(Tail(owed)) /\ Tail(owed)[i - 1] = owed[i]
      BY <1>2, <2>2
    <3>2. DOMAIN Tail(owed) = 1 .. Len(Tail(owed))
      BY <1>3
    <3> QED BY <3>1, <3>2 DEF Range
  <2> QED BY <2>1, <2>2
<1>5. Promised(a) = Range(owed)
  BY <1>1 DEF Promised
<1>6. CASE Tail(owed) = <<>>
  <2>1. Range(Tail(owed)) = {}
    BY <1>6 DEF Range
  <2>2. NoAccess.stage # "findCode"
    BY DEF NoAccess
  <2> QED BY <1>3, <1>4, <1>5, <1>6, <2>1, <2>2, NoAccessFits DEF Deleted, Done
<1>7. CASE Tail(owed) # <<>>
  <2> DEFINE b == [a EXCEPT !.owed = Tail(owed)]
  <2>1. b \in AccessState /\ b.stage = "del" /\ b.owed = Tail(owed)
    BY <1>1, <1>3 DEF AccessState
  <2>2. access' = [access EXCEPT ![r] = b]
    BY <1>7 DEF Deleted
  <2> HIDE DEF b
  <2>3. AccessFits(b)
    BY <1>7, <2>1 DEF AccessFits
  <2>4. Promised(b) = Range(Tail(owed))
    BY <2>1 DEF Promised
  <2> QED BY <1>3, <1>4, <1>5, <2>1, <2>2, <2>3, <2>4
<1> QED BY <1>6, <1>7

LEMMA FailDelInv ==
  ASSUME DictInv, NEW r \in Client, FailDel(r)
  PROVE  DictInv'
<1> DEFINE k == Head(access[r].owed)
<1>1. /\ AccessAt(r, "del") /\ Deleted(r) /\ UNCHANGED <<code, belongs, cache>>
      /\ stale' = IF cache[k] = "old" THEN stale \union {k} ELSE stale
  BY DEF FailDel
<1>2. /\ k \in Key
      /\ \E b \in AccessState :
          /\ AccessFits(b) /\ access' = [access EXCEPT ![r] = b]
          /\ Promised(access[r]) \subseteq {k} \union Promised(b)
  BY <1>1, DeletedFits
<1>3. stale \subseteq stale' /\ stale' \subseteq Key
  BY <1>1, <1>2 DEF DictInv, CacheIsCurrent, DictTypeOK
<1> HIDE DEF k
<1> QED BY <1>1, <1>2, <1>3, AccessInv

LEMMA DelInv ==
  ASSUME DictInv, NEW r \in Client, Del(r)
  PROVE  DictInv'
<1> DEFINE k == Head(access[r].owed)
<1>1. /\ AccessAt(r, "del") /\ Deleted(r) /\ UNCHANGED <<code, belongs>>
      /\ cache' = [cache EXCEPT ![k] = "absent"] /\ stale' = stale \ {k}
  BY DEF Del
<1>2. PICK b \in AccessState :
          /\ AccessFits(b) /\ access' = [access EXCEPT ![r] = b]
          /\ Promised(access[r]) \subseteq {k} \union Promised(b)
  BY <1>1, DeletedFits
<1>3. k \in Key /\ DictTypeOK
  BY <1>1, DeletedFits DEF DictInv, CacheIsCurrent
<1> HIDE DEF k
<1>4. DictTypeOK'
  BY <1>1, <1>2, <1>3 DEF DictTypeOK
<1>5. \A q \in Client : access'[q] = IF q = r THEN b ELSE access[q]
  BY <1>2, <1>3 DEF DictTypeOK
<1>6. ASSUME NEW q \in Client
      PROVE  AccessFits(access[q])' /\ Promised(access[q])' = Promised(access'[q])
  BY <1>1, <1>2, <1>5 DEF DictInv, AccessFits, Promised, Existing, ShowsData, FillKey
<1>7. ASSUME NEW j \in Key \ stale', cache'[j] = "old"
      PROVE  \E q \in Client : j \in Promised(access[q])'
  <2>1. j # k /\ j \notin stale /\ cache[j] = "old"
    BY <1>1, <1>3, <1>7 DEF DictTypeOK
  <2>2. PICK q \in Client : j \in Promised(access[q])
    BY <2>1 DEF DictInv, CacheIsCurrent
  <2> QED BY <1>2, <1>5, <1>6, <2>1, <2>2
<1>8. Belonging'
  BY <1>1 DEF DictInv, Belonging, Existing
<1> QED BY <1>4, <1>6, <1>7, <1>8 DEF DictInv, CacheIsCurrent

LEMMA AbandonInv ==
  ASSUME DictInv, NEW r \in Client, Abandon(r)
  PROVE  DictInv'
<1>1. /\ access' = [access EXCEPT ![r] = NoAccess] /\ UNCHANGED <<code, belongs, cache>>
      /\ stale' = stale \union {k \in Promised(access[r]) : cache[k] = "old"}
  BY DEF Abandon, Done
<1>2. Promised(access[r]) \subseteq Key
  <2> DEFINE a == access[r]
  <2>1. DictTypeOK /\ a \in AccessState /\ AccessFits(a)
    BY DEF DictInv, CacheIsCurrent, DictTypeOK
  <2>2. CASE a.stage = "findCode"
    <3>1. a.dict \in Dict /\ (a.dict \in Existing => code[a.dict] \in Code)
      BY <2>1, <2>2 DEF AccessFits, Existing, DictTypeOK
    <3> QED BY <2>2, <3>1, KeysAreKeys DEF Promised, ShowsData
  <2>3. CASE a.stage # "findCode"
    <3>1. a.owed \in Seq(Key)
      BY <2>1 DEF AccessState
    <3>2. \A i \in DOMAIN a.owed : a.owed[i] \in Key
      BY <3>1
    <3> QED BY <2>3, <3>2 DEF Promised, Range
  <2> QED BY <2>2, <2>3
<1>3. stale \subseteq stale' /\ stale' \subseteq Key
  BY <1>1, <1>2 DEF DictInv, CacheIsCurrent, DictTypeOK
<1> QED BY <1>1, <1>3, NoAccessFits, AccessInv

LEMMA ExpireInv ==
  ASSUME DictInv, NEW k \in Key, Expire(k)
  PROVE  DictInv'
<1>1. /\ cache' = [cache EXCEPT ![k] = "absent"] /\ stale' = stale \ {k}
      /\ UNCHANGED <<code, belongs, access>>
  BY DEF Expire
<1>2. DictTypeOK'
  BY <1>1 DEF DictInv, CacheIsCurrent, DictTypeOK
<1>3. ASSUME NEW q \in Client
      PROVE  AccessFits(access[q])' /\ Promised(access[q])' = Promised(access[q])
  BY <1>1 DEF DictInv, AccessFits, Promised, Existing, ShowsData, FillKey
<1>4. \A j \in Key \ stale' : cache'[j] = "old" => j \notin stale /\ cache[j] = "old"
  BY <1>1 DEF DictInv, CacheIsCurrent, DictTypeOK
<1>5. Belonging'
  BY <1>1 DEF DictInv, Belonging, Existing
<1> QED BY <1>2, <1>3, <1>4, <1>5 DEF DictInv, CacheIsCurrent

LEMMA DictNextInv == DictInv /\ [DictNext]_dictVars => DictInv'
<1> SUFFICES ASSUME DictInv, [DictNext]_dictVars PROVE DictInv'
  OBVIOUS
<1>1. ASSUME NEW r \in Client,
             \/ FindAll(r) \/ FindOne(r) \/ FindByCode(r) \/ Set(r)
             \/ BeginCreate(r) \/ BeginUpdate(r) \/ Check(r) \/ BeginRemove(r)
             \/ BeginUpdateData(r) \/ BeginRemoveData(r)
             \/ WriteCreate(r) \/ WriteUpdate(r) \/ WriteRemove(r) \/ FailWrite(r)
             \/ CreateData(r) \/ WriteUpdateData(r) \/ WriteRemoveData(r)
             \/ FindCode(r) \/ Del(r) \/ FailDel(r) \/ Abandon(r)
      PROVE  DictInv'
  BY <1>1, ReadersInv, SetInv, BeginsInv, CheckInv, RowWritesInv, FailWriteInv, DataWritesInv,
     FindCodeInv, DelInv, FailDelInv, AbandonInv
<1>2. CASE UNCHANGED dictVars
  BY <1>2 DEF dictVars, DictInv, CacheIsCurrent, DictTypeOK, AccessFits, FillKey, Promised,
              Existing, ShowsData, Belonging
<1> QED BY <1>1, <1>2, ExpireInv DEF DictNext

\* A key in Redis that is out of date is owed its deletion by a request in flight,
\* or is one of the exceptions CacheIsCurrent names: no write of DictService forgets
\* a key.
THEOREM CacheHolds == DictSpec => []CacheIsCurrent
<1>1. DictInv => CacheIsCurrent
  BY DEF DictInv
<1> QED BY <1>1, DictInitInv, DictNextInv, PTL DEF DictSpec

-----------------------------------------------------------------------------
(* Edit dialogs.                                                            *)

LEMMA DialogsInitInv == DialogsInit => DialogsInv
  BY DEF DialogsInit, DialogsInv, FormIsOwn, DialogsTypeOK, RowState, Absent, Links, DialogState,
         ResetForm, SaveState, NoSave, AvatarState, NoAvatar, SureState, NotSure, InFlight

\* A click begins anew: the form is empty or waits for its answer, and the
\* administrator knows it only if nothing is in flight.
LEMMA ClicksInv ==
  ASSUME DialogsInv, ClickCreate \/ \E l \in Fetch, h \in Holder : ClickEdit(l, h)
  PROVE  DialogsInv'
<1> USE DEF DialogsInv, FormIsOwn, DialogsTypeOK, DialogState, AvatarState, SureState, Links, InFlight
<1>1. CASE ClickCreate
  BY <1>1 DEF ClickCreate, OpenForm, ResetForm, SureIf, NotSure, Quiet, Still
<1>2. ASSUME NEW l \in Fetch, NEW h \in Holder, ClickEdit(l, h)
      PROVE  DialogsInv'
  <2>1. /\ ~dialog.open /\ fetch' = [fetch EXCEPT ![l] = h]
        /\ sure' = SureIf(Quiet, h, {})
        /\ UNCHANGED <<page, row, save, avatar>>
    BY <1>2 DEF ClickEdit
  <2>2. h # Nobody /\ l \in InFlight'
    BY <2>1, DialogsAssumption
  <2>3. /\ dialog' \in DialogState /\ dialog'.of = h
        /\ dialog' = [open |-> TRUE, of |-> h, chosen |-> {}] \/ ~dialog'.open
    BY <1>2, <2>1 DEF ClickEdit
  <2>4. sure'.known => \A k \in InFlight' : fetch'[k] = sure'.of
    BY <2>1 DEF Quiet, Still, SureIf, NotSure
  <2>5. Quiet \in BOOLEAN
    BY DEF Quiet, Still, SaveState
  <2>6. sure'.known => ~avatar'.busy
    BY <2>1 DEF Quiet, Still, SureIf, NotSure
  <2> QED BY <2>1, <2>2, <2>3, <2>4, <2>5, <2>6 DEF SureIf, NotSure
<1> QED BY <1>1, <1>2

\* An answer fills the form the administrator waits for, if he waits for one only.
LEMMA AnswersInv ==
  ASSUME DialogsInv, NEW l \in Fetch, Answered(l) \/ NotAnswered(l)
  PROVE  DialogsInv'
<1> USE DEF DialogsInv, FormIsOwn, DialogsTypeOK, DialogState, AvatarState, SureState, Links, InFlight
<1>1. l \in InFlight /\ fetch' = [fetch EXCEPT ![l] = Nobody] /\ UNCHANGED <<page, row, save, avatar>>
  BY DEF Answered, NotAnswered
<1>2. CASE Answered(l)
  <2> DEFINE items == row[fetch[l]].items
  <2>1. items \in Links
    BY <1>1 DEF RowState
  <2>2. dialog' \in DialogState /\ dialog'.of = dialog.of /\ dialog'.chosen = items
    BY <1>2, <2>1 DEF Answered, Filled
  <2>3. sure' = IF fetch[l] = sure.of THEN SureIf(sure.known, sure.of, items) ELSE sure
    BY <1>2 DEF Answered
  <2>4. sure.known => fetch[l] = sure.of /\ dialog.of = sure.of
    BY <1>1
  <2>5. \A k \in InFlight' : k \in InFlight /\ fetch'[k] = fetch[k]
    BY <1>1
  <2> QED BY <1>1, <2>1, <2>2, <2>3, <2>4, <2>5 DEF SureIf, NotSure
<1>3. CASE NotAnswered(l)
  <2>1. dialog' \in DialogState /\ sure' = NotSure
    BY <1>3 DEF NotAnswered, NotFilled
  <2> QED BY <1>1, <2>1 DEF NotSure
<1> QED BY <1>2, <1>3

\* Without an answer outstanding, a change changes both what is on screen and
\* what is meant, in the same way.
LEMMA ChoicesInv ==
  ASSUME DialogsInv, NEW i \in Item,
         ToggleMenu(i) \/ SelectAll \/ DeselectAll \/ (i \in DeptItem /\ SelectDept(i))
  PROVE  DialogsInv'
<1> USE DEF DialogsInv, FormIsOwn, DialogsTypeOK, DialogState, AvatarState, SureState, Links, InFlight
<1>1. PICK chosen, wanted \in Links :
        /\ Choose(chosen, wanted)
        /\ dialog.chosen = sure.wanted => chosen = wanted
  <2>1. dialog.chosen \in Links /\ sure.wanted \in Links
    OBVIOUS
  <2>2. CASE ToggleMenu(i)
    BY <2>1, <2>2 DEF ToggleMenu, Flip
  <2>3. CASE SelectAll
    BY <2>3 DEF SelectAll
  <2>4. CASE DeselectAll
    BY <2>4 DEF DeselectAll
  <2>5. CASE i \in DeptItem /\ SelectDept(i)
    BY <2>1, <2>5 DEF SelectDept, WithDept
  <2> QED BY <2>2, <2>3, <2>4, <2>5
<1>2. /\ dialog.open /\ dialog' = [dialog EXCEPT !.chosen = chosen]
      /\ sure' = SureIf(sure.known /\ Still, sure.of, wanted)
      /\ UNCHANGED <<page, row, fetch, save, avatar>>
  BY <1>1 DEF Choose
<1> QED BY <1>1, <1>2 DEF Still, SureIf, NotSure

\* A save does not touch the form until it succeeds, and then ends it.
LEMMA SavesInv ==
  ASSUME DialogsInv, Cancel \/ Submit \/ SaveSucceeds \/ SaveFails
  PROVE  DialogsInv'
<1> USE DEF DialogsInv, FormIsOwn, DialogsTypeOK, DialogState, AvatarState, SureState, SaveState, Links, InFlight
<1>1. CASE Cancel
  BY <1>1 DEF Cancel
<1>2. CASE Submit
  BY <1>2 DEF Submit
<1>3. ASSUME StoreSave, save.busy PROVE row' \in [Holder -> RowState]
  <2>1. Created(save.items) \in Links
    BY DEF Created
  <2>2. \A h \in Holder : Updated(row[h].items, save.items) \in Links
    BY DEF Updated, Replaced, RowState
  <2> QED BY <1>3, <2>1, <2>2 DEF StoreSave, RowState
<1>4. CASE SaveSucceeds
  BY <1>3, <1>4 DEF SaveSucceeds, ResetForm, NotSure, NoSave
<1>5. CASE SaveFails
  BY <1>3, <1>5 DEF SaveFails, NoSave
<1> QED BY <1>1, <1>2, <1>4, <1>5

\* A picture chosen while nothing was to be answered brings back the form that
\* is still the one on screen.
LEMMA PicturesInv ==
  ASSUME DialogsInv, ChoosePicture \/ PictureStored \/ PictureFails
  PROVE  DialogsInv'
<1> USE DEF DialogsInv, FormIsOwn, DialogsTypeOK, DialogState, AvatarState, SureState, Links, InFlight
<1>1. CASE ChoosePicture
  BY <1>1 DEF ChoosePicture, Still, SureIf, NotSure
<1>2. CASE PictureStored
  BY <1>2 DEF PictureStored, NoAvatar
<1>3. CASE PictureFails
  BY <1>3 DEF PictureFails, NoAvatar
<1> QED BY <1>1, <1>2, <1>3

LEMMA DialogsNextInv == DialogsInv /\ [DialogsNext]_dialogVars => DialogsInv'
<1> SUFFICES ASSUME DialogsInv, [DialogsNext]_dialogVars PROVE DialogsInv'
  OBVIOUS
<1> USE DEF DialogsInv, FormIsOwn, DialogsTypeOK, InFlight
<1>1. CASE UNCHANGED dialogVars
  BY <1>1 DEF dialogVars
<1>2. ASSUME NEW h \in Holder, WriteElsewhere(h) \/ RemoveElsewhere(h) PROVE DialogsInv'
  BY <1>2 DEF WriteElsewhere, RemoveElsewhere, RowState, Links
<1>3. ASSUME SelectAll \/ DeselectAll, Item = {} PROVE DialogsInv'
  <2>1. Choose({}, {})
    BY <1>3 DEF SelectAll, DeselectAll
  <2>2. /\ dialog' = [dialog EXCEPT !.chosen = {}] /\ UNCHANGED <<page, row, fetch, save, avatar>>
        /\ sure' = SureIf(sure.known /\ Still, sure.of, {})
    BY <2>1 DEF Choose
  <2> QED BY <2>2 DEF Still, SureIf, NotSure, DialogState, AvatarState, SureState, Links
<1> QED
  BY <1>1, <1>2, <1>3, ClicksInv, AnswersInv, ChoicesInv, SavesInv, PicturesInv, DialogsAssumption
     DEF DialogsNext

\* The form of an administrator who waits for the answers holds what was loaded
\* for the row that was clicked, and changed since.
THEOREM OwnForms == DialogsSpec => []FormIsOwn
<1>1. DialogsInv => FormIsOwn
  BY DEF DialogsInv
<1> QED BY <1>1, DialogsInitInv, DialogsNextInv, PTL DEF DialogsSpec
=============================================================================
