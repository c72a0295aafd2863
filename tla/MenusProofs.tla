----------------------------- MODULE MenusProofs -----------------------------
(***************************************************************************)
(* What Menus guarantees for any number of menus and of open dialogs.      *)
(***************************************************************************)
EXTENDS Menus, FiniteSetTheorems, SequenceTheorems, DataInduction

-----------------------------------------------------------------------------
(* Ways up.                                                                 *)

\* The way up is closed, and in whatever is.
LEMMA UpwardsLeast ==
  ASSUME NEW rows, NEW parent, NEW m
  PROVE  /\ Upwards(rows, parent, m) \subseteq rows
         /\ \A q \in Upwards(rows, parent, m) \union {m} :
               parent[q] \in rows => parent[q] \in Upwards(rows, parent, m)
         /\ \A S \in SUBSET rows :
               (\A q \in S \union {m} : parent[q] \in rows => parent[q] \in S)
                  => Upwards(rows, parent, m) \subseteq S
BY DEF Upwards

\* One step up, and on from there.
LEMMA UpwardsStep ==
  ASSUME NEW rows, NEW parent, NEW m
  PROVE  /\ parent[m] \in rows =>
              Upwards(rows, parent, m) = {parent[m]} \union Upwards(rows, parent, parent[m])
         /\ parent[m] \notin rows => Upwards(rows, parent, m) = {}
<1> DEFINE p == parent[m]
           U(x) == Upwards(rows, parent, x)
<1>1. ASSUME p \in rows PROVE U(m) \subseteq {p} \union U(p)
  <2>1. {p} \union U(p) \subseteq rows
    BY <1>1, UpwardsLeast
  <2>2. \A q \in ({p} \union U(p)) \union {m} :
           parent[q] \in rows => parent[q] \in {p} \union U(p)
    BY UpwardsLeast
  <2> HIDE DEF p, U
  <2>3. \A S \in SUBSET rows :
          (\A q \in S \union {m} : parent[q] \in rows => parent[q] \in S) => U(m) \subseteq S
    BY UpwardsLeast DEF U
  <2> QED BY <2>1, <2>2, <2>3
<1>2. ASSUME p \in rows PROVE {p} \union U(p) \subseteq U(m)
  <2>1. p \in U(m)
    BY <1>2, UpwardsLeast
  <2>2. \A q \in U(m) \union {p} : parent[q] \in rows => parent[q] \in U(m)
    BY <2>1, UpwardsLeast
  <2>3. U(m) \in SUBSET rows
    BY UpwardsLeast
  <2>4. U(p) \subseteq U(m)
    <3> HIDE DEF p
    <3> QED BY <2>2, <2>3, UpwardsLeast
  <2> QED BY <2>1, <2>4
<1>3. ASSUME p \notin rows PROVE U(m) = {}
  <2>1. \A q \in {} \union {m} : parent[q] \in rows => parent[q] \in {}
    BY <1>3
  <2>2. {} \in SUBSET rows
    OBVIOUS
  <2>3. U(m) \subseteq {}
    <3> HIDE DEF p
    <3> QED BY <2>1, <2>2, UpwardsLeast
  <2> QED BY <2>3
<1> QED BY <1>1, <1>2, <1>3

\* What is above one above m is above m.
LEMMA UpwardsTransitive ==
  ASSUME NEW rows, NEW parent, NEW m, NEW p \in Upwards(rows, parent, m)
  PROVE  Upwards(rows, parent, p) \subseteq Upwards(rows, parent, m)
<1> DEFINE T == Upwards(rows, parent, m)
<1>1. T \in SUBSET rows /\ \A q \in T \union {p} : parent[q] \in rows => parent[q] \in T
  BY UpwardsLeast
<1> HIDE DEF T
<1>2. Upwards(rows, parent, p) \subseteq T
  BY <1>1, UpwardsLeast
<1> QED BY <1>2 DEF T

\* A way up that comes back to where it started comes back from everywhere.
LEMMA CycleReturns ==
  ASSUME NEW rows, NEW parent, NEW x, x \in Upwards(rows, parent, x),
         NEW y \in Upwards(rows, parent, x)
  PROVE  x \in Upwards(rows, parent, y)
<1> DEFINE U(z) == Upwards(rows, parent, z)
           S == {z \in rows : x \in U(z) \union {z}}
<1>1. x \in rows
  BY UpwardsLeast
<1>2. ASSUME NEW q \in S \union {x}, parent[q] \in rows PROVE parent[q] \in S
  <2>1. x \in U(q)
    BY <1>2
  <2>2. U(q) = {parent[q]} \union U(parent[q])
    BY <1>2, UpwardsStep
  <2> QED BY <1>2, <2>1, <2>2
<1>3. U(x) \subseteq S
  <2> HIDE DEF S
  <2>1. S \in SUBSET rows
    BY DEF S
  <2> QED BY <1>2, <2>1, UpwardsLeast
<1> QED BY <1>3

\* With fewer rows, and for those that are left the old parent or none, the way
\* up is no longer.
LEMMA UpwardsShrinks ==
  ASSUME NEW rows, NEW parent, NEW left \in SUBSET rows, NEW after, NEW m,
         \A q \in left \union {m} : after[q] \in left => after[q] = parent[q]
  PROVE  Upwards(left, after, m) \subseteq Upwards(rows, parent, m)
<1> DEFINE S == Upwards(rows, parent, m) \intersect left
<1>1. ASSUME NEW q \in S \union {m}, after[q] \in left PROVE after[q] \in S
  <2>1. after[q] = parent[q] /\ parent[q] \in rows
    BY <1>1
  <2>2. q \in Upwards(rows, parent, m) \union {m}
    OBVIOUS
  <2>3. parent[q] \in Upwards(rows, parent, m)
    BY <2>1, <2>2, UpwardsLeast
  <2> QED BY <1>1, <2>1, <2>3
<1>2. S \in SUBSET left
  OBVIOUS
<1>3. Upwards(left, after, m) \subseteq S
  <2> HIDE DEF S
  <2> QED BY <1>1, <1>2, UpwardsLeast
<1> QED BY <1>3

\* A cycle whose members had the same parents before was one before.
LEMMA CycleBefore ==
  ASSUME NEW rows, NEW parent, NEW now, NEW after, NEW x, x \in Upwards(now, after, x),
         \A y \in Upwards(now, after, x) : y \in rows /\ parent[y] = after[y]
  PROVE  Upwards(rows, parent, x) = Upwards(now, after, x)
<1> DEFINE C == Upwards(now, after, x)
<1>1. C \subseteq now /\ \A y \in C : after[y] \in now => after[y] \in C
  BY UpwardsLeast
<1>2. \A y \in C : after[y] \in C
  <2> TAKE y \in C
  <2>1. x \in Upwards(now, after, y)
    BY CycleReturns
  <2>2. after[y] \in now
    BY <2>1, UpwardsStep
  <2> QED BY <1>1, <2>2
<1>3. Upwards(rows, parent, x) \subseteq C
  <2>1. C \in SUBSET rows /\ \A q \in C \union {x} : parent[q] \in rows => parent[q] \in C
    BY <1>2
  <2> HIDE DEF C
  <2> QED BY <2>1, UpwardsLeast
<1>4. C \subseteq Upwards(rows, parent, x)
  <2> DEFINE S == C \intersect Upwards(rows, parent, x)
  <2>1. ASSUME NEW q \in S \union {x}, after[q] \in now PROVE after[q] \in S
    <3>1. q \in C /\ after[q] \in C /\ parent[q] = after[q] /\ parent[q] \in rows
      BY <1>2
    <3>2. parent[q] \in Upwards(rows, parent, x)
      BY <3>1, UpwardsLeast
    <3> QED BY <3>1, <3>2
  <2>2. S \in SUBSET now
    BY <1>1
  <2> HIDE DEF S
  <2>3. Upwards(now, after, x) \subseteq S
    BY <2>1, <2>2, UpwardsLeast
  <2> QED BY <2>3 DEF S
<1> QED BY <1>3, <1>4

\* From a row with nothing at the top above it the way up ends in a cycle, as
\* there are finitely many.
LEMMA EndsInCycle ==
  ASSUME NEW rows, IsFiniteSet(rows), NEW parent, NEW m, parent[m] \in rows,
         \A q \in Upwards(rows, parent, m) : parent[q] \in rows
  PROVE  \E p \in Upwards(rows, parent, m) : p \in Upwards(rows, parent, p)
<1> DEFINE U(x) == Upwards(rows, parent, x)
           rank == [p \in rows |-> Cardinality(U(p))]
<1>1. \A x : U(x) \subseteq rows /\ IsFiniteSet(U(x)) /\ Cardinality(U(x)) \in Nat
  BY UpwardsLeast, FS_Subset, FS_CardinalityType
<1>2. U(m) # {} /\ U(m) \subseteq rows
  BY UpwardsLeast
<1>3. \A p \in U(m) : rank[p] \in Nat
  BY <1>1, <1>2
<1>4. PICK p \in U(m) : \A q \in U(m) : rank[p] <= rank[q]
  <2> HIDE DEF rank, U
  <2> QED BY <1>2, <1>3, LeastRank
<1> DEFINE q == parent[p]
<1>5. q \in U(m) /\ q \in rows
  BY UpwardsLeast
<1>6. U(p) = {q} \union U(q)
  BY <1>5, UpwardsStep
<1>7. Cardinality(U(p)) <= Cardinality(U(q))
  BY <1>2, <1>4, <1>5
<1>8. q \in U(q)
  <2>1. SUFFICES ASSUME q \notin U(q) PROVE FALSE
    OBVIOUS
  <2> HIDE DEF q, U
  <2>2. Cardinality(U(q) \union {q}) = Cardinality(U(q)) + 1
    BY <1>1, <2>1, FS_AddElement
  <2>3. U(p) = U(q) \union {q}
    BY <1>6
  <2> QED BY <1>1, <1>7, <2>2, <2>3
<1> QED BY <1>5, <1>8

-----------------------------------------------------------------------------
(* Ways down.                                                               *)

\* What hangs below the nodes is closed downwards, and in whatever is.
LEMMA GrownLeast ==
  ASSUME NEW rows, NEW nodes
  PROVE  /\ nodes \subseteq Grown(rows, nodes)
         /\ Grown(rows, nodes) \subseteq rows \union nodes
         /\ \A c \in rows : menu[c].parent \in Grown(rows, nodes) => c \in Grown(rows, nodes)
         /\ \A S \in SUBSET (rows \union nodes) :
               nodes \subseteq S /\ (\A c \in rows : menu[c].parent \in S => c \in S)
                  => Grown(rows, nodes) \subseteq S
BY DEF Grown

\* What is below one below the nodes is below them.
LEMMA GrownTransitive ==
  ASSUME NEW rows, NEW nodes, NEW m \in Grown(rows, nodes), nodes \subseteq rows
  PROVE  Grown(rows, {m}) \subseteq Grown(rows, nodes)
<1> DEFINE G == Grown(rows, nodes)
<1>1. /\ G \in SUBSET (rows \union {m}) /\ {m} \subseteq G
      /\ \A c \in rows : menu[c].parent \in G => c \in G
  BY GrownLeast
<1> HIDE DEF G
<1>2. Grown(rows, {m}) \subseteq G
  BY <1>1, GrownLeast
<1> QED BY <1>2 DEF G

-----------------------------------------------------------------------------
(* The invariant.                                                           *)

ParentOf == [m \in Menu |-> menu[m].parent]

\* The parents as a function, and where they can be.
LEMMA AboveIs ==
  ASSUME MenusTypeOK
  PROVE  /\ \A m : Above(Rows, m) = Upwards(Rows, ParentOf, m)
         /\ \A m \in Menu : ParentOf[m] = menu[m].parent /\ ParentOf[m] \in Spot
         /\ Rows \subseteq Menu /\ IsFiniteSet(Rows) /\ Top \notin Rows
<1>1. Rows \subseteq Menu
  BY DEF Rows
<1>2. \A m \in Menu : menu[m].parent \in Spot
  BY DEF MenusTypeOK, MenuRow
<1>3. IsFiniteSet(Rows) /\ Top \notin Rows
  BY <1>1, MenusAssumption, FS_Subset
<1> QED BY <1>1, <1>2, <1>3 DEF Above, ParentOf

ParentsAreThere == \A m \in Rows : menu[m].parent \in Rows \union {Top}

\* A menu above itself was put there by a dialog that was out of date.
CyclesAreOvertaken ==
    \A m \in Rows : m \in Above(Rows, m) => Above(Rows, m) \intersect overtaken # {}

\* A dialog that is up to date offers nothing below its menu.
OptionsAreElsewhere ==
    \A d \in Desk : desk[d].task = "edit" /\ ~desk[d].late =>
        \A o \in desk[d].options \intersect Rows : desk[d].menu \notin Above(Rows, o) \union {o}

MenusInv == MenusTypeOK /\ ParentsAreThere /\ CyclesAreOvertaken /\ OptionsAreElsewhere

LEMMA MenusInitInv == MenusInit => MenusInv
<1> SUFFICES ASSUME MenusInit PROVE MenusInv
  OBVIOUS
<1>1. Rows = {} /\ \A d \in Desk : desk[d].task = "none"
  BY DEF MenusInit, Rows, NoMenu, NoTask
<1>2. NoMenu \in MenuRow /\ NoTask \in DeskState
  BY DEF NoMenu, MenuRow, NoTask, DeskState, Spot
<1>3. MenusTypeOK
  BY <1>2 DEF MenusInit, MenusTypeOK
<1> QED BY <1>1, <1>3 DEF MenusInv, ParentsAreThere, CyclesAreOvertaken, OptionsAreElsewhere

\* Steps that leave the parents as they are, and open no dialog.
LEMMA SameParentsInv ==
  ASSUME MenusInv, MenusTypeOK', Rows' = Rows, overtaken' = overtaken,
         \A m \in Rows : menu'[m].parent = menu[m].parent,
         \A d \in Desk : desk'[d] = desk[d] \/ desk'[d].task # "edit"
  PROVE  MenusInv'
<1>1. \A m \in Rows : ParentOf[m] = menu[m].parent /\ ParentOf'[m] = ParentOf[m]
  BY DEF ParentOf, Rows
<1>2. \A m \in Rows : Upwards(Rows, ParentOf', m) = Upwards(Rows, ParentOf, m)
  <2> TAKE m \in Rows
  <2>1. Upwards(Rows, ParentOf', m) \subseteq Upwards(Rows, ParentOf, m)
    BY <1>1, UpwardsShrinks
  <2>2. Upwards(Rows, ParentOf, m) \subseteq Upwards(Rows, ParentOf', m)
    BY <1>1, UpwardsShrinks
  <2> QED BY <2>1, <2>2
<1>3. \A m \in Rows : Above(Rows, m)' = Above(Rows, m)
  <2> TAKE m \in Rows
  <2>1. Above(Rows, m) = Upwards(Rows, ParentOf, m)
    BY AboveIs DEF MenusInv
  <2>2. Above(Rows, m)' = Upwards(Rows', ParentOf', m)
    BY DEF Above, ParentOf
  <2> QED BY <1>2, <2>1, <2>2
<1>4. ParentsAreThere'
  BY DEF MenusInv, ParentsAreThere
<1>5. CyclesAreOvertaken'
  BY <1>3 DEF MenusInv, CyclesAreOvertaken
<1>6. OptionsAreElsewhere'
  <2> SUFFICES ASSUME NEW d \in Desk, desk'[d].task = "edit", ~desk'[d].late,
                      NEW o \in desk'[d].options \intersect Rows
               PROVE  desk'[d].menu \notin Above(Rows, o)' \union {o}
    BY DEF OptionsAreElsewhere
  <2>1. desk'[d] = desk[d]
    OBVIOUS
  <2>2. desk[d].menu \notin Above(Rows, o) \union {o}
    BY <2>1 DEF MenusInv, OptionsAreElsewhere
  <2> QED BY <1>3, <2>1, <2>2
<1> QED BY <1>4, <1>5, <1>6 DEF MenusInv

\* A dialog that opens offers what is not below its menu now.
LEMMA OpenEditInv ==
  ASSUME MenusInv, NEW d \in Desk, NEW m \in Menu, OpenEdit(d, m)
  PROVE  MenusInv'
<1> DEFINE opened == [NoTask EXCEPT !.task = "edit", !.menu = m, !.options = ParentMenuOptions(m)]
<1>1. /\ m \in Tree(Rows) /\ UNCHANGED <<menu, overtaken>>
      /\ desk' = [desk EXCEPT ![d] = opened]
  BY DEF OpenEdit
<1>2. Rows \subseteq Menu /\ Tree(Rows) \subseteq Rows
  <2>1. Grown(Rows, {Top}) \subseteq Rows \union {Top}
    BY GrownLeast
  <2> QED BY <2>1 DEF Rows, Tree
<1>3. opened.task = "edit" /\ opened.menu = m /\ opened.options = ParentMenuOptions(m)
  BY DEF NoTask
<1>4. opened \in DeskState
  <2>1. ParentMenuOptions(m) \subseteq Menu
    BY <1>2 DEF ParentMenuOptions
  <2> QED BY <2>1 DEF NoTask, DeskState, Spot
<1> HIDE DEF opened
<1>5. MenusTypeOK'
  BY <1>1, <1>4 DEF MenusInv, MenusTypeOK
<1>6. Rows' = Rows /\ \A o : Above(Rows, o)' = Above(Rows, o)
  BY <1>1 DEF Rows, Above
<1>7. ParentsAreThere' /\ CyclesAreOvertaken'
  BY <1>1, <1>6 DEF MenusInv, ParentsAreThere, CyclesAreOvertaken
<1>8. ASSUME NEW o \in ParentMenuOptions(m) \intersect Rows PROVE m \notin Above(Rows, o) \union {o}
  <2>1. o \notin Grown(Rows, {m})
    BY <1>8 DEF ParentMenuOptions, DescendantIds
  <2>2. o # m
    BY <2>1, GrownLeast
  <2> DEFINE S == {p \in Rows : o \in Grown(Rows, {p})}
  <2>3. ASSUME NEW q \in S \union {o}, ParentOf[q] \in Rows PROVE ParentOf[q] \in S
    <3>1. q \in Rows /\ ParentOf[q] = menu[q].parent
      BY <1>2, <1>8, <2>3, AboveIs DEF MenusInv
    <3>2. q \in Grown(Rows, {ParentOf[q]})
      BY <3>1, GrownLeast
    <3>3. o \in Grown(Rows, {q})
      BY <2>3, GrownLeast
    <3>4. Grown(Rows, {q}) \subseteq Grown(Rows, {ParentOf[q]})
      <4>1. {ParentOf[q]} \subseteq Rows
        BY <2>3
      <4> QED BY <3>2, <4>1, GrownTransitive
    <3> QED BY <2>3, <3>3, <3>4
  <2>4. Above(Rows, o) \subseteq S
    <3>1. S \in SUBSET Rows
      OBVIOUS
    <3> HIDE DEF S
    <3> QED BY <2>3, <3>1, UpwardsLeast, AboveIs DEF MenusInv
  <2> QED BY <2>1, <2>2, <2>4
<1>9. OptionsAreElsewhere'
  <2> SUFFICES ASSUME NEW e \in Desk, desk'[e].task = "edit", ~desk'[e].late,
                      NEW o \in desk'[e].options \intersect Rows
               PROVE  desk'[e].menu \notin Above(Rows, o) \union {o}
    BY <1>6 DEF OptionsAreElsewhere
  <2>1. CASE e = d
    BY <1>1, <1>3, <1>8, <2>1 DEF MenusInv, MenusTypeOK
  <2>2. CASE e # d
    BY <1>1, <2>2 DEF MenusInv, MenusTypeOK, OptionsAreElsewhere
  <2> QED BY <2>1, <2>2
<1> QED BY <1>5, <1>7, <1>9 DEF MenusInv

\* A new row has nothing below it.
LEMMA CreateMenuInv ==
  ASSUME MenusInv, NEW m \in Menu, CreateMenu(m)
  PROVE  MenusInv'
<1>1. PICK p \in Rows \union {Top}, s \in {"ACTIVE", "INACTIVE"} :
        menu' = [menu EXCEPT ![m] = [status |-> s, parent |-> p]]
  BY DEF CreateMenu
<1>2. /\ UNCHANGED <<desk, overtaken>> /\ m \notin Rows
      /\ \A d \in Desk : desk[d].menu # m /\ m \notin desk[d].options
  BY DEF CreateMenu, FreeId
<1>3. /\ menu'[m].status = s /\ menu'[m].parent = p
      /\ \A n \in Menu : n # m => menu'[n] = menu[n]
      /\ Rows \subseteq Menu /\ Top \notin Menu
  BY <1>1, MenusAssumption DEF MenusInv, MenusTypeOK, Rows
<1>4. Rows' = Rows \union {m}
  BY <1>3 DEF Rows
<1>5. MenusTypeOK'
  <2>1. [status |-> s, parent |-> p] \in MenuRow
    BY <1>3 DEF MenuRow, Spot
  <2> QED BY <1>1, <1>2, <2>1 DEF MenusInv, MenusTypeOK
<1>6. ParentsAreThere'
  BY <1>3, <1>4 DEF MenusInv, ParentsAreThere
<1>7. /\ \A n \in Rows : ParentOf'[n] = ParentOf[n] /\ ParentOf[n] \in Rows \union {Top}
      /\ ParentOf'[m] = p
  BY <1>2, <1>3 DEF ParentOf, MenusInv, ParentsAreThere
<1>8. ASSUME NEW n \in Rows PROVE Upwards(Rows', ParentOf', n) = Upwards(Rows, ParentOf, n)
  <2>1. Upwards(Rows, ParentOf, n) \subseteq Upwards(Rows', ParentOf', n)
    <3>1. Rows \in SUBSET (Rows')
      BY <1>4
    <3>2. \A q \in Rows \union {n} : ParentOf[q] \in Rows => ParentOf[q] = ParentOf'[q]
      BY <1>7, <1>8
    <3> QED BY <3>1, <3>2, UpwardsShrinks
  <2>2. Upwards(Rows', ParentOf', n) \subseteq Upwards(Rows, ParentOf, n)
    <3> DEFINE T == Upwards(Rows, ParentOf, n)
    <3>1. T \in SUBSET (Rows') /\ T \subseteq Rows
      BY <1>4, UpwardsLeast
    <3>2. ASSUME NEW q \in T \union {n}, ParentOf'[q] \in Rows' PROVE ParentOf'[q] \in T
      <4>1. q \in Rows /\ ParentOf'[q] = ParentOf[q] /\ ParentOf[q] \in Rows
        BY <1>2, <1>3, <1>4, <1>7, <1>8, <3>1, <3>2
      <4> QED BY <3>2, <4>1, UpwardsLeast
    <3> HIDE DEF T
    <3>3. Upwards(Rows', ParentOf', n) \subseteq T
      BY <3>1, <3>2, UpwardsLeast
    <3> QED BY <3>3 DEF T
  <2> QED BY <2>1, <2>2
<1>9. \A n : Above(Rows, n) = Upwards(Rows, ParentOf, n) /\ Above(Rows, n)' = Upwards(Rows', ParentOf', n)
  BY DEF Above, ParentOf
<1>10. m \notin Upwards(Rows', ParentOf', m)
  <2>1. CASE p = Top
    <3>1. ParentOf'[m] \notin Rows'
      BY <1>3, <1>4, <1>7, <2>1
    <3> QED BY <3>1, UpwardsStep
  <2>2. CASE p \in Rows
    <3>1. Upwards(Rows', ParentOf', m) = {p} \union Upwards(Rows', ParentOf', p)
      BY <1>4, <1>7, <2>2, UpwardsStep
    <3>2. Upwards(Rows', ParentOf', p) \subseteq Rows
      BY <1>8, <2>2, UpwardsLeast
    <3> QED BY <1>2, <2>2, <3>1, <3>2
  <2> QED BY <2>1, <2>2
<1>11. CyclesAreOvertaken'
  <2> SUFFICES ASSUME NEW n \in Rows', n \in Above(Rows, n)'
               PROVE  Above(Rows, n)' \intersect overtaken' # {}
    BY DEF CyclesAreOvertaken
  <2>1. n \in Rows
    BY <1>4, <1>9, <1>10
  <2>2. Above(Rows, n)' = Above(Rows, n)
    BY <1>8, <1>9, <2>1
  <2> QED BY <1>2, <2>1, <2>2 DEF MenusInv, CyclesAreOvertaken
<1>12. OptionsAreElsewhere'
  <2> SUFFICES ASSUME NEW d \in Desk, desk'[d].task = "edit", ~desk'[d].late,
                      NEW o \in desk'[d].options \intersect Rows'
               PROVE  desk'[d].menu \notin Above(Rows, o)' \union {o}
    BY DEF OptionsAreElsewhere
  <2>1. desk'[d] = desk[d] /\ o \in desk[d].options \intersect Rows
    BY <1>2, <1>4
  <2>2. Above(Rows, o)' = Above(Rows, o)
    BY <1>8, <1>9, <2>1
  <2> QED BY <2>1, <2>2 DEF MenusInv, OptionsAreElsewhere
<1> QED BY <1>5, <1>6, <1>11, <1>12 DEF MenusInv

\* Steps that move no menu and offer no places.
LEMMA CloseInv ==
  ASSUME MenusInv, NEW d \in Desk, CloseEdit(d) \/ \E m \in Menu : BeginRemoveMenu(d, m)
  PROVE  MenusInv'
<1>1. UNCHANGED <<menu, overtaken>>
  BY DEF CloseEdit, BeginRemoveMenu
<1>2. PICK k \in DeskState : k.task # "edit" /\ desk' = [desk EXCEPT ![d] = k]
  <2>1. NoTask \in DeskState /\ NoTask.task # "edit"
    BY DEF NoTask, DeskState, Spot
  <2>2. ASSUME NEW m \in Menu, BeginRemoveMenu(d, m)
        PROVE  \E k \in DeskState : k.task # "edit" /\ desk' = [desk EXCEPT ![d] = k]
    <3>1. [NoTask EXCEPT !.task = "remove", !.menu = m] \in DeskState
      BY DEF NoTask, DeskState, Spot
    <3>2. [NoTask EXCEPT !.task = "remove", !.menu = m].task # "edit"
      BY DEF NoTask
    <3> QED BY <2>2, <3>1, <3>2 DEF BeginRemoveMenu
  <2> QED BY <2>1, <2>2 DEF CloseEdit
<1>3. MenusTypeOK' /\ \A e \in Desk : desk'[e] = desk[e] \/ desk'[e].task # "edit"
  BY <1>1, <1>2 DEF MenusInv, MenusTypeOK
<1>4. Rows' = Rows
  BY <1>1 DEF Rows
<1> QED BY <1>1, <1>3, <1>4, SameParentsInv

\* A dialog that is up to date moves its menu where it cannot meet itself; one
\* that is not leaves its mark on the cycle.
LEMMA MoveInv ==
  ASSUME MenusInv, MenusTypeOK', NEW d \in Desk, NEW m \in Rows, NEW p \in Rows,
         desk[d].task = "edit", desk[d].menu = m, p \in desk[d].options,
         Rows' = Rows, menu'[m].parent = p,
         \A n \in Menu : n # m => menu'[n].parent = menu[n].parent,
         overtaken' = IF desk[d].late THEN overtaken \union {m} ELSE overtaken \ {m},
         \A e \in Desk : desk'[e].task = "edit" => desk'[e].late
  PROVE  MenusInv'
<1>1. Rows \subseteq Menu /\ Top \notin Menu
  BY MenusAssumption DEF Rows
<1>2. /\ ParentOf'[m] = p
      /\ \A n \in Rows : n # m => ParentOf'[n] = ParentOf[n]
  BY <1>1 DEF ParentOf
<1>3. \A n : Above(Rows, n) = Upwards(Rows, ParentOf, n) /\ Above(Rows, n)' = Upwards(Rows, ParentOf', n)
  BY DEF Above, ParentOf
<1>4. ParentsAreThere'
  BY <1>1 DEF MenusInv, ParentsAreThere
<1>5. OptionsAreElsewhere'
  BY DEF OptionsAreElsewhere
<1>6. ASSUME NEW x \in Rows, x \in Above(Rows, x)' PROVE Above(Rows, x)' \intersect overtaken' # {}
  <2> DEFINE C == Upwards(Rows, ParentOf', x)
  <2>1. x \in C /\ C \subseteq Rows
    BY <1>3, <1>6, UpwardsLeast
  <2>2. CASE m \notin C
    <3>1. \A y \in C : y \in Rows /\ ParentOf[y] = ParentOf'[y]
      BY <1>2, <2>1, <2>2
    <3>2. Upwards(Rows, ParentOf, x) = C
      BY <2>1, <3>1, CycleBefore
    <3>3. C \intersect overtaken # {}
      BY <1>3, <2>1, <3>2 DEF MenusInv, CyclesAreOvertaken
    <3> QED BY <1>3, <2>2, <3>3
  <2>3. CASE m \in C /\ desk[d].late
    BY <1>3, <2>3
  <2>4. CASE m \in C /\ ~desk[d].late
    <3>1. m \notin Upwards(Rows, ParentOf, p) \union {p}
      BY <1>3, <2>4 DEF MenusInv, OptionsAreElsewhere
    <3>2. Upwards(Rows, ParentOf', p) \subseteq Upwards(Rows, ParentOf, p)
      <4> DEFINE T == Upwards(Rows, ParentOf, p)
      <4>1. T \in SUBSET Rows
        BY UpwardsLeast
      <4>2. ASSUME NEW q \in T \union {p}, ParentOf'[q] \in Rows PROVE ParentOf'[q] \in T
        <5>1. ParentOf'[q] = ParentOf[q]
          BY <1>2, <3>1, <4>1, <4>2
        <5> QED BY <4>2, <5>1, UpwardsLeast
      <4> HIDE DEF T
      <4>3. Upwards(Rows, ParentOf', p) \subseteq T
        BY <4>1, <4>2, UpwardsLeast
      <4> QED BY <4>3 DEF T
    <3>3. Upwards(Rows, ParentOf', m) = {p} \union Upwards(Rows, ParentOf', p)
      BY <1>2, UpwardsStep
    <3>4. m \notin Upwards(Rows, ParentOf', m)
      BY <3>1, <3>2, <3>3
    <3>5. x \in Upwards(Rows, ParentOf', m)
      BY <2>1, <2>4, CycleReturns
    <3>6. C \subseteq Upwards(Rows, ParentOf', m)
      BY <3>5, UpwardsTransitive
    <3> QED BY <2>4, <3>4, <3>6
  <2> QED BY <2>2, <2>3, <2>4
<1>7. CyclesAreOvertaken'
  BY <1>6 DEF CyclesAreOvertaken
<1> QED BY <1>4, <1>5, <1>7 DEF MenusInv

\* A save that names another parent is a move, any other changes no parent.
LEMMA SubmitEditInv ==
  ASSUME MenusInv, NEW d \in Desk, NEW chosen \in Spot, SubmitEdit(d, chosen)
  PROVE  MenusInv'
<1> DEFINE m == desk[d].menu
           parent == ParentSent(chosen, menu[m].parent)
<1>1. /\ desk[d].task = "edit" /\ chosen \in desk[d].options \union {Top}
      /\ m \in Rows /\ parent \in Rows \union {Top}
  BY DEF SubmitEdit
<1>2. PICK s \in {"ACTIVE", "INACTIVE"} : menu' = [menu EXCEPT ![m] = [status |-> s, parent |-> parent]]
  BY DEF SubmitEdit
<1>3. Rows \subseteq Menu /\ Top \notin Menu /\ m \in Menu
  BY <1>1, MenusAssumption DEF Rows
<1>4. /\ menu'[m].status = s /\ menu'[m].parent = parent
      /\ \A n \in Menu : n # m => menu'[n] = menu[n]
  BY <1>2, <1>3 DEF MenusInv, MenusTypeOK
<1>5. Rows' = Rows
  BY <1>1, <1>3, <1>4 DEF Rows
<1>6. menu' \in [Menu -> MenuRow] /\ NoTask \in DeskState /\ NoTask.task # "edit"
  <2>1. [status |-> s, parent |-> parent] \in MenuRow
    BY <1>1, <1>3 DEF MenuRow, Spot
  <2> QED BY <1>2, <2>1 DEF MenusInv, MenusTypeOK, NoTask, DeskState, Spot
<1>7. CASE parent = menu[m].parent
  <2>1. desk' = [desk EXCEPT ![d] = NoTask] /\ UNCHANGED overtaken
    BY <1>7 DEF SubmitEdit
  <2>2. MenusTypeOK' /\ \A e \in Desk : desk'[e] = desk[e] \/ desk'[e].task # "edit"
    BY <1>6, <2>1 DEF MenusInv, MenusTypeOK
  <2>3. \A n \in Rows : menu'[n].parent = menu[n].parent
    BY <1>3, <1>4, <1>7
  <2> QED BY <1>5, <2>1, <2>2, <2>3, SameParentsInv
<1>8. CASE parent # menu[m].parent
  <2>1. parent = chosen /\ chosen # Top
    BY <1>8 DEF ParentSent
  <2>2. /\ Behind(d)
        /\ overtaken' = IF desk[d].late THEN overtaken \union {m} ELSE overtaken \ {m}
    BY <1>8 DEF SubmitEdit
  <2>3. ASSUME NEW e \in Desk PROVE desk'[e] \in DeskState /\ (desk'[e].task = "edit" => desk'[e].late)
    <3>1. desk[e] \in DeskState
      BY DEF MenusInv, MenusTypeOK
    <3>2. /\ [desk[e] EXCEPT !.late = TRUE] \in DeskState
          /\ [desk[e] EXCEPT !.late = TRUE].late
      BY <3>1 DEF DeskState
    <3>3. CASE e = d
      BY <1>6, <2>2, <3>3 DEF Behind
    <3>4. CASE e # d /\ desk[e].task = "edit"
      <4>1. desk'[e] = [desk[e] EXCEPT !.late = TRUE]
        BY <2>2, <3>4 DEF Behind
      <4> QED BY <3>2, <4>1
    <3>5. CASE e # d /\ desk[e].task # "edit"
      <4>1. desk'[e] = desk[e]
        BY <2>2, <3>5 DEF Behind
      <4> QED BY <3>1, <3>5, <4>1
    <3> QED BY <3>3, <3>4, <3>5
  <2>4. MenusTypeOK'
    <3>1. desk' = [e \in Desk |-> desk'[e]]
      BY <2>2 DEF Behind
    <3>2. desk' \in [Desk -> DeskState]
      BY <2>3, <3>1
    <3>3. overtaken' \subseteq Menu
      BY <1>3, <2>2 DEF MenusInv, MenusTypeOK
    <3> QED BY <1>6, <3>2, <3>3 DEF MenusTypeOK
  <2>5. chosen \in Rows /\ chosen \in desk[d].options /\ menu'[m].parent = chosen
    BY <1>1, <1>4, <2>1
  <2>6. \A n \in Menu : n # m => menu'[n].parent = menu[n].parent
    BY <1>4
  <2>7. \A e \in Desk : desk'[e].task = "edit" => desk'[e].late
    BY <2>3
  <2> HIDE DEF m, parent
  <2>8. desk[d].menu = m
    BY DEF m
  <2> QED BY <1>1, <1>5, <2>2, <2>4, <2>5, <2>6, <2>7, <2>8, MoveInv
<1> QED BY <1>7, <1>8

\* A deletion only shortens the ways up.
LEMMA DeleteMenuInv ==
  ASSUME MenusInv, NEW d \in Desk, DeleteMenu(d)
  PROVE  MenusInv'
<1> DEFINE gone == desk[d].menu
<1>1. /\ menu' = [m \in Menu |-> CASE m = gone -> NoMenu
                                   [] m # gone /\ menu[m].parent = gone -> [menu[m] EXCEPT !.parent = Top]
                                   [] OTHER -> menu[m]]
      /\ desk' = [desk EXCEPT ![d] = NoTask] /\ overtaken' = overtaken \ {gone}
  BY DEF DeleteMenu
<1> HIDE DEF gone
<1>2. ASSUME NEW m \in Menu
      PROVE  /\ menu'[m] \in MenuRow
             /\ m = gone => menu'[m].status = "absent"
             /\ m # gone => menu'[m].status = menu[m].status
             /\ m # gone /\ menu[m].parent = gone => menu'[m].parent = Top
             /\ m # gone /\ menu[m].parent # gone => menu'[m].parent = menu[m].parent
  <2>1. menu[m] \in MenuRow /\ NoMenu \in MenuRow
    BY DEF MenusInv, MenusTypeOK, NoMenu, MenuRow, Spot
  <2>2. CASE m = gone
    BY <1>1, <2>1, <2>2 DEF NoMenu
  <2>3. CASE m # gone /\ menu[m].parent = gone
    <3>1. menu'[m] = [menu[m] EXCEPT !.parent = Top]
      BY <1>1, <2>3
    <3> QED BY <2>1, <2>3, <3>1 DEF MenuRow, Spot
  <2>4. CASE m # gone /\ menu[m].parent # gone
    <3>1. menu'[m] = menu[m]
      BY <1>1, <2>4
    <3> QED BY <2>1, <2>4, <3>1
  <2> QED BY <2>2, <2>3, <2>4
<1>3. Rows \subseteq Menu /\ Top \notin Menu
  BY MenusAssumption DEF Rows
<1>4. Rows' = Rows \ {gone}
  BY <1>2 DEF Rows
<1>5. NoTask \in DeskState /\ NoTask.task # "edit"
  BY DEF NoTask, DeskState, Spot
<1>6. MenusTypeOK'
  <2>1. menu' = [m \in Menu |-> menu'[m]]
    BY <1>1
  <2>2. menu' \in [Menu -> MenuRow]
    BY <1>2, <2>1
  <2> QED BY <1>1, <1>5, <2>2 DEF MenusInv, MenusTypeOK
<1>7. ParentsAreThere'
  BY <1>2, <1>3, <1>4 DEF MenusInv, ParentsAreThere
<1>8. /\ \A n \in Rows' : /\ ParentOf'[n] \in Rows' => ParentOf'[n] = ParentOf[n]
                          /\ ParentOf'[n] \in Rows' \union {Top}
      /\ Top \notin Rows'
  BY <1>2, <1>3, <1>4, <1>7 DEF ParentOf, ParentsAreThere
<1>9. \A n : Above(Rows, n) = Upwards(Rows, ParentOf, n) /\ Above(Rows, n)' = Upwards(Rows', ParentOf', n)
  BY DEF Above, ParentOf
<1>10. ASSUME NEW x \in Rows', x \in Above(Rows, x)'
       PROVE  Above(Rows, x)' \intersect overtaken' # {}
  <2> DEFINE C == Upwards(Rows', ParentOf', x)
  <2>1. x \in C /\ C \subseteq Rows'
    BY <1>9, <1>10, UpwardsLeast
  <2>2. \A y \in C : y \in Rows /\ ParentOf[y] = ParentOf'[y]
    <3> TAKE y \in C
    <3>1. x \in Upwards(Rows', ParentOf', y)
      BY <2>1, CycleReturns
    <3>2. ParentOf'[y] \in Rows'
      BY <3>1, UpwardsStep
    <3> QED BY <1>4, <1>8, <2>1, <3>2
  <2>3. Upwards(Rows, ParentOf, x) = C
    BY <2>1, <2>2, CycleBefore
  <2>4. C \intersect overtaken # {}
    BY <1>4, <1>9, <2>1, <2>3 DEF MenusInv, CyclesAreOvertaken
  <2> QED BY <1>1, <1>4, <1>9, <2>1, <2>4
<1>11. CyclesAreOvertaken'
  BY <1>10 DEF CyclesAreOvertaken
<1>12. OptionsAreElsewhere'
  <2> SUFFICES ASSUME NEW e \in Desk, desk'[e].task = "edit", ~desk'[e].late,
                      NEW o \in desk'[e].options \intersect Rows'
               PROVE  desk'[e].menu \notin Above(Rows, o)' \union {o}
    BY DEF OptionsAreElsewhere
  <2>1. desk'[e] = desk[e] /\ o \in desk[e].options \intersect Rows
    BY <1>1, <1>4, <1>5 DEF MenusInv, MenusTypeOK
  <2>2. desk[e].menu \notin Above(Rows, o) \union {o}
    BY <2>1 DEF MenusInv, OptionsAreElsewhere
  <2>3. Upwards(Rows', ParentOf', o) \subseteq Upwards(Rows, ParentOf, o)
    <3>1. Rows' \in SUBSET Rows /\ o \in Rows'
      BY <1>4
    <3>2. \A q \in Rows' \union {o} : ParentOf'[q] \in Rows' => ParentOf'[q] = ParentOf[q]
      BY <1>8, <3>1
    <3> QED BY <3>1, <3>2, UpwardsShrinks
  <2> QED BY <1>9, <2>1, <2>2, <2>3
<1> QED BY <1>6, <1>7, <1>11, <1>12 DEF MenusInv

LEMMA MenusStep == ASSUME MenusInv, [MenusNext]_menuVars PROVE MenusInv'
<1>1. CASE UNCHANGED menuVars
  <2>1. MenusTypeOK' /\ Rows' = Rows
    BY <1>1 DEF menuVars, MenusInv, MenusTypeOK, Rows
  <2> QED BY <1>1, <2>1, SameParentsInv DEF menuVars
<1> QED BY <1>1, CreateMenuInv, CloseInv, DeleteMenuInv, OpenEditInv, SubmitEditInv DEF MenusNext

LEMMA MenusInvariant == MenusSpec => []MenusInv
BY MenusInitInv, MenusStep, PTL DEF MenusSpec

\* The ways up from what is not in the tree end in cycles.
LEMMA TreeFromInv == MenusInv => TreeIsWhole
<1> SUFFICES ASSUME MenusInv, NEW m \in Rows \ Tree(Rows)
             PROVE  \E p \in Above(Rows, m) : p \in Above(Rows, p) /\ Above(Rows, p) \intersect overtaken # {}
  BY DEF TreeIsWhole, MenusInv
<1> DEFINE out == Rows \ Grown(Rows, {Top})
<1>1. /\ Rows \subseteq Menu /\ IsFiniteSet(Rows) /\ Top \notin Rows
      /\ \A q \in Rows : ParentOf[q] = menu[q].parent
      /\ \A q : Above(Rows, q) = Upwards(Rows, ParentOf, q)
  BY AboveIs DEF MenusInv
<1>2. m \in out
  BY <1>1 DEF Tree
<1>3. ASSUME NEW q \in out PROVE ParentOf[q] \in out
  <2>1. menu[q].parent \notin Grown(Rows, {Top})
    BY <1>3, GrownLeast
  <2>2. Top \in Grown(Rows, {Top})
    BY GrownLeast
  <2>3. menu[q].parent \in Rows \union {Top}
    BY <1>3 DEF MenusInv, ParentsAreThere
  <2> QED BY <1>1, <1>3, <2>1, <2>2, <2>3
<1>4. Upwards(Rows, ParentOf, m) \subseteq out
  <2>1. out \in SUBSET Rows /\ \A q \in out \union {m} : ParentOf[q] \in Rows => ParentOf[q] \in out
    BY <1>2, <1>3
  <2> HIDE DEF out
  <2> QED BY <2>1, UpwardsLeast
<1>5. PICK p \in Upwards(Rows, ParentOf, m) : p \in Upwards(Rows, ParentOf, p)
  <2>1. ParentOf[m] \in Rows /\ \A q \in Upwards(Rows, ParentOf, m) : ParentOf[q] \in Rows
    BY <1>2, <1>3, <1>4
  <2> QED BY <1>1, <2>1, EndsInCycle
<1>6. p \in Rows
  BY UpwardsLeast
<1> QED BY <1>1, <1>5, <1>6 DEF MenusInv, CyclesAreOvertaken

\* However many administrators work on however many menus: a part of the tree is
\* lost only by a move from a dialog that another move had overtaken.
THEOREM TreeStaysWhole == MenusSpec => []TreeIsWhole
<1> QED BY MenusInvariant, TreeFromInv, PTL

-----------------------------------------------------------------------------
(* The sidebar.                                                             *)

\* A way through a finite set, each element once, is all of it.
LEMMA OrderIsAll ==
  ASSUME NEW S, IsFiniteSet(S), NEW order \in SetToSeqs(S)
  PROVE  /\ Len(order) = Cardinality(S) /\ Cardinality(S) \in Nat
         /\ DOMAIN order = 1 .. Len(order)
         /\ \A i \in 1 .. Len(order) : order[i] \in S
         /\ ToSet(order) = S
<1> DEFINE n == Cardinality(S)
           D == 1 .. n
<1>1. n \in Nat
  BY FS_CardinalityType
<1>2. order \in [D -> S] /\ \A i, j \in D : i # j => order[i] # order[j]
  BY DEF SetToSeqs
<1>3. Len(order) = n
  <2> HIDE DEF n
  <2> QED BY <1>1, <1>2
<1>4. order \in Injection(D, S)
  BY <1>2 DEF Injection, IsInjective
<1>5. Cardinality(D) = n
  <2> HIDE DEF n
  <2> QED BY <1>1, FS_Interval
<1>6. order \in Surjection(D, S)
  <2> HIDE DEF D
  <2> QED BY <1>4, <1>5, FS_Injection
<1>7. ToSet(order) = S
  BY <1>2, <1>6 DEF ToSet, Surjection
<1> QED BY <1>1, <1>2, <1>3, <1>7

\* The ids after the first n of the granted menus were completed.
IdsOf(granted, ids) ==
    ids = [n \in 0 .. Len(granted) |->
             IF n = 0 THEN ToSet(granted) ELSE WithParents(ids[n - 1], granted[n])]

\* The recursion of UserMenus has a solution.
LEMMA IdsSteps ==
  ASSUME NEW granted, NEW G \in SUBSET Menu, ToSet(granted) = G,
         Len(granted) \in Nat, \A i \in 1 .. Len(granted) : granted[i] \in G
  PROVE  \E ids : IdsOf(granted, ids)
<1> DEFINE N == Len(granted)
           D == 0 .. N
           V == SUBSET Menu
           stop == {0}
           base == [n \in D |-> G]
           next == [n \in D |-> IF n = 0 THEN 0 ELSE n - 1]
           rank == [n \in D |-> n]
           step == [x \in D \X V |-> IF x[1] = 0 THEN G ELSE WithParents(x[2], granted[x[1]])]
<1>1. \A A \in SUBSET Menu : \A m : WithParents(A, m) \in SUBSET Menu
  <2> TAKE A \in SUBSET Menu
  <2> TAKE m
  <2>1. Upwards(Menu \ A, ParentInMap, m) \subseteq Menu \ A
    BY UpwardsLeast
  <2> QED BY <2>1 DEF WithParents
<1>2. base \in [D -> V] /\ next \in [D -> D] /\ rank \in [D -> 0 .. N]
  OBVIOUS
<1>3. step \in [D \X V -> V]
  BY <1>1
<1>4. N \in Nat /\ \A d \in D \ stop : rank[next[d]] < rank[d]
  OBVIOUS
<1>5. Ranked(D, V, stop, base, next, step, rank, N)
  BY <1>2, <1>3, <1>4 DEF Ranked
<1>6. PICK f : Solves(f, D, V, stop, base, next, step)
  <2> HIDE DEF D, V, base, stop, N, next, rank, step
  <2> QED BY <1>5, Recursion
<1>7. /\ f \in [D -> V]
      /\ \A d \in D : f[d] = IF d \in stop THEN base[d] ELSE step[<<d, f[next[d]]>>]
  BY <1>6 DEF Solves
<1>8. ASSUME NEW d \in D
      PROVE  f[d] = IF d = 0 THEN ToSet(granted) ELSE WithParents(f[d - 1], granted[d])
  <2>1. CASE d = 0
    BY <1>7, <2>1
  <2>2. CASE d # 0
    <3>1. next[d] = d - 1 /\ d - 1 \in D /\ f[d - 1] \in V
      BY <1>7, <2>2
    <3>2. <<d, f[d - 1]>> \in D \X V
      BY <3>1
    <3>3. f[d] = step[<<d, f[d - 1]>>]
      BY <1>7, <2>2, <3>1
    <3> QED BY <2>2, <3>2, <3>3
  <2> QED BY <2>1, <2>2
<1>9. IdsOf(granted, f)
  BY <1>7, <1>8 DEF IdsOf
<1> QED BY <1>9

\* The granted menus and menus above them; from all but the granted ones that
\* are still to come, one step up is among them.
Completed(ids, granted, n) ==
    /\ ToSet(granted) \subseteq ids /\ ids \subseteq Menu
    /\ \A q \in ids : q \in ToSet(granted)
                      \/ \E g \in ToSet(granted) : q \in Upwards(Menu, ParentInMap, g)
    /\ \A q \in ids : ParentInMap[q] \in ids \union {Top}
                      \/ \E k \in (n + 1) .. Len(granted) : q = granted[k]

\* Stopping at the first that is there already loses nothing.
LEMMA WithParentsCompletes ==
  ASSUME MenusTypeOK, NEW granted, Len(granted) \in Nat, NEW n \in 0 .. (Len(granted) - 1),
         granted[n + 1] \in ToSet(granted), NEW ids, Completed(ids, granted, n)
  PROVE  Completed(WithParents(ids, granted[n + 1]), granted, n + 1)
<1> DEFINE m == granted[n + 1]
           U == Upwards(Menu \ ids, ParentInMap, m)
           all == ids \union U
<1>1. \A q \in Menu : ParentInMap[q] \in Menu \union {Top}
  BY DEF ParentInMap, MenusTypeOK, MenuRow, Spot
<1>2. U \subseteq Menu \ ids /\ \A q \in U \union {m} : ParentInMap[q] \in Menu \ ids => ParentInMap[q] \in U
  BY UpwardsLeast
<1>3. U \subseteq Upwards(Menu, ParentInMap, m)
  <2>1. \A q \in (Menu \ ids) \union {m} :
           ParentInMap[q] \in Menu \ ids => ParentInMap[q] = ParentInMap[q]
    OBVIOUS
  <2>2. Menu \ ids \in SUBSET Menu
    OBVIOUS
  <2> HIDE DEF m
  <2> QED BY <2>1, <2>2, UpwardsShrinks
<1>4. m \in ids /\ ids \subseteq Menu
  BY DEF Completed
<1> HIDE DEF U
<1>5. \A q \in U \union {m} : ParentInMap[q] \in all \union {Top}
  BY <1>1, <1>2, <1>4
<1>6. ASSUME NEW q \in all
      PROVE  q \in ToSet(granted) \/ \E g \in ToSet(granted) : q \in Upwards(Menu, ParentInMap, g)
  BY <1>3, <1>6 DEF Completed
<1>7. ASSUME NEW q \in all
      PROVE  \/ ParentInMap[q] \in all \union {Top}
             \/ \E k \in (n + 1 + 1) .. Len(granted) : q = granted[k]
  <2>1. CASE q \in U \union {m}
    BY <1>5, <2>1
  <2>2. CASE q \in ids /\ q # m
    <3>1. CASE ParentInMap[q] \in ids \union {Top}
      BY <3>1
    <3>2. ASSUME NEW k \in (n + 1) .. Len(granted), q = granted[k]
          PROVE  \E i \in (n + 1 + 1) .. Len(granted) : q = granted[i]
      <4>1. k # n + 1
        BY <2>2, <3>2
      <4>2. k \in (n + 1 + 1) .. Len(granted)
        BY <4>1
      <4> QED BY <3>2, <4>2
    <3> QED BY <2>2, <3>1, <3>2 DEF Completed
  <2> QED BY <1>7, <2>1, <2>2
<1>8. ToSet(granted) \subseteq all /\ all \subseteq Menu
  BY <1>2 DEF Completed
<1>9. Completed(all, granted, n + 1)
  <2> HIDE DEF all, m
  <2> QED BY <1>6, <1>7, <1>8 DEF Completed
<1> QED BY <1>9 DEF WithParents, U

\* Where the loop over the granted menus ends.
LEMMA UserMenusIs ==
  ASSUME MenusTypeOK, NEW G \in SUBSET Menu, NEW granted \in SetToSeqs(G)
  PROVE  \E ids : Completed(ids, granted, Len(granted)) /\ ToSet(granted) = G
                  /\ UserMenus(granted) = Tree(Active \intersect ids) /\ Len(granted) \in Nat
<1>1. IsFiniteSet(G)
  BY MenusAssumption, FS_Subset
<1>2. /\ Len(granted) \in Nat /\ ToSet(granted) = G
      /\ \A i \in 1 .. Len(granted) : granted[i] \in G
  BY <1>1, OrderIsAll
<1> DEFINE ids == CHOOSE f : IdsOf(granted, f)
           S == {n \in 0 .. Len(granted) : Completed(ids[n], granted, n)}
<1>3. IdsOf(granted, ids)
  <2>1. \E f : IdsOf(granted, f)
    BY <1>2, IdsSteps
  <2> QED BY <2>1
<1>4. UserMenus(granted) = Tree(Active \intersect ids[Len(granted)])
  BY DEF UserMenus, IdsOf
<1> HIDE DEF ids
<1>5. \A n \in 0 .. Len(granted) :
         ids[n] = IF n = 0 THEN ToSet(granted) ELSE WithParents(ids[n - 1], granted[n])
  BY <1>3 DEF IdsOf
<1>6. 0 \in S
  <2>1. ids[0] = G
    BY <1>2, <1>5
  <2>2. \A q \in G : \E k \in (0 + 1) .. Len(granted) : q = granted[k]
    <3>1. DOMAIN granted = 1 .. Len(granted)
      BY <1>1, OrderIsAll
    <3> QED BY <1>2, <3>1 DEF ToSet
  <2>3. Completed(G, granted, 0)
    BY <1>2, <2>2 DEF Completed
  <2> QED BY <1>2, <2>1, <2>3
<1>7. ASSUME NEW n \in 0 .. (Len(granted) - 1), n \in S PROVE n + 1 \in S
  <2>1. Completed(ids[n], granted, n) /\ granted[n + 1] \in ToSet(granted)
    BY <1>2, <1>7
  <2>2. Completed(WithParents(ids[n], granted[n + 1]), granted, n + 1)
    BY <1>2, <2>1, WithParentsCompletes
  <2>3. n + 1 \in 0 .. Len(granted) /\ n + 1 # 0 /\ (n + 1) - 1 = n
    BY <1>2
  <2>4. ids[n + 1] = WithParents(ids[n], granted[n + 1])
    BY <1>5, <2>3
  <2> QED BY <2>2, <2>3, <2>4
<1>8. Len(granted) \in S
  <2> HIDE DEF S
  <2>1. 0 .. Len(granted) \subseteq S
    BY <1>2, <1>6, <1>7, BoundedInduction
  <2> QED BY <1>2, <2>1
<1>9. Completed(ids[Len(granted)], granted, Len(granted))
  BY <1>8
<1> QED BY <1>2, <1>4, <1>9

\* The sidebar, said without the order: the active menus among the granted ones
\* and above them, from which an active way leads to the top.
Granted(G) ==
    {m \in Active : \E g \in G \intersect Active : m \in Above(Active, g) \union {g}}
Sidebar(G) == {m \in Granted(G) : \E r \in Above(Active, m) \union {m} : menu[r].parent = Top}

\* The active ones among the ids are those.
LEMMA ActiveIds ==
  ASSUME MenusTypeOK, NEW granted, NEW ids, Completed(ids, granted, Len(granted)),
         Len(granted) \in Nat, ToSet(granted) \subseteq Menu
  PROVE  /\ Active \intersect ids = Granted(ToSet(granted))
         /\ \A m \in Active \intersect ids : Above(Active, m) \subseteq ids
<1> DEFINE G == ToSet(granted)
           P == ParentInMap
<1>1. /\ G \subseteq ids /\ ids \subseteq Menu
      /\ \A q \in ids : q \in G \/ \E g \in G : q \in Upwards(Menu, P, g)
      /\ \A q \in ids : P[q] \in ids \union {Top}
  BY DEF Completed
<1>2. /\ Active \subseteq Menu /\ Top \notin Menu
      /\ \A q \in Active : P[q] = ParentOf[q] /\ ParentOf[q] = menu[q].parent
      /\ \A q \in Menu \ Active : P[q] = Top
      /\ \A q : Above(Active, q) = Upwards(Active, ParentOf, q)
  BY MenusAssumption DEF Active, ParentInMap, ParentOf, Above
<1> HIDE DEF P
<1>3. ASSUME NEW m \in Active \intersect ids PROVE Upwards(Active, ParentOf, m) \subseteq ids
  <2> DEFINE S == Active \intersect ids
  <2>1. ASSUME NEW q \in S \union {m}, ParentOf[q] \in Active PROVE ParentOf[q] \in S
    <3>1. P[q] = ParentOf[q] /\ P[q] \in ids \union {Top}
      BY <1>1, <1>2
    <3> QED BY <1>2, <2>1, <3>1
  <2>2. S \in SUBSET Active
    OBVIOUS
  <2>3. Upwards(Active, ParentOf, m) \subseteq S
    <3> HIDE DEF S
    <3> QED BY <2>1, <2>2, UpwardsLeast
  <2> QED BY <2>3
<1>4. ASSUME NEW g \in G, NEW m \in Active, m \in Upwards(Menu, P, g)
      PROVE  g \in Active /\ m \in Upwards(Active, ParentOf, g)
  <2>1. g \in Active
    <3>1. SUFFICES ASSUME g \notin Active PROVE FALSE
      OBVIOUS
    <3>2. P[g] \notin Menu
      BY <1>1, <1>2, <3>1
    <3>3. Upwards(Menu, P, g) = {}
      BY <3>2, UpwardsStep
    <3> QED BY <1>4, <3>3
  <2> DEFINE S == Upwards(Active, ParentOf, g) \union (Menu \ Active)
  <2>2. ASSUME NEW q \in S \union {g}, P[q] \in Menu PROVE P[q] \in S
    <3>1. Upwards(Active, ParentOf, g) \subseteq Active
      BY UpwardsLeast
    <3>2. q \in Active /\ P[q] = ParentOf[q]
      BY <1>2, <2>1, <2>2, <3>1
    <3>3. q \in Upwards(Active, ParentOf, g) \union {g}
      BY <3>2
    <3>4. P[q] \in Active => P[q] \in Upwards(Active, ParentOf, g)
      BY <3>2, <3>3, UpwardsLeast
    <3> QED BY <2>2, <3>4
  <2>3. S \in SUBSET Menu
    BY <1>2, UpwardsLeast
  <2>4. Upwards(Menu, P, g) \subseteq S
    <3> HIDE DEF S
    <3> QED BY <2>2, <2>3, UpwardsLeast
  <2> QED BY <1>4, <2>1, <2>4
<1>5. Active \intersect ids = {m \in Active : \E g \in G \intersect Active :
                                  m \in Upwards(Active, ParentOf, g) \union {g}}
  BY <1>1, <1>3, <1>4
<1> QED BY <1>2, <1>3, <1>5 DEF Granted

\* The tree of them is what an active way leads to.
LEMMA TreeOfIds ==
  ASSUME MenusTypeOK, NEW ids, NEW here \in SUBSET Active, here = Active \intersect ids,
         \A m \in here : Above(Active, m) \subseteq ids
  PROVE  Tree(here) = {m \in here : \E r \in Above(Active, m) \union {m} : menu[r].parent = Top}
<1> DEFINE shown == {m \in here : \E r \in Above(Active, m) \union {m} : menu[r].parent = Top}
           T == Grown(here, {Top})
<1>1. /\ Active \subseteq Menu /\ Top \notin Menu
      /\ \A q \in Active : ParentOf[q] = menu[q].parent
      /\ \A q : Above(Active, q) = Upwards(Active, ParentOf, q)
  BY MenusAssumption DEF Active, ParentOf, Above
<1>2. /\ {Top} \subseteq T /\ T \subseteq here \union {Top}
      /\ \A c \in here : menu[c].parent \in T => c \in T
  BY GrownLeast
<1>3. \A m \in here : Above(Active, m) \subseteq here
  BY <1>1, UpwardsLeast
<1>4. T \subseteq shown \union {Top}
  <2> DEFINE S == shown \union {Top}
  <2>1. ASSUME NEW c \in here, menu[c].parent \in S PROVE c \in S
    <3>1. CASE menu[c].parent = Top
      BY <3>1
    <3>2. CASE menu[c].parent \in shown
      <4>1. ParentOf[c] \in Active /\ ParentOf[c] = menu[c].parent
        BY <1>1, <3>2
      <4>2. Above(Active, c) = {menu[c].parent} \union Above(Active, menu[c].parent)
        BY <1>1, <4>1, UpwardsStep
      <4> QED BY <3>2, <4>2
    <3> QED BY <2>1, <3>1, <3>2
  <2>2. S \in SUBSET (here \union {Top}) /\ {Top} \subseteq S
    OBVIOUS
  <2>3. T \subseteq S
    <3> HIDE DEF S
    <3> QED BY <2>1, <2>2, GrownLeast
  <2> QED BY <2>3
<1>5. ASSUME NEW m \in here, NEW r \in Above(Active, m) \union {m}, menu[r].parent = Top, m \notin T
      PROVE  FALSE
  <2> DEFINE out == here \ T
  <2>1. ASSUME NEW q \in out \union {m}, ParentOf[q] \in Active PROVE ParentOf[q] \in out
    <3>1. q \in here /\ q \notin T /\ ParentOf[q] = menu[q].parent
      BY <1>1, <1>5, <2>1
    <3>2. ParentOf[q] \in Upwards(Active, ParentOf, q)
      BY <2>1, UpwardsLeast
    <3>3. ParentOf[q] \in here
      BY <1>1, <1>3, <3>1, <3>2
    <3> QED BY <1>2, <3>1, <3>3
  <2>2. out \in SUBSET Active
    OBVIOUS
  <2>3. Above(Active, m) \subseteq out
    <3> HIDE DEF out
    <3>1. Upwards(Active, ParentOf, m) \subseteq out
      BY <2>1, <2>2, UpwardsLeast
    <3> QED BY <1>1, <3>1
  <2>4. r \in here /\ r \notin T
    BY <1>5, <2>3
  <2> QED BY <1>2, <1>5, <2>4
<1>6. Top \notin here
  BY <1>1
<1> QED BY <1>2, <1>4, <1>5, <1>6 DEF Tree

\* However many menus there are, in whatever state administrators leave the
\* tree: for the menus a user's roles grant the sidebar shows those that are
\* active and the way down to them, as far as it is active up to the top, and
\* the order in which the ids come makes no difference.
THEOREM SidebarStaysComplete == MenusSpec => []SidebarIsComplete
<1>1. ASSUME MenusTypeOK PROVE SidebarIsComplete
  <2> SUFFICES ASSUME NEW G \in SUBSET Rows, NEW order \in SetToSeqs(G)
               PROVE  UserMenus(order) = Sidebar(G)
    BY DEF SidebarIsComplete, Sidebar, Granted
  <2>1. G \in SUBSET Menu
    BY DEF Rows
  <2>2. PICK ids : /\ Completed(ids, order, Len(order)) /\ ToSet(order) = G
                   /\ UserMenus(order) = Tree(Active \intersect ids) /\ Len(order) \in Nat
    BY <1>1, <2>1, UserMenusIs
  <2>3. /\ Active \intersect ids = Granted(G)
        /\ \A m \in Active \intersect ids : Above(Active, m) \subseteq ids
    BY <1>1, <2>1, <2>2, ActiveIds
  <2>4. Tree(Active \intersect ids)
          = {m \in Active \intersect ids : \E r \in Above(Active, m) \union {m} : menu[r].parent = Top}
    <3> DEFINE here == Active \intersect ids
    <3>1. here \in SUBSET Active /\ here = Active \intersect ids
      OBVIOUS
    <3> HIDE DEF here
    <3>2. Tree(here) = {m \in here : \E r \in Above(Active, m) \union {m} : menu[r].parent = Top}
      BY <1>1, <2>3, <3>1, TreeOfIds
    <3> QED BY <3>2 DEF here
  <2> QED BY <2>2, <2>3, <2>4 DEF Sidebar
<1> QED BY <1>1, MenusInvariant, PTL DEF MenusInv
=============================================================================
