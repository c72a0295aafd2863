-------------------------- MODULE MCAdministration --------------------------
(***************************************************************************)
(* Dictionaries, departments and accounts on small sets.  They share       *)
(* nothing: each is checked while the others are in their initial states.  *)
(***************************************************************************)
EXTENDS Dictionary, Departments, Accounts, TLC

AdministrationVars == <<dictVars, deptVars, accountVars>>

\* It does not matter which account is the seeded one.
AdministrationInit ==
    DictInit /\ DeptInit /\ AccountInit /\ role[CHOOSE a \in Account : TRUE] = "ADMIN"

AdministrationNext ==
    \/ DeptInit /\ AccountInit /\ DictNext /\ UNCHANGED <<deptVars, accountVars>>
    \/ DictInit /\ AccountInit /\ DeptNext /\ UNCHANGED <<dictVars, accountVars>>
    \/ DictInit /\ DeptInit /\ AccountNext /\ UNCHANGED <<dictVars, deptVars>>

AdministrationSpec == AdministrationInit /\ [][AdministrationNext]_AdministrationVars

\* The configuration takes the requests, the rows and the names of all three
\* from the same sets.
Symmetry == Permutations(Client) \union Permutations(Dict) \union Permutations(Code)
=============================================================================
