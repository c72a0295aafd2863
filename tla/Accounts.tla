------------------------------ MODULE Accounts ------------------------------
(***************************************************************************)
(* The accounts and their roles: how UserService keeps an administrator.   *)
(*                                                                         *)
(* update and remove read the account and count the administrators in a    *)
(* serializable transaction: one whose reads another transaction has       *)
(* overtaken fails.  The sessions of a removed account are Session's.      *)
(***************************************************************************)
EXTENDS Integers, FiniteSets

CONSTANTS
    Transaction,   \* the requests that can be in flight at once
    Account,       \* the accounts that can be created
    Unset          \* no account, or a role the request leaves out

ASSUME AccountsAssumption == IsFiniteSet(Account) /\ Unset \notin Account

VARIABLES
    role,   \* the rows: their role, "none" before and "gone" after the account
    tx      \* the requests in flight

accountVars == <<role, tx>>

-----------------------------------------------------------------------------
Role == {"ADMIN", "USER"}
RoleOrUnset == Role \union {Unset}

\* A request: the account and role it asks for (no role for a removal), and the
\* role its transaction has read.
TxState == [op : {"update", "remove"}, stage : {"idle", "read", "count", "write"},
            account : Account \union {Unset}, role : RoleOrUnset, was : RoleOrUnset]

NoTx == [op |-> "update", stage |-> "idle", account |-> Unset, role |-> Unset, was |-> Unset]

Admins == {a \in Account : role[a] = "ADMIN"}
Registered == {a \in Account : role[a] \in Role}

TxAt(t, stage) == tx[t].stage = stage
Continue(t, stage) == tx' = [tx EXCEPT ![t].stage = stage] /\ UNCHANGED role
Leave(t) == tx' = [tx EXCEPT ![t] = NoTx] /\ UNCHANGED role

\* The seed creates an administrator.
AccountInit ==
    /\ \E seeded \in Account : role = [a \in Account |-> IF a = seeded THEN "ADMIN" ELSE "none"]
    /\ tx = [t \in Transaction |-> NoTx]

\* An account created by an administrator or by its registration.
CreateAccount(a) ==
    /\ role[a] = "none"
    /\ role' = [role EXCEPT ![a] = "USER"]
    /\ UNCHANGED tx

\* An update looks for the account before its transaction.
BeginUpdateUser(t) ==
    /\ TxAt(t, "idle")
    /\ \E a \in Registered, asked \in RoleOrUnset :
          tx' = [tx EXCEPT ![t] = [NoTx EXCEPT !.op = "update", !.stage = "read",
                                               !.account = a, !.role = asked]]
    /\ UNCHANGED role

BeginRemoveUser(t) ==
    /\ TxAt(t, "idle")
    /\ \E a \in Registered :
          tx' = [tx EXCEPT ![t] = [NoTx EXCEPT !.op = "remove", !.stage = "read", !.account = a]]
    /\ UNCHANGED role

\* Mutant of Demotes: a removal is no demotion.
DemotesByUpdate(x, current) == current = "ADMIN" /\ x.role = "USER"

\* Does the request take an administrator away?
Demotes(x, current) == current = "ADMIN" /\ (x.op = "remove" \/ x.role = "USER")

ReadRole(t) ==
    LET x == tx[t] IN
    /\ TxAt(t, "read")
    /\ \/ x.account \notin Registered /\ Leave(t)
       \/ /\ x.account \in Registered
          /\ tx' = [tx EXCEPT ![t] =
                      [@ EXCEPT !.was = role[x.account],
                                !.stage = IF Demotes(x, role[x.account]) THEN "count"
                                                                         ELSE "write"]]
          /\ UNCHANGED role

CountAdmins(t) ==
    /\ TxAt(t, "count")
    /\ IF Cardinality(Admins) <= 1 THEN Leave(t) ELSE Continue(t, "write")

\* Mutant of Serializable: the transaction runs at read committed.
ReadCommitted(x) == x.account \in Registered

\* What the transaction has read would still lead it to its write; if not, the
\* database ends it with an error.
Serializable(x) ==
    /\ x.account \in Registered /\ role[x.account] = x.was
    /\ Demotes(x, x.was) => Cardinality(Admins) > 1

Write(t) ==
    LET x == tx[t] IN
    /\ TxAt(t, "write") /\ Serializable(x)
    /\ role' = [role EXCEPT ![x.account] = CASE x.op = "remove" -> "gone"
                                             [] x.op = "update" /\ x.role = Unset -> @
                                             [] x.op = "update" /\ x.role # Unset -> x.role]
    /\ tx' = [tx EXCEPT ![t] = NoTx]

\* A conflict, a deadlock, a lost connection.
Abort(t) == TxAt(t, "write") /\ Leave(t)

AccountNext ==
    \/ \E a \in Account : CreateAccount(a)
    \/ \E t \in Transaction :
        \/ BeginUpdateUser(t) \/ BeginRemoveUser(t) \/ ReadRole(t)
        \/ CountAdmins(t) \/ Write(t) \/ Abort(t)

AccountSpec == AccountInit /\ [][AccountNext]_accountVars

-----------------------------------------------------------------------------
(* Properties.                                                              *)

AccountTypeOK ==
    /\ role \in [Account -> Role \union {"none", "gone"}]
    /\ tx \in [Transaction -> TxState]

\* However administrators demote and remove each other at once, one remains.
AdministratorsRemain == AccountTypeOK /\ Admins # {}
=============================================================================
