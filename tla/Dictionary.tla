----------------------------- MODULE Dictionary -----------------------------
(***************************************************************************)
(* Dictionaries and their cache: DictService, statement by statement.      *)
(*                                                                         *)
(* Readers take a key from Redis or fill it from the database; writers     *)
(* change the database and then delete keys one by one.  What a dictionary *)
(* holds does not matter, only whether a copy of it is out of date: a      *)
(* write makes the copies "old" that are cached or on their way there.     *)
(* Menus and departments keep their caches in the same way.                *)
(***************************************************************************)
EXTENDS Integers, Sequences, FiniteSets, Functions

CONSTANTS
    Client,    \* the requests that can be in flight at once
    Dict,      \* the dictionaries that can be created
    Code,      \* the codes a dictionary can have
    Entry,     \* the entries that can be created
    None,      \* no dictionary, no code, no entry
    Lossy      \* may a Redis command fail or an instance stop?

ASSUME DictionaryAssumption ==
    /\ None \notin Dict \union Code \union Entry
    /\ Lossy \in BOOLEAN

VARIABLES
    code,     \* the codes of the dictionaries, None for those that are not there
    belongs,  \* the dictionaries of the entries, None for those that are not there
    cache,    \* the keys in Redis and whether what they hold is out of date
    access,   \* the requests in flight
    stale     \* history: keys that are out of date for a known reason

dictVars == <<code, belongs, cache, access, stale>>

-----------------------------------------------------------------------------
(* Keys.                                                                    *)
IdKey(d) == [kind |-> "id", of |-> d]
DataKey(c) == [kind |-> "data", of |-> c]
ListKey == [kind |-> "list", of |-> None]
Key == {IdKey(d) : d \in Dict} \union {DataKey(c) : c \in Code} \union {ListKey}

Existing == {d \in Dict : code[d] # None}
WithCode(c) == {d \in Dict : code[d] = c}

\* The keys that show a dictionary, and those that show its data.
ShowsData(d) == {IdKey(d), DataKey(code[d])}
ShowsRow(d) == ShowsData(d) \union {ListKey}

-----------------------------------------------------------------------------
(* Requests.                                                                *)
ReadOp == {"findAll", "findOne", "findByCode"}
WriteOp == {"create", "update", "remove", "updateData", "removeData"}

\* dict and entry are what a request is about, to the code (or, for data, the
\* dictionary) it asks for, was the code it has read, copy what a reader has
\* loaded, and owed the keys a writer has still to delete.
AccessState ==
    [op : ReadOp \union WriteOp,
     stage : {"idle", "set", "check", "write", "findCode", "del"},
     dict : Dict \union {None}, entry : Entry \union {None},
     to : Code \union Dict \union {None}, was : Code \union {None},
     copy : {"none", "fresh", "old"}, owed : Seq(Key)]

NoAccess == [op |-> "findAll", stage |-> "idle", dict |-> None, entry |-> None, to |-> None,
             was |-> None, copy |-> "none", owed |-> <<>>]

AccessAt(r, stage) == access[r].stage = stage
Step(r, stage) == access' = [access EXCEPT ![r].stage = stage]
Done(r) == access' = [access EXCEPT ![r] = NoAccess]

\* The key a reader fills.
FillKey(a) == CASE a.op = "findOne" -> IdKey(a.dict)
                [] a.op = "findByCode" -> DataKey(a.to)
                [] OTHER -> ListKey

\* Where the data of dictionaries D is shown.
Showing(D) == UNION {ShowsData(d) : d \in D}

\* What a request is still going to delete.
Promised(a) ==
    IF a.stage = "findCode"
    THEN {ListKey} \union (IF a.dict \in Existing THEN ShowsData(a.dict) ELSE {})
    ELSE Range(a.owed)

\* A write by r, which goes on as "next": the copies of keys K are out of date.
\* "missed" are the keys among them that r cannot be expected to delete; every
\* other key has to be promised.
Outdate(K, missed, r, next) ==
    /\ cache' = [k \in Key |-> IF k \in K /\ cache[k] = "fresh" THEN "old" ELSE cache[k]]
    /\ access' = [q \in Client |->
                    IF q = r THEN next
                    ELSE IF access[q].copy = "fresh" /\ FillKey(access[q]) \in K
                    THEN [access[q] EXCEPT !.copy = "old"] ELSE access[q]]
    /\ stale' = stale \union {k \in missed \ Promised(next) : cache[k] # "absent"}

DictInit ==
    /\ code = [d \in Dict |-> None]
    /\ belongs = [x \in Entry |-> None]
    /\ cache = [k \in Key |-> "absent"]
    /\ access = [r \in Client |-> NoAccess]
    /\ stale = {}

-----------------------------------------------------------------------------
(* Readers.                                                                 *)

\* A request that does not find its key in Redis loads a copy from the database.
\* It may have looked long before, or in vain, so that the key may be there by
\* now.  The list takes two statements: a writer overtakes the first answer.
\* One that finds its key, and one whose dictionary is not there, change nothing.
Load(r, asked) ==
    /\ AccessAt(r, "idle")
    /\ access' = [access EXCEPT ![r] = [asked EXCEPT !.stage = "set", !.copy = "fresh"]]
    /\ UNCHANGED <<code, belongs, cache, stale>>

FindAll(r) == Load(r, [NoAccess EXCEPT !.op = "findAll"])
FindOne(r) == \E d \in Existing : Load(r, [NoAccess EXCEPT !.op = "findOne", !.dict = d])
FindByCode(r) ==
    \E d \in Existing : Load(r, [NoAccess EXCEPT !.op = "findByCode", !.to = code[d]])

\* A copy that writers have overtaken is stored as it is: when the last of them
\* has deleted the key already, nobody will put that right.
Set(r) ==
    LET a == access[r]  k == FillKey(a)
        late == a.copy = "old" /\ \A q \in Client : k \notin Promised(access[q])
    IN
    /\ AccessAt(r, "set")
    /\ cache' = [cache EXCEPT ![k] = a.copy]
    /\ stale' = IF late THEN stale \union {k} ELSE stale \ {k}
    /\ Done(r)
    /\ UNCHANGED <<code, belongs>>

-----------------------------------------------------------------------------
(* Writers arrive, and make their first statement: one that it stops has no *)
(* effect.                                                                  *)
Begin(r, asked) ==
    /\ AccessAt(r, "idle")
    /\ access' = [access EXCEPT ![r] = asked]
    /\ UNCHANGED <<code, belongs, cache, stale>>

BeginCreate(r) ==
    \E c \in Code : /\ WithCode(c) = {}
                    /\ Begin(r, [NoAccess EXCEPT !.op = "create", !.stage = "write", !.to = c])

\* Does the request change the code it has read?
Renames(a) == a.to # None /\ a.to # a.was

BeginUpdate(r) ==
    \E d \in Existing, c \in Code \union {None} :
        LET asked == [NoAccess EXCEPT !.op = "update", !.dict = d, !.to = c, !.was = code[d]]
        IN Begin(r, [asked EXCEPT !.stage = IF Renames(asked) THEN "check" ELSE "write"])

Check(r) ==
    /\ AccessAt(r, "check")
    /\ IF WithCode(access[r].to) # {} THEN Done(r) ELSE Step(r, "write")
    /\ UNCHANGED <<code, belongs, cache, stale>>

BeginRemove(r) ==
    \E d \in Existing :
        Begin(r, [NoAccess EXCEPT !.op = "remove", !.stage = "write", !.dict = d, !.was = code[d]])

BeginUpdateData(r) ==
    \E x \in Entry, to \in Dict \union {None} :
        /\ belongs[x] \in Dict
        /\ Begin(r, [NoAccess EXCEPT !.op = "updateData", !.stage = "write", !.entry = x,
                                     !.dict = belongs[x], !.to = to])

BeginRemoveData(r) ==
    \E x \in Entry :
        /\ belongs[x] \in Dict
        /\ Begin(r, [NoAccess EXCEPT !.op = "removeData", !.stage = "write", !.entry = x,
                                     !.dict = belongs[x]])

-----------------------------------------------------------------------------
(* Writers write.  The keys they then delete are named by what they have    *)
(* read before; the rest of the request is of no use any more.              *)
Deleting(owed) == [NoAccess EXCEPT !.stage = "del", !.owed = owed]

\* Mutant of RowKeys: only the new code's data are thought of.
RowKeysAnew(a) ==
    <<IdKey(a.dict), DataKey(IF Renames(a) THEN a.to ELSE a.was), ListKey>>

\* The keys update and remove delete, in their order.
RowKeys(a) ==
    LET renamed == IF Renames(a) THEN <<DataKey(a.to)>> ELSE <<>>
    IN <<IdKey(a.dict), DataKey(a.was)>> \o renamed \o <<ListKey>>

\* The code that was read is no longer the dictionary's: another writer has given
\* it a new one, whose data neither update nor remove knows of.
GivenAnotherCode(a) == IF code[a.dict] = a.was THEN {} ELSE {DataKey(code[a.dict])}

\* Can the statement succeed?  Codes are unique, rows are named by their ids, and
\* Dict bounds the dictionaries.
Feasible(a) ==
    CASE a.op = "create" -> WithCode(a.to) = {} /\ Existing # Dict
      [] a.op = "update" -> a.dict \in Existing /\ (a.to # None => WithCode(a.to) \subseteq {a.dict})
      [] a.op = "remove" -> a.dict \in Existing
      [] a.op = "updateData" -> belongs[a.entry] \in Dict /\ a.to \in Existing \union {None}
      [] OTHER -> belongs[a.entry] \in Dict

Writing(r, op) == AccessAt(r, "write") /\ access[r].op = op /\ Feasible(access[r])

FailWrite(r) ==
    /\ AccessAt(r, "write") /\ ~Feasible(access[r])
    /\ Done(r)
    /\ UNCHANGED <<code, belongs, cache, stale>>

\* Ids are new: the id of a row that is gone stands for a new one as soon as
\* nothing names it.
Unused(d) ==
    /\ cache[IdKey(d)] = "absent"
    /\ \A q \in Client : /\ d \notin {access[q].dict, access[q].to}
                       /\ IdKey(d) \notin Promised(access[q])

WriteCreate(r) ==
    LET a == access[r] IN
    /\ Writing(r, "create")
    /\ \E d \in Dict \ Existing : Unused(d) /\ code' = [code EXCEPT ![d] = a.to]
    /\ Outdate({ListKey}, {}, r, Deleting(<<ListKey>>))
    /\ UNCHANGED belongs

WriteUpdate(r) ==
    LET a == access[r] IN
    /\ Writing(r, "update")
    /\ code' = IF a.to = None THEN code ELSE [code EXCEPT ![a.dict] = a.to]
    /\ Outdate(ShowsRow(a.dict), GivenAnotherCode(a), r, Deleting(RowKeys(a)))
    /\ UNCHANGED belongs

\* A dictionary's entries go with it.
WriteRemove(r) ==
    LET a == access[r] IN
    /\ Writing(r, "remove")
    /\ code' = [code EXCEPT ![a.dict] = None]
    /\ belongs' = [x \in Entry |-> IF belongs[x] = a.dict THEN None ELSE belongs[x]]
    /\ Outdate(ShowsRow(a.dict), GivenAnotherCode(a), r, Deleting(RowKeys(a)))

\* A request clears the dictionary d in which it has found the entry, or puts it.
\* It misses the one the entry has been moved to by another request since, and
\* the one it moves the entry to itself: no race is needed for that.
Uncleared(d, from, to) == Showing(({from, to} \ {d}) \intersect Dict)

\* For a request about d an entry goes from one dictionary (None: it is new)
\* to another (None: nowhere).
SaveEntry(r, d, x, from, to) ==
    /\ belongs' = [belongs EXCEPT ![x] = to]
    /\ Outdate(Showing({from, to} \intersect Dict), Uncleared(d, from, to), r,
               [NoAccess EXCEPT !.stage = "findCode", !.dict = d])
    /\ UNCHANGED code

CreateData(r) ==
    /\ AccessAt(r, "idle")
    /\ \E d \in Existing, x \in Entry :
        /\ belongs[x] = None /\ \A q \in Client : access[q].entry # x
        /\ SaveEntry(r, d, x, None, d)

WriteUpdateData(r) ==
    LET a == access[r]  from == belongs[a.entry] IN
    /\ Writing(r, "updateData")
    /\ SaveEntry(r, a.dict, a.entry, from, IF a.to = None THEN from ELSE a.to)

WriteRemoveData(r) ==
    LET a == access[r] IN
    /\ Writing(r, "removeData")
    /\ SaveEntry(r, a.dict, a.entry, belongs[a.entry], None)

-----------------------------------------------------------------------------
(* Writers delete keys.                                                     *)

\* The keys that show the data of d, in the order of their deletion.
DataKeys(d) == <<DataKey(code[d]), IdKey(d)>>

\* clearDictDataCache reads the code of the dictionary it was called for.
FindCode(r) ==
    LET a == access[r]
        found == IF a.dict \in Existing THEN DataKeys(a.dict) ELSE <<>>
    IN
    /\ AccessAt(r, "findCode")
    /\ access' = [access EXCEPT ![r] = Deleting(found \o <<ListKey>>)]
    /\ UNCHANGED <<code, belongs, cache, stale>>

Deleted(r) ==
    LET owed == Tail(access[r].owed) IN
    IF owed = <<>> THEN Done(r) ELSE access' = [access EXCEPT ![r].owed = owed]

Del(r) ==
    LET k == Head(access[r].owed) IN
    /\ AccessAt(r, "del")
    /\ cache' = [cache EXCEPT ![k] = "absent"]
    /\ stale' = stale \ {k}
    /\ Deleted(r)
    /\ UNCHANGED <<code, belongs>>

\* Outside the required mode of RedisService a failing deletion is only logged.
FailDel(r) ==
    LET k == Head(access[r].owed) IN
    /\ Lossy /\ AccessAt(r, "del")
    /\ stale' = IF cache[k] = "old" THEN stale \union {k} ELSE stale
    /\ Deleted(r)
    /\ UNCHANGED <<code, belongs, cache>>

\* The instance stops, or the required Redis is not there.  A copy that cannot
\* be stored is such an end too.
Abandon(r) ==
    /\ Lossy /\ ~AccessAt(r, "idle")
    /\ stale' = stale \union {k \in Promised(access[r]) : cache[k] = "old"}
    /\ Done(r)
    /\ UNCHANGED <<code, belongs, cache>>

Expire(k) ==
    /\ cache[k] # "absent"
    /\ cache' = [cache EXCEPT ![k] = "absent"]
    /\ stale' = stale \ {k}
    /\ UNCHANGED <<code, belongs, access>>

DictNext ==
    \/ \E k \in Key : Expire(k)
    \/ \E r \in Client :
        \/ FindAll(r) \/ FindOne(r) \/ FindByCode(r) \/ Set(r)
        \/ BeginCreate(r) \/ BeginUpdate(r) \/ Check(r) \/ BeginRemove(r)
        \/ BeginUpdateData(r) \/ BeginRemoveData(r)
        \/ WriteCreate(r) \/ WriteUpdate(r) \/ WriteRemove(r) \/ FailWrite(r)
        \/ CreateData(r) \/ WriteUpdateData(r) \/ WriteRemoveData(r)
        \/ FindCode(r) \/ Del(r) \/ FailDel(r) \/ Abandon(r)

DictSpec == DictInit /\ [][DictNext]_dictVars

-----------------------------------------------------------------------------
(* Properties.                                                              *)

DictTypeOK ==
    /\ code \in [Dict -> Code \union {None}]
    /\ belongs \in [Entry -> Dict \union {None}]
    /\ cache \in [Key -> {"absent", "fresh", "old"}]
    /\ access \in [Client -> AccessState]
    /\ stale \subseteq Key

\* Every write deletes each cached key it makes wrong, whatever other readers and
\* writers do between its statement and its deletions.  The exceptions are these,
\* and no other: a reader stores its copy after the last deletion; the row update
\* or remove has read was given another code since; a failure or a stop kept a
\* deletion from happening; and updateData clears only the dictionary it found
\* the entry in, so that another one an entry is moved to shows its old content.
CacheIsCurrent ==
    /\ DictTypeOK
    /\ \A k \in Key \ stale :
          cache[k] = "old" => \E r \in Client : k \in Promised(access[r])
=============================================================================
