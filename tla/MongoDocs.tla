----------------------------- MODULE MongoDocs ------------------------------
(***************************************************************************)
(* The processors of a mongo document, Find, All and Mutate                *)
(* (documents/mongodocs) and Collect (documents/crossdocs), between one    *)
(* record store and one collection of the database.                        *)
(*                                                                         *)
(* A client runs a chain of steps; the response of a step is handed to the *)
(* next.  Records are Go maps: the store, a response and the store of      *)
(* another client's response may hold the same map, and MergeMaps writes   *)
(* into it.  A map is abstracted to its key, one property that Mutate sets *)
(* and whether it has the rest of its properties.                          *)
(*                                                                         *)
(* Queries are by the key of the store, the store does not expire, and the *)
(* references of the store are by that key alone.  A Mutate may give a     *)
(* map a key it did not have (`rekeyed`), and with it a stored map.  What  *)
(* the store and its references do from then on is not followed (Next).    *)
(***************************************************************************)
EXTENDS Integers, Sequences, FiniteSets, SequencesExt

CONSTANTS
  Client, Record,
  Chains,       \* what a client may ask
  MaxChains,    \* bound: chains started
  Ref,          \* identities of maps, in a pool
  NoRecord, NoResponse, NoMap, NoDoc

Step == [op : {"find", "all", "collect", "mutate"},
         key : Record \cup {NoRecord}, amount : {-1, 1}]

Version == 0..MaxChains
Map == [key : Record \cup {NoRecord}, val : Version, rest : BOOLEAN]
Doc == [val : Version, rest : BOOLEAN]

ASSUME ChainsAreSteps == Chains \subseteq Seq(Step) \ {<<>>}
ASSUME RecordsAreFinite == IsFiniteSet(Record) /\ MaxChains \in Nat
ASSUME RefsAreNumbers == Ref \subseteq Nat
ASSUME NothingIsNone ==
  /\ NoRecord \notin Record /\ NoMap \notin Ref /\ NoResponse \notin Seq(Ref)
  /\ NoDoc \notin Doc

ASSUME FindsHaveKeys ==
  \A steps \in Chains : \A i \in DOMAIN steps :
    steps[i].op = "find" => steps[i].key # NoRecord

VARIABLES
  db,                \* the collection
  records, tainted,  \* the record store
  linked,            \* keys with a reference
  heap,              \* what the maps in use hold
  started,           \* how many chains were
  pc, chain, at,     \* each client's place
  version,           \* the value its Mutates set
  data,              \* the response of its last step
  item, inrec,       \* the loop over the response, and what Add found stored
  amount, sent,      \* locals of All and of Mutate
  reported,          \* what a stored record held when it was reported as
                     \* tainted, or inserted (history)
  unread, missed,    \* tainted keys no writer has read yet, and such keys that
                     \* were cleared (history)
  suspect, replaced, \* keys whose copies may differ, maps lost (history)
  rekeyed            \* a Mutate has given a map a key it did not have (history)

store == <<records, tainted, linked>>
locals == <<item, inrec, amount, sent>>
reports == <<reported, unread, missed>>
history == <<reports, suspect, replaced, rekeyed>>
request == <<started, chain, version>>
vars == <<db, store, heap, request, pc, at, data, locals, history>>

Points == {"idle", "step", "read", "has", "look", "insert", "merge", "taint", "link",
           "length", "select", "readAll", "marshal", "upsert", "answered", "failed",
           "clear", "written"}

(* TypeOK: every variable has its type, and what is held is a map.         *)
TypeOK ==
  /\ db \in [Record -> Doc \cup {NoDoc}]
  /\ records \in [Record -> Ref \cup {NoMap}]
  /\ tainted \subseteq Record /\ linked \subseteq Record
  /\ DOMAIN heap \subseteq Ref /\ \A r \in DOMAIN heap : heap[r] \in Map
  /\ \A k \in Record : records[k] # NoMap => records[k] \in DOMAIN heap
  /\ started \in 0..MaxChains
  /\ pc \in [Client -> Points]
  /\ chain \in [Client -> Chains \cup {<<>>}]
  /\ at \in [Client -> Nat \ {0}]
  /\ version \in [Client -> Version]
  /\ data \in [Client -> {NoResponse} \cup Seq(DOMAIN heap)]
  /\ item \in [Client -> Nat \ {0}]
  /\ inrec \in [Client -> DOMAIN heap \cup {NoMap}]
  /\ amount \in [Client -> Nat]
  /\ sent \in [Client -> Map \cup {NoMap}]
  /\ reported \in [Record -> Map \cup {NoMap}]
  /\ unread \subseteq Record /\ missed \subseteq Record
  /\ suspect \subseteq Record /\ replaced \subseteq Record
  /\ rekeyed \in BOOLEAN

Init ==
  /\ db \in [Record -> {NoDoc, [val |-> 0, rest |-> TRUE]}]
  /\ records = [k \in Record |-> NoMap]
  /\ tainted = {} /\ linked = {}
  /\ heap = <<>>
  /\ started = 0
  /\ pc = [c \in Client |-> "idle"]
  /\ chain = [c \in Client |-> <<>>]
  /\ at = [c \in Client |-> 1]
  /\ version = [c \in Client |-> 0]
  /\ data = [c \in Client |-> NoResponse]
  /\ item = [c \in Client |-> 1]
  /\ inrec = [c \in Client |-> NoMap]
  /\ amount = [c \in Client |-> 0]
  /\ sent = [c \in Client |-> NoMap]
  /\ reported = [k \in Record |-> NoMap]
  /\ unread = {} /\ missed = {}
  /\ suspect = {} /\ replaced = {}
  /\ rekeyed = FALSE

-----------------------------------------------------------------------------
Stored == {k \in Record : records[k] # NoMap}
InDb == {k \in Record : db[k] # NoDoc}
DocOf(m) == [val |-> m.val, rest |-> m.rest]
MapOf(k, doc) == [key |-> k, val |-> doc.val, rest |-> doc.rest]

(* MergeMaps: properties of from replace those of to.                      *)
MergeMaps(to, from) ==
  [key |-> IF from.key = NoRecord THEN to.key ELSE from.key,
   val |-> from.val, rest |-> to.rest \/ from.rest]

Now(c) == chain[c][at[c]]
Current(c) == data[c][item[c]]

(* What a chain may touch, and whether it changes anything.                *)
Footprint(steps) ==
  IF steps[1].op = "all" THEN Record
  ELSE {k \in Record : \E i \in DOMAIN steps :
          steps[i].op \in {"find", "mutate"} /\ steps[i].key = k}
Writes(steps) == \E i \in DOMAIN steps : steps[i].op = "mutate"
Running(c) == pc[c] # "idle"

(* What the last Find before a step looked for.                            *)
Sought(steps, n) ==
  {k \in Record : \E i \in 1..(n - 1) :
     /\ steps[i].op = "find" /\ steps[i].key = k
     /\ \A j \in (i + 1)..(n - 1) : steps[j].op # "find"}

(* Maps the store or a client other than c holds.                          *)
Held(c) ==
  {records[k] : k \in Stored} \cup {inrec[d] : d \in Client \ {c}} \cup
  UNION {IF data[d] = NoResponse THEN {} ELSE Range(data[d]) : d \in Client \ {c}}

(* Go's memory: maps nobody holds are gone.                                *)
Restricted(h, refs) == [r \in DOMAIN h \cap refs |-> h[r]]

(* A response of new maps takes identities from the pool, a bound.         *)
Ascending(s) == \A i, j \in DOMAIN s : i < j => s[i] < s[j]
Room(n) == \E s \in [1..n -> Ref \ DOMAIN heap] : Ascending(s)
Fresh(n) == CHOOSE s \in [1..n -> Ref \ DOMAIN heap] : Ascending(s)
Respond(c, maps) ==
  LET refs == Fresh(Len(maps)) IN
  /\ Room(Len(maps))
  /\ data' = [data EXCEPT ![c] = refs]
  /\ heap' = [r \in (DOMAIN heap \cap Held(c)) \cup Range(refs) |->
                IF r \in Range(refs) THEN maps[CHOOSE i \in 1..Len(maps) : refs[i] = r]
                ELSE heap[r]]

Goto(c, point) == pc' = [pc EXCEPT ![c] = point]

(* A processor returns a response: Handle goes on, or writes it.           *)
Advance(c) ==
  IF at[c] < Len(chain[c])
  THEN Goto(c, "step") /\ at' = [at EXCEPT ![c] = @ + 1]
  ELSE Goto(c, "answered") /\ UNCHANGED at

(* A processor returns an error or panics.                                 *)
Fails(c) == Goto(c, "failed") /\ UNCHANGED at

-----------------------------------------------------------------------------
(* A client asks.  Where a chain that changes records meets another over a *)
(* key, nothing keeps the store, the database and the answers together.    *)
Start(c, steps) ==
  /\ pc[c] = "idle"
  /\ started < MaxChains
  /\ started' = started + 1
  /\ chain' = [chain EXCEPT ![c] = steps]
  /\ version' = [version EXCEPT ![c] = started + 1]
  /\ Goto(c, "step")
  /\ suspect' = suspect \cup
       UNION {Footprint(steps) \cap Footprint(chain[d]) : d \in
                {e \in Client : Running(e) /\ (Writes(steps) \/ Writes(chain[e]))}}
  /\ UNCHANGED <<db, store, heap, at, data, locals, reports, replaced, rekeyed>>

(* The client is done with the answer, or with the error.                  *)
Return(c) ==
  /\ pc[c] \in {"answered", "failed", "written"}
  /\ Goto(c, "idle")
  /\ heap' = Restricted(heap, Held(c))
  /\ chain' = [chain EXCEPT ![c] = <<>>]
  /\ at' = [at EXCEPT ![c] = 1]
  /\ version' = [version EXCEPT ![c] = 0]
  /\ data' = [data EXCEPT ![c] = NoResponse]
  /\ item' = [item EXCEPT ![c] = 1]
  /\ inrec' = [inrec EXCEPT ![c] = NoMap]
  /\ amount' = [amount EXCEPT ![c] = 0]
  /\ sent' = [sent EXCEPT ![c] = NoMap]
  /\ UNCHANGED <<db, store, started, history>>

(* The session or the query of a step that reads fails.                    *)
ReadFails(c) ==
  /\ \/ pc[c] \in {"read", "readAll"}
     \/ pc[c] = "step" /\ Now(c).op = "all" /\ data[c] = NoResponse
  /\ Fails(c)
  /\ UNCHANGED <<db, store, heap, request, data, locals, history>>

-----------------------------------------------------------------------------
(* Find. *)

GetByRef(c) ==
  /\ pc[c] = "step" /\ Now(c).op = "find"
  /\ IF Now(c).key \in linked
     THEN data' = [data EXCEPT ![c] = <<records[Now(c).key]>>] /\ Advance(c)
     ELSE Goto(c, "read") /\ UNCHANGED <<at, data>>
  /\ UNCHANGED <<db, store, heap, request, locals, history>>

ReadOne(c) ==
  LET k == Now(c).key IN
  /\ pc[c] = "read"
  /\ IF k \in InDb
     THEN Respond(c, <<MapOf(k, db[k])>>) /\ Goto(c, "has") /\ UNCHANGED at
     ELSE Respond(c, <<>>) /\ Advance(c)
  /\ item' = [item EXCEPT ![c] = 1]
  /\ UNCHANGED <<db, store, request, inrec, amount, sent, history>>

(* Mutant: the test for a stored record is the wrong way round. *)
HasRefReversed(c) ==
  /\ pc[c] = "has"
  /\ Goto(c, IF heap[Current(c)].key \in Stored THEN "look" ELSE "link")
  /\ UNCHANGED <<db, store, heap, request, at, data, locals, history>>

(* AddRef adds a record the store does not have, and links it.             *)
HasRef(c) ==
  /\ pc[c] = "has"
  /\ Goto(c, IF heap[Current(c)].key \in Stored THEN "link" ELSE "look")
  /\ UNCHANGED <<db, store, heap, request, at, data, locals, history>>

Link(c) ==
  /\ pc[c] = "link"
  /\ linked' = linked \cup {heap[Current(c)].key}
  /\ Advance(c)
  /\ UNCHANGED <<db, records, tainted, heap, request, data, locals, history>>

-----------------------------------------------------------------------------
(* Store.Add, record by record of a response, in its lock sections.        *)

Look(c) ==
  LET k == heap[Current(c)].key IN
  /\ pc[c] = "look"
  /\ inrec' = [inrec EXCEPT ![c] = records[k]]
  /\ Goto(c, IF k \in Stored THEN "merge" ELSE "insert")
  /\ UNCHANGED <<db, store, heap, request, at, data, item, amount, sent, history>>

(* Add of one record has returned.                                         *)
Added(c) ==
  \/ /\ Now(c).op = "find"
     /\ Goto(c, "link")
     /\ UNCHANGED <<at, item>>
  \/ /\ Now(c).op # "find" /\ item[c] < Len(data[c])
     /\ item' = [item EXCEPT ![c] = @ + 1]
     /\ Goto(c, IF Now(c).op = "all" THEN "look" ELSE "step")
     /\ UNCHANGED at
  \/ /\ Now(c).op = "all" /\ item[c] = Len(data[c])
     /\ item' = [item EXCEPT ![c] = 1]
     /\ Advance(c)
  \/ /\ Now(c).op = "mutate" /\ item[c] = Len(data[c])
     /\ item' = [item EXCEPT ![c] = 1]
     /\ Goto(c, "marshal")
     /\ UNCHANGED at

Insert(c) ==
  LET k == heap[Current(c)].key IN
  /\ pc[c] = "insert"
  /\ records' = [records EXCEPT ![k] = Current(c)]
  /\ reported' = [reported EXCEPT ![k] = heap[Current(c)]]
  /\ replaced' = IF k \in Stored THEN replaced \cup {k} ELSE replaced
  /\ Added(c)
  /\ UNCHANGED <<db, tainted, linked, heap, request, data, inrec, amount, sent, unread, missed,
                 suspect, rekeyed>>

Merge(c) ==
  /\ pc[c] = "merge"
  /\ heap' = [heap EXCEPT ![inrec[c]] = MergeMaps(@, heap[Current(c)])]
  /\ Goto(c, "taint")
  /\ UNCHANGED <<db, store, request, at, data, locals, history>>

(* Mutant: a map that is the stored one is not tainted. *)
TaintOther(c) ==
  LET k == heap[Current(c)].key IN
  /\ pc[c] = "taint"
  /\ records' = [records EXCEPT ![k] = inrec[c]]
  /\ tainted' = IF inrec[c] = Current(c) THEN tainted ELSE tainted \cup {k}
  /\ unread' = IF inrec[c] = Current(c) THEN unread ELSE unread \cup {k}
  /\ inrec' = [inrec EXCEPT ![c] = NoMap]
  /\ Added(c)
  /\ UNCHANGED <<db, linked, heap, request, data, amount, sent, reported, missed, suspect,
                 replaced, rekeyed>>

Taint(c) ==
  LET k == heap[Current(c)].key IN
  /\ pc[c] = "taint"
  /\ records' = [records EXCEPT ![k] = inrec[c]]
  /\ tainted' = tainted \cup {k}
  /\ unread' = unread \cup {k}
  /\ inrec' = [inrec EXCEPT ![c] = NoMap]
  /\ Added(c)
  /\ UNCHANGED <<db, linked, heap, request, data, amount, sent, reported, missed, suspect,
                 replaced, rekeyed>>

-----------------------------------------------------------------------------
(* All. *)

FirstAll(c) == pc[c] = "step" /\ Now(c).op = "all" /\ data[c] = NoResponse

(* On a response: its first records; a slice beyond them panics.           *)
AllOfLast(c) ==
  /\ pc[c] = "step" /\ Now(c).op = "all" /\ data[c] # NoResponse
  /\ IF Now(c).amount <= Len(data[c])
     THEN /\ data' = [data EXCEPT ![c] =
                        IF Now(c).amount < 0 THEN @ ELSE SubSeq(@, 1, Now(c).amount)]
          /\ Advance(c)
     ELSE Fails(c) /\ UNCHANGED data
  /\ UNCHANGED <<db, store, heap, request, locals, history>>

(* Mutant: the records of the store are counted. *)
CountStored(c) ==
  /\ FirstAll(c)
  /\ amount' = [amount EXCEPT ![c] =
                  IF Now(c).amount < 0 THEN Cardinality(Stored) ELSE Now(c).amount]
  /\ Goto(c, "length")
  /\ UNCHANGED <<db, store, heap, request, at, data, item, inrec, sent, history>>

Count(c) ==
  /\ FirstAll(c)
  /\ amount' = [amount EXCEPT ![c] =
                  IF Now(c).amount < 0 THEN Cardinality(InDb) ELSE Now(c).amount]
  /\ Goto(c, "length")
  /\ UNCHANGED <<db, store, heap, request, at, data, item, inrec, sent, history>>

Length(c) ==
  /\ pc[c] = "length"
  /\ Goto(c, IF amount[c] <= Cardinality(Stored) THEN "select" ELSE "readAll")
  /\ UNCHANGED <<db, store, heap, request, at, data, locals, history>>

(* Copies of as many records of the store, in no order of its own.         *)
Select(c) ==
  /\ pc[c] = "select"
  /\ \E keys \in kSubset(amount[c], Stored) :
       Respond(c, LET order == SetToSeq(keys) IN
                  [i \in 1..amount[c] |-> heap[records[order[i]]]])
  /\ Advance(c)
  /\ UNCHANGED <<db, store, request, locals, history>>

ReadAll(c) ==
  /\ pc[c] = "readAll"
  /\ LET n == IF amount[c] <= Cardinality(InDb) THEN amount[c] ELSE Cardinality(InDb) IN
     /\ \E keys \in kSubset(n, InDb) :
          Respond(c, LET order == SetToSeq(keys) IN
                     [i \in 1..n |-> MapOf(order[i], db[order[i]])])
     /\ IF n = 0 THEN Advance(c) ELSE Goto(c, "look") /\ UNCHANGED at
  /\ item' = [item EXCEPT ![c] = 1]
  /\ UNCHANGED <<db, store, request, inrec, amount, sent, history>>

-----------------------------------------------------------------------------
(* Collect: new maps with the properties asked for, of which the key may   *)
(* be one.                                                                 *)
Collect(c) ==
  /\ pc[c] = "step" /\ Now(c).op = "collect"
  /\ IF data[c] = NoResponse
     THEN Fails(c) /\ UNCHANGED <<heap, data>>
     ELSE /\ Respond(c, [i \in DOMAIN data[c] |->
                [heap[data[c][i]] EXCEPT !.rest = FALSE,
                   !.key = IF Now(c).key = NoRecord THEN NoRecord ELSE @]])
          /\ Advance(c)
  /\ UNCHANGED <<db, store, request, locals, history>>

-----------------------------------------------------------------------------
(* Mutate. *)

Parameter(c) == [key |-> Now(c).key, val |-> version[c], rest |-> FALSE]

(* The session fails; or it is the first step, whose LastResponse is nil,  *)
(* and panics; or it is to make a record and has no key.                   *)
MutateFails(c) ==
  /\ pc[c] = "step" /\ Now(c).op = "mutate"
  /\ item[c] = 1 \/ data[c] = <<>>
  /\ Fails(c)
  /\ UNCHANGED <<db, store, heap, request, data, locals, history>>

(* A record of the response is changed where it is, then added.            *)
MergeParameter(c) ==
  /\ pc[c] = "step" /\ Now(c).op = "mutate"
  /\ data[c] \notin {NoResponse, <<>>}
  /\ heap' = [heap EXCEPT ![Current(c)] = MergeMaps(@, Parameter(c))]
  /\ rekeyed' = (heap'[Current(c)].key # heap[Current(c)].key)
  /\ IF heap'[Current(c)].key = NoRecord THEN Fails(c)
     ELSE Goto(c, "look") /\ UNCHANGED at
  /\ UNCHANGED <<db, store, request, data, locals, reports, suspect, replaced>>

(* Upsert encodes a map, which may change once it is sent.                 *)
Marshal(c) ==
  /\ pc[c] = "marshal"
  /\ sent' = [sent EXCEPT ![c] = heap[Current(c)]]
  /\ Goto(c, "upsert")
  /\ UNCHANGED <<db, store, heap, request, at, data, item, inrec, amount, history>>

(* Without records in the response, the parameter becomes one.  The store  *)
(* is not told, though it may have that record, if it is another one than  *)
(* the last Find did not find.                                             *)
Create(c) ==
  LET k == Now(c).key IN
  /\ pc[c] = "step" /\ Now(c).op = "mutate"
  /\ data[c] = <<>> /\ k # NoRecord
  /\ Respond(c, <<Parameter(c)>>)
  /\ sent' = [sent EXCEPT ![c] = Parameter(c)]
  /\ Goto(c, "upsert")
  /\ suspect' = suspect \cup (({k} \cap Stored) \ Sought(chain[c], at[c]))
  /\ UNCHANGED <<db, store, request, at, item, inrec, amount, reports, replaced, rekeyed>>

(* Mutant: only the first record is written. *)
UpsertFirst(c) ==
  /\ pc[c] = "upsert"
  /\ db' = [db EXCEPT ![sent[c].key] = DocOf(sent[c])]
  /\ Advance(c)
  /\ sent' = [sent EXCEPT ![c] = NoMap]
  /\ UNCHANGED <<store, heap, request, data, item, inrec, amount, history>>

(* The document is replaced by the map: a collected one leaves out the     *)
(* rest of it.                                                             *)
Upsert(c) ==
  LET k == sent[c].key IN
  /\ pc[c] = "upsert"
  /\ db' = [db EXCEPT ![k] = DocOf(sent[c])]
  /\ suspect' = IF db[k] # NoDoc /\ db[k].rest # sent[c].rest
                THEN suspect \cup {k} ELSE suspect
  /\ IF item[c] < Len(data[c])
     THEN Goto(c, "marshal") /\ item' = [item EXCEPT ![c] = @ + 1] /\ UNCHANGED at
     ELSE Advance(c) /\ item' = [item EXCEPT ![c] = 1]
  /\ sent' = [sent EXCEPT ![c] = NoMap]
  /\ UNCHANGED <<store, heap, request, data, inrec, amount, reports, replaced, rekeyed>>

(* An error, of a document that was written or was not.                    *)
UpsertFails(c) ==
  LET k == sent[c].key IN
  /\ pc[c] = "upsert"
  /\ db' \in {db, [db EXCEPT ![k] = DocOf(sent[c])]}
  /\ suspect' = suspect \cup {heap[r].key : r \in Range(data[c])}
  /\ Fails(c)
  /\ UNCHANGED <<store, heap, request, data, locals, reports, replaced, rekeyed>>

-----------------------------------------------------------------------------
(* The writer reads the tainted keys for a delta and clears them later.    *)
(* That of a single query does so after an answer, that of a batch after   *)
(* the last query, whatever became of it.                                  *)
TaintedRecords(c) ==
  /\ pc[c] \in {"answered", "failed"}
  /\ Goto(c, "clear")
  /\ reported' = [k \in Record |-> IF k \in tainted THEN heap[records[k]] ELSE reported[k]]
  /\ missed' = missed \ tainted
  /\ unread' = {}
  /\ UNCHANGED <<db, store, heap, request, at, data, locals, suspect, replaced, rekeyed>>

ClearTainted(c) ==
  /\ pc[c] = "clear"
  /\ Goto(c, "written")
  /\ tainted' = {}
  /\ missed' = missed \cup unread
  /\ unread' = {}
  /\ UNCHANGED <<db, records, linked, heap, request, at, data, locals, reported, suspect,
                 replaced, rekeyed>>

Process(c) ==
  \/ GetByRef(c) \/ ReadOne(c) \/ HasRef(c) \/ Link(c)
  \/ Look(c) \/ Insert(c) \/ Merge(c) \/ Taint(c)
  \/ AllOfLast(c) \/ Count(c) \/ Length(c) \/ Select(c) \/ ReadAll(c)
  \/ Collect(c)
  \/ MergeParameter(c) \/ Marshal(c) \/ Create(c) \/ Upsert(c)
  \/ ReadFails(c) \/ MutateFails(c) \/ UpsertFails(c)

(* A bound: the first Mutate that gives a map a key is the last step.      *)
Next == /\ ~rekeyed
        /\ \E c \in Client : \/ \E steps \in Chains : Start(c, steps)
                            \/ Process(c) \/ TaintedRecords(c) \/ ClearTainted(c) \/ Return(c)

Spec == Init /\ [][Next]_vars

-----------------------------------------------------------------------------
Adding(c, k) == /\ pc[c] \in {"look", "insert", "merge", "taint"}
                /\ heap[Current(c)].key = k

(* StoreAgrees: a stored record is what the database has, once no chain    *)
(* that may touch it is on its way; unless two chains met over it, an      *)
(* upsert failed, a collected record was mutated, or a Mutate made a       *)
(* record that the store has or changed a key.                             *)
StoreAgrees ==
  ~rekeyed => \A k \in Stored \ suspect :
    (\A c \in Client : Running(c) => k \notin Footprint(chain[c])) =>
      db[k] # NoDoc /\ heap[records[k]] = MapOf(k, db[k])

(* A query for all records, none cut off or made, each with its key.       *)
Complete(steps) ==
  /\ steps[1].op = "all"
  /\ \A i \in DOMAIN steps :
       /\ steps[i].op # "find"
       /\ steps[i].op = "all" => steps[i].amount < 0
       /\ steps[i].op = "collect" => steps[i].key # NoRecord
       /\ steps[i].op = "mutate" => steps[i].key = NoRecord

(* AnswersAgree: under the same proviso an answer shows its records as     *)
(* they are in the database, and a query for all leaves none out, though   *)
(* it may come from the store, chosen by its number of records.            *)
AnswersAgree ==
  ~rekeyed => \A c \in Client : pc[c] = "answered" =>
    LET answer == {heap[r] : r \in Range(data[c])} IN
    /\ (\A i \in DOMAIN chain[c] : chain[c][i].op # "collect") =>
         \A m \in answer : m.key \notin suspect => db[m.key] = DocOf(m)
    /\ suspect = {} /\ Complete(chain[c]) => {m.key : m \in answer} = InDb

(* ChangesAreTainted: a stored record that is not what was last reported   *)
(* is tainted, or about to be, although Mutate writes into stored maps     *)
(* before it calls Add; unless two first Adds of it met, it was tainted    *)
(* between the two sections of a writer, or a Mutate changed a key.        *)
ChangesAreTainted ==
  ~rekeyed => \A k \in Stored \ (replaced \cup missed) :
    heap[records[k]] = reported[k] \/ k \in tainted \/ \E c \in Client : Adding(c, k)
=============================================================================
