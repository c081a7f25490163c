------------------------------- MODULE Store --------------------------------
(***************************************************************************)
(* The record store (storage/storage.go, type under): a map of records     *)
(* with the sets of tainted and deleted keys, one reference index and the  *)
(* access counters by which an expirable store forgets what nobody uses.   *)
(*                                                                         *)
(* Goroutines call it concurrently.  A call is cut where the code takes or *)
(* drops a lock, and where it touches a map without one.  rl is held over  *)
(* several steps by Add, GetByRef and ModRefBy; afl only by clean.  rfl    *)
(* guards a single lookup and is left out.                                 *)
(*                                                                         *)
(* A record is a Go map, so it has an identity: Add merges into the map it *)
(* found, whatever became of it meanwhile.  heap holds what each map       *)
(* contains: the properties it was given (MergeMaps adds those it lacks)   *)
(* and the value under the one reference key (MergeMaps overwrites it).    *)
(* Maps nested in a record, and the conversions MergeMaps makes between    *)
(* types of values, are left out.                                          *)
(***************************************************************************)
EXTENDS Naturals, FiniteSets, Sequences

CONSTANTS
  Goroutine,   \* the callers
  Key,         \* record keys
  Property,    \* properties of a record other than its key and reference
  RefValue,    \* values under the reference key
  NoRef,       \* a record without the reference key
  MaxMaps,     \* how many maps are ever passed to the store (a bound)
  Expirable,   \* TRUE for NewExpirable, FALSE for New
  Workload,    \* the calls the goroutines make
  NoOne        \* no goroutine

ASSUME NoOneIsNone == NoOne \notin Goroutine
ASSUME NoRefIsNone == NoRef \notin RefValue
ASSUME ExpirableIsBoolean == Expirable \in BOOLEAN
ASSUME MaxMapsIsNumber == MaxMaps \in Nat
ASSUME KeysExist == Key # {}

Map == 1..MaxMaps
NoMap == 0

PassesMap == {"Add", "ModRef", "AddRef", "RemoveByKey", "RemoveByValue"}
Operation == PassesMap \cup {"AdjustRef", "Get", "GetByRef", "Delete", "Remove",
                             "ClearTainted", "ClearDeleted"}

Contents == [props : SUBSET Property, ref : RefValue \cup {NoRef}]

(* with is the map that is passed; its ref is what GetByRef looks for.     *)
Invocation == [op : Operation, key : Key, with : Contents]

ASSUME WorkloadIsCalls == Workload \subseteq Invocation
ASSUME LookupsAreOfValues ==
  \A i \in Workload : i.op = "GetByRef" => i.with.ref # NoRef

VARIABLES
  records,  \* key -> map, NoMap when the key is not stored
  heap,     \* what each map holds
  tainted, deleted,
  refs,     \* recordRefs: reference value -> key -> its truth, "none" if absent
  active,   \* key -> accesses, 0 if the key is absent; 2 stands for two or more
  rlWriter, rlReaders,   \* who holds rl
  pc, call,
  local,    \* the variables of a call
  answer,   \* GetByRef: the maps it collected
  cleaner,  \* "sweep" while clean holds afl.RLock
  dirty,    \* the keys clean has still to visit
  victim,   \* the key clean is about to delete, {} when there is none
  touched   \* keys accessed since clean last visited them (history)

locks == <<rlWriter, rlReaders>>
sweeping == <<cleaner, dirty, victim>>
vars == <<records, heap, tainted, deleted, refs, active, locks, pc, call, local,
          answer, sweeping, touched>>

Point == {"done", "find", "insert", "countNew", "merge", "store", "countOld", "setOld",
          "has", "read", "countGet", "setGet", "refs", "collect", "setRef",
          "hasRef", "pull", "link", "countMod", "setMod", "check", "erase", "peek", "strip"}

(* rec is the map a call works with, inrec the one it found in the store,  *)
(* want a reference value, count a counter, todo the keys of a loop.       *)
Locals == [rec : Map \cup {NoMap}, inrec : Map \cup {NoMap},
           want : RefValue \cup {NoRef}, count : 0..2, todo : SUBSET Key]
Blank == [rec |-> NoMap, inrec |-> NoMap, want |-> NoRef, count |-> 0, todo |-> {}]

(* TypeOK: every variable has its type. *)
TypeOK ==
  /\ records \in [Key -> Map \cup {NoMap}]
  /\ heap \in Seq(Contents) /\ Len(heap) <= MaxMaps
  /\ tainted \subseteq Key /\ deleted \subseteq Key
  /\ refs \in [RefValue -> [Key -> {"none", "true", "false"}]]
  /\ active \in [Key -> 0..2]
  /\ rlWriter \in Goroutine \cup {NoOne} /\ rlReaders \subseteq Goroutine
  /\ pc \in [Goroutine -> Point]
  /\ call \in [Goroutine -> Invocation]
  /\ local \in [Goroutine -> Locals]
  /\ answer \in [Goroutine -> SUBSET (Map \cup {NoMap})]
  /\ cleaner \in {"asleep", "sweep"}
  /\ dirty \subseteq Key /\ victim \subseteq Key /\ touched \subseteq Key

Init ==
  /\ records = [k \in Key |-> NoMap]
  /\ heap = <<>>
  /\ tainted = {} /\ deleted = {}
  /\ refs = [v \in RefValue |-> [k \in Key |-> "none"]]
  /\ active = [k \in Key |-> 0]
  /\ rlWriter = NoOne /\ rlReaders = {}
  /\ pc = [g \in Goroutine |-> "done"]
  /\ call \in [Goroutine -> {CHOOSE i \in Invocation : i.op = "ClearTainted"}]
  /\ local = [g \in Goroutine |-> Blank]
  /\ answer = [g \in Goroutine |-> {}]
  /\ cleaner = "asleep" /\ dirty = {} /\ victim = {}
  /\ touched = {}

-----------------------------------------------------------------------------
(* What the steps of a call share.                                         *)

CanRead == rlWriter = NoOne
CanWrite == rlWriter = NoOne /\ rlReaders = {}

At(g, point) == pc[g] = point
Goto(g, point) == pc' = [pc EXCEPT ![g] = point]
KeyOf(g) == call[g].key
Stored(g) == records[KeyOf(g)] # NoMap
Keep(g, field, value) == local' = [local EXCEPT ![g] = [@ EXCEPT ![field] = value]]

Return(g) == Goto(g, "done") /\ local' = [local EXCEPT ![g] = Blank]

(* d := active[k] under afl.RLock. *)
ReadCount(g) == Keep(g, "count", active[KeyOf(g)])

(* atomic.AddInt64(&d, 1), where 2 is as good as more. *)
Bumped(g) == IF local[g].count = 2 THEN 2 ELSE local[g].count + 1

(* active[k] = n under afl.Lock, which clean's RLock keeps out. *)
SetActive(g, n) ==
  /\ cleaner = "asleep"
  /\ active' = [active EXCEPT ![KeyOf(g)] = n]
  /\ touched' = touched \cup {KeyOf(g)}

FirstStep(op) ==
  CASE op \in {"Add", "ModRef"}                -> "find"
    [] op \in {"AddRef", "AdjustRef"}          -> "hasRef"
    [] op = "Get"                              -> "has"
    [] op = "GetByRef"                         -> "refs"
    [] op = "Delete"                           -> "check"
    [] op \in {"RemoveByKey", "RemoveByValue"} -> "peek"
    [] OTHER                                   -> "erase"

Invoke(g, i) ==
  /\ At(g, "done")
  /\ \/ /\ i.op \notin PassesMap
        /\ UNCHANGED <<heap, local>>
     \/ /\ i.op \in PassesMap
        /\ Len(heap) < MaxMaps
        /\ heap' = Append(heap, i.with)
        /\ Keep(g, "rec", Len(heap) + 1)
  /\ call' = [call EXCEPT ![g] = i]
  /\ answer' = [answer EXCEPT ![g] = {}]
  /\ Goto(g, FirstStep(i.op))
  /\ UNCHANGED <<records, tainted, deleted, refs, active, locks, sweeping, touched>>

-----------------------------------------------------------------------------
(* Add, alone or called by ModRefBy.                                       *)

AfterAdd(g) == IF call[g].op = "Add" THEN Return(g)
               ELSE Goto(g, "pull") /\ UNCHANGED local

Find(g) ==
  /\ At(g, "find")
  /\ CanRead
  /\ Keep(g, "inrec", records[KeyOf(g)])
  /\ Goto(g, IF Stored(g) THEN "merge" ELSE "insert")
  /\ UNCHANGED <<records, heap, tainted, deleted, refs, active, locks, call, answer,
                 sweeping, touched>>

Insert(g) ==
  /\ At(g, "insert")
  /\ CanWrite
  /\ rlWriter' = g
  /\ records' = [records EXCEPT ![KeyOf(g)] = local[g].rec]
  /\ Goto(g, "countNew")
  /\ UNCHANGED <<heap, tainted, deleted, refs, active, rlReaders, call, local, answer,
                 sweeping, touched>>

(* Mutant: a new record starts like one that was not accessed.             *)
CountNewOnce(g) ==
  /\ At(g, "countNew")
  /\ SetActive(g, 1)
  /\ rlWriter' = NoOne
  /\ AfterAdd(g)
  /\ UNCHANGED <<records, heap, tainted, deleted, refs, rlReaders, call, answer, sweeping>>

CountNew(g) ==
  /\ At(g, "countNew")
  /\ SetActive(g, 2)
  /\ rlWriter' = NoOne
  /\ AfterAdd(g)
  /\ UNCHANGED <<records, heap, tainted, deleted, refs, rlReaders, call, answer, sweeping>>

(* Mutant: the second map becomes a property of the first.                 *)
MergeMapsNested(to, from) ==
  [props |-> to.props \cup {from.props},
   ref |-> IF from.ref = NoRef THEN to.ref ELSE from.ref]

MergeMaps(to, from) ==
  [props |-> to.props \cup from.props,
   ref |-> IF from.ref = NoRef THEN to.ref ELSE from.ref]

Merge(g) ==
  /\ At(g, "merge")
  /\ heap' = [heap EXCEPT ![local[g].inrec] = MergeMaps(@, heap[local[g].rec])]
  /\ Goto(g, "store")
  /\ UNCHANGED <<records, tainted, deleted, refs, active, locks, call, local, answer,
                 sweeping, touched>>

StoreMerged(g) ==
  /\ At(g, "store")
  /\ CanWrite
  /\ rlWriter' = g
  /\ records' = [records EXCEPT ![KeyOf(g)] = local[g].inrec]
  /\ tainted' = tainted \cup {KeyOf(g)}
  /\ Goto(g, "countOld")
  /\ UNCHANGED <<heap, deleted, refs, active, rlReaders, call, local, answer, sweeping,
                 touched>>

CountOld(g) ==
  /\ At(g, "countOld")
  /\ ReadCount(g)
  /\ Goto(g, "setOld")
  /\ UNCHANGED <<records, heap, tainted, deleted, refs, active, locks, call, answer,
                 sweeping, touched>>

SetOld(g) ==
  /\ At(g, "setOld")
  /\ SetActive(g, Bumped(g))
  /\ rlWriter' = NoOne
  /\ AfterAdd(g)
  /\ UNCHANGED <<records, heap, tainted, deleted, refs, rlReaders, call, answer, sweeping>>

-----------------------------------------------------------------------------
(* Get, alone or called by AdjustRef.                                      *)

Has(g) ==
  /\ At(g, "has")
  /\ CanRead
  /\ IF Stored(g) THEN Goto(g, "read") /\ UNCHANGED local ELSE Return(g)
  /\ UNCHANGED <<records, heap, tainted, deleted, refs, active, locks, call, answer,
                 sweeping, touched>>

Read(g) ==
  /\ At(g, "read")
  /\ CanRead
  /\ Keep(g, "inrec", records[KeyOf(g)])
  /\ Goto(g, "countGet")
  /\ UNCHANGED <<records, heap, tainted, deleted, refs, active, locks, call, answer,
                 sweeping, touched>>

CountGet(g) ==
  /\ At(g, "countGet")
  /\ ReadCount(g)
  /\ Goto(g, "setGet")
  /\ UNCHANGED <<records, heap, tainted, deleted, refs, active, locks, call, answer,
                 sweeping, touched>>

(* A nil record is no ValidRecord, where ModRefBy gives up.                *)
SetGet(g) ==
  /\ At(g, "setGet")
  /\ SetActive(g, Bumped(g))
  /\ IF call[g].op = "AdjustRef" /\ local[g].inrec # NoMap
     THEN Keep(g, "rec", local[g].inrec) /\ Goto(g, "pull")
     ELSE Return(g)
  /\ UNCHANGED <<records, heap, tainted, deleted, refs, locks, call, answer, sweeping>>

-----------------------------------------------------------------------------
(* GetByRef holds rl.RLock over its loop.  The key of its call is the one  *)
(* the loop is at.                                                         *)

ListedUnder(v) == {k \in Key : refs[v][k] # "none"}

Refs(g) ==
  LET listed == ListedUnder(call[g].with.ref) IN
  /\ At(g, "refs")
  /\ CanRead
  /\ IF listed = {}
     THEN Return(g) /\ UNCHANGED rlReaders
     ELSE /\ rlReaders' = rlReaders \cup {g}
          /\ Keep(g, "todo", listed)
          /\ Goto(g, "collect")
  /\ UNCHANGED <<records, heap, tainted, deleted, refs, active, rlWriter, call, answer,
                 sweeping, touched>>

Collect(g, k) ==
  /\ At(g, "collect")
  /\ k \in local[g].todo
  /\ call' = [call EXCEPT ![g].key = k]
  /\ local' = [local EXCEPT ![g].todo = @ \ {k}, ![g].count = active[k]]
  /\ Goto(g, "setRef")
  /\ UNCHANGED <<records, heap, tainted, deleted, refs, active, locks, answer, sweeping,
                 touched>>

SetRef(g) ==
  /\ At(g, "setRef")
  /\ SetActive(g, Bumped(g))
  /\ answer' = [answer EXCEPT ![g] = @ \cup {records[KeyOf(g)]}]
  /\ IF local[g].todo = {}
     THEN Return(g) /\ rlReaders' = rlReaders \ {g}
     ELSE Goto(g, "collect") /\ UNCHANGED <<local, rlReaders>>
  /\ UNCHANGED <<records, heap, tainted, deleted, refs, rlWriter, call, sweeping>>

-----------------------------------------------------------------------------
(* ModRefBy, after the Add it makes for a new record.  scans never exceeds *)
(* one, so the branch that skips the loop over the records is never taken. *)

HasRef(g) ==
  /\ At(g, "hasRef")
  /\ CanRead
  /\ \/ /\ call[g].op = "AddRef"
        /\ Goto(g, IF Stored(g) THEN "pull" ELSE "find") /\ UNCHANGED local
     \/ call[g].op # "AddRef" /\ Stored(g) /\ Goto(g, "has") /\ UNCHANGED local
     \/ call[g].op # "AddRef" /\ ~Stored(g) /\ Return(g)
  /\ UNCHANGED <<records, heap, tainted, deleted, refs, active, locks, call, answer,
                 sweeping, touched>>

Pull(g) ==
  LET recVal == heap[local[g].rec].ref IN
  /\ At(g, "pull")
  /\ IF recVal = NoRef
     THEN Return(g)
     ELSE Keep(g, "want", recVal) /\ Goto(g, "link")
  /\ UNCHANGED <<records, heap, tainted, deleted, refs, active, locks, call, answer,
                 sweeping, touched>>

Referring(v) == {k \in Key : records[k] # NoMap /\ heap[records[k]].ref = v}

Link(g) ==
  LET want == local[g].want IN
  /\ At(g, "link")
  /\ CanRead
  /\ rlReaders' = rlReaders \cup {g}
  /\ refs' = [refs EXCEPT ![want] =
                [k \in Key |-> IF k \in Referring(want) THEN "true" ELSE @[k]]]
  /\ Goto(g, "countMod")
  /\ UNCHANGED <<records, heap, tainted, deleted, active, rlWriter, call, local, answer,
                 sweeping, touched>>

CountMod(g) ==
  /\ At(g, "countMod")
  /\ ReadCount(g)
  /\ Goto(g, "setMod")
  /\ UNCHANGED <<records, heap, tainted, deleted, refs, active, locks, call, answer,
                 sweeping, touched>>

(* Mutant: ModRefBy without its deferred RUnlock.                          *)
SetModLocked(g) ==
  /\ At(g, "setMod")
  /\ SetActive(g, Bumped(g))
  /\ Return(g)
  /\ UNCHANGED <<records, heap, tainted, deleted, refs, locks, call, answer, sweeping>>

SetMod(g) ==
  /\ At(g, "setMod")
  /\ SetActive(g, Bumped(g))
  /\ rlReaders' = rlReaders \ {g}
  /\ Return(g)
  /\ UNCHANGED <<records, heap, tainted, deleted, refs, rlWriter, call, answer, sweeping>>

-----------------------------------------------------------------------------
(* Delete looks before it locks; Remove does not look.                     *)

Check(g) ==
  /\ At(g, "check")
  /\ IF Stored(g) THEN Goto(g, "erase") /\ UNCHANGED local ELSE Return(g)
  /\ UNCHANGED <<records, heap, tainted, deleted, refs, active, locks, call, answer,
                 sweeping, touched>>

Forget(k) ==
  /\ records' = [records EXCEPT ![k] = NoMap]
  /\ tainted' = tainted \ {k}
  /\ deleted' = deleted \cup {k}

(* UnSet writes FALSE in every truth table there is, the key listed or not. *)
UnSet(k) ==
  refs' = [v \in RefValue |->
             IF ListedUnder(v) = {} THEN refs[v] ELSE [refs[v] EXCEPT ![k] = "false"]]

Erases(g, op) ==
  /\ At(g, "erase") /\ call[g].op = op
  /\ CanWrite
  /\ Return(g)
  /\ UNCHANGED <<heap, active, locks, call, answer, sweeping, touched>>

Delete(g) == Erases(g, "Delete") /\ Forget(KeyOf(g)) /\ UnSet(KeyOf(g))

(* Mutant: Remove leaves the key tainted.                                  *)
RemoveTainted(g) ==
  /\ Erases(g, "Remove")
  /\ records' = [records EXCEPT ![KeyOf(g)] = NoMap]
  /\ deleted' = deleted \cup {KeyOf(g)}
  /\ UNCHANGED <<tainted, refs>>

Remove(g) == Erases(g, "Remove") /\ Forget(KeyOf(g)) /\ UNCHANGED refs

ClearTainted(g) ==
  Erases(g, "ClearTainted") /\ tainted' = {} /\ UNCHANGED <<records, deleted, refs>>

ClearDeleted(g) ==
  Erases(g, "ClearDeleted") /\ deleted' = {} /\ UNCHANGED <<records, tainted, refs>>

(* RemoveByKey and RemoveByValue take properties off the stored map, which *)
(* they read under rl and change without it.                               *)
Peek(g) ==
  /\ At(g, "peek")
  /\ CanRead
  /\ Keep(g, "inrec", records[KeyOf(g)])
  /\ Goto(g, "strip")
  /\ UNCHANGED <<records, heap, tainted, deleted, refs, active, locks, call, answer,
                 sweeping, touched>>

Stripped(target, diff, byValue) ==
  [props |-> target.props \ diff.props,
   ref |-> IF diff.ref = NoRef \/ (byValue /\ diff.ref # target.ref) THEN target.ref
           ELSE NoRef]

Strip(g) ==
  LET inrec == local[g].inrec IN
  /\ At(g, "strip")
  /\ heap' = IF inrec = NoMap THEN heap
             ELSE [heap EXCEPT ![inrec] =
                     Stripped(@, call[g].with, call[g].op = "RemoveByValue")]
  /\ Return(g)
  /\ UNCHANGED <<records, tainted, deleted, refs, active, locks, call, answer, sweeping,
                 touched>>

-----------------------------------------------------------------------------
(* clean, in the goroutine of NewExpirable.  It holds afl.RLock over its   *)
(* loop and takes rl in the Delete it makes.                               *)

StartClean ==
  /\ Expirable
  /\ cleaner = "asleep"
  /\ cleaner' = "sweep"
  /\ dirty' = {k \in Key : active[k] > 0}
  /\ UNCHANGED <<records, heap, tainted, deleted, refs, active, locks, pc, call, local,
                 answer, victim, touched>>

Spare(k) ==
  /\ k \in dirty /\ victim = {}
  /\ active[k] > 1
  /\ dirty' = dirty \ {k}
  /\ active' = [active EXCEPT ![k] = 1]
  /\ touched' = touched \ {k}
  /\ UNCHANGED <<records, heap, tainted, deleted, refs, locks, pc, call, local, answer,
                 cleaner, victim>>

Doom(k) ==
  /\ k \in dirty /\ victim = {}
  /\ active[k] <= 1
  /\ dirty' = dirty \ {k}
  /\ victim' = IF records[k] # NoMap THEN {k} ELSE {}
  /\ UNCHANGED <<records, heap, tainted, deleted, refs, active, locks, pc, call, local,
                 answer, cleaner, touched>>

CleanDelete(k) ==
  /\ k \in victim
  /\ CanWrite
  /\ victim' = {}
  /\ Forget(k) /\ UnSet(k)
  /\ UNCHANGED <<heap, active, locks, pc, call, local, answer, cleaner, dirty, touched>>

EndClean ==
  /\ cleaner = "sweep" /\ dirty = {} /\ victim = {}
  /\ cleaner' = "asleep"
  /\ UNCHANGED <<records, heap, tainted, deleted, refs, active, locks, pc, call, local,
                 answer, dirty, victim, touched>>

-----------------------------------------------------------------------------
Step(g) ==
  \/ Find(g) \/ Insert(g) \/ CountNew(g)
  \/ Merge(g) \/ StoreMerged(g) \/ CountOld(g) \/ SetOld(g)
  \/ Has(g) \/ Read(g) \/ CountGet(g) \/ SetGet(g)
  \/ Refs(g) \/ (\E k \in Key : Collect(g, k)) \/ SetRef(g)
  \/ HasRef(g) \/ Pull(g) \/ Link(g) \/ CountMod(g) \/ SetMod(g)
  \/ Check(g) \/ Delete(g) \/ Remove(g) \/ ClearTainted(g) \/ ClearDeleted(g)
  \/ Peek(g) \/ Strip(g)

Sweep == EndClean \/ \E k \in Key : Spare(k) \/ Doom(k) \/ CleanDelete(k)

Next == \/ \E g \in Goroutine : Step(g) \/ \E i \in Workload : Invoke(g, i)
        \/ StartClean \/ Sweep

SafeSpec == Init /\ [][Next]_vars

(* A goroutine that waits for rl gets it: a waiting Lock keeps later       *)
(* readers out, and an Unlock lets the waiting readers in first.           *)
Spec ==
  /\ SafeSpec
  /\ \A g \in Goroutine : SF_vars(Step(g))
  /\ SF_vars(Sweep)

-----------------------------------------------------------------------------
(* TaintedAreRecords: TaintedRecords names only keys the store has, though *)
(* Add taints a key long after it looked whether the key is stored, so a   *)
(* delta made of them names records a client can ask for (writers.go:85).  *)
TaintedAreRecords == \A k \in tainted : records[k] # NoMap

(* CallsReturn: every call returns.  In a store without expiry no order of *)
(* lock requests keeps a goroutine waiting for ever.                       *)
CallsReturn == \A g \in Goroutine : ~At(g, "done") ~> At(g, "done")

(* SurvivesAccess: clean never deletes a record that was accessed since it *)
(* last visited it, whichever increments of the counter were lost.         *)
SurvivesAccess == victim \cap touched = {}
=============================================================================
