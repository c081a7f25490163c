------------------------------ MODULE DiffStore ------------------------------
(***************************************************************************)
(* DiffStore (diff.go), the in-memory delta store, called by concurrent    *)
(* goroutines.  Each call is the code between its start and its return:    *)
(* the passes of clean it makes first, the clock read before the lock is   *)
(* taken, the loop over the map of keys in whatever order the runtime      *)
(* picks, then the body under the read or the write lock.                  *)
(*                                                                         *)
(* A body takes the lock, runs and unlocks without waiting, so it is one   *)
(* step; only the loop of clean holds dl over several steps.  Positions    *)
(* count from 1 where the code's indices count from 0, which leaves 0 to   *)
(* say that a key is not in the map.                                       *)
(***************************************************************************)
EXTENDS DiffsAPI, Integers, SequencesExt

CONSTANTS
  MaxAge,     \* lifetime of a delta; 0 is NewDiffs, which never expires any
  MaxTime,    \* the clock stops here (a bound on the model)
  Workload,   \* the requests the callers make
  NoOne       \* no goroutine

ASSUME MaxAgeAssumption == MaxAge \in Nat
ASSUME MaxTimeAssumption == MaxTime \in Nat
ASSUME WorkloadAssumption == Workload \subseteq Request
ASSUME NoOneAssumption == NoOne \notin Goroutine

VARIABLES
  diffs,    \* the list of stored deltas
  keys,     \* uuid -> position in diffs, 0 when the map has no such key
  minted,   \* how many uuids name a delta so far
  dl,       \* the goroutine that holds the write lock, or NoOne
  now,      \* time.Now()
  pc,       \* where each goroutine is
  call,     \* the request it serves or served last
  passes,   \* how many calls of clean are left before its body runs
  age,      \* the clock it read at the start of clean
  todo,     \* the keys its loop in clean has not visited yet
  reply     \* the answer of its last call

store == <<diffs, keys, minted>>
vars == <<store, dl, now, pc, call, passes, age, todo, reply>>

Diff == [key : Uuid, recs : SUBSET Record, time : 0..MaxTime]

Point == {"idle", "clean", "lock", "sweep", "body", "done", "panicked"}

(* TypeOK: every variable has its type. *)
TypeOK ==
  /\ diffs \in Seq(Diff)
  /\ keys \in [Uuid -> 0..MaxPuts]
  /\ minted \in 0..MaxPuts
  /\ dl \in Goroutine \cup {NoOne}
  /\ now \in 0..MaxTime
  /\ pc \in [Goroutine -> Point]
  /\ call \in [Goroutine -> Request]
  /\ passes \in [Goroutine -> 0..2]
  /\ age \in [Goroutine -> 0..MaxTime]
  /\ todo \in [Goroutine -> SUBSET Uuid]
  /\ reply \in [Goroutine -> Reply]

Init ==
  /\ diffs = <<>>
  /\ keys = [k \in Uuid |-> 0]
  /\ minted = 0
  /\ dl = NoOne
  /\ now = 0
  /\ pc = [g \in Goroutine |-> "idle"]
  /\ call = [g \in Goroutine |-> NoRequest]
  /\ passes = [g \in Goroutine |-> 0]
  /\ age = [g \in Goroutine |-> 0]
  /\ todo = [g \in Goroutine |-> {}]
  /\ reply = [g \in Goroutine |-> NoReply]

-----------------------------------------------------------------------------
(* Calls and clean.                                                        *)

(* Has and Clear do not clean; Analyze and AnalyzeWith clean themselves    *)
(* and once more inside Diffs or PullFrom.                                 *)
CleansOf(op) ==
  IF op \in {"Has", "Clear"} THEN 0
  ELSE IF op \in {"Analyze", "AnalyzeWith"} THEN 2 ELSE 1

Idle(g) == pc[g] \in {"idle", "done", "panicked"}

StoresDelta(request) == request.op = "Put" /\ request.recs # {}

(* Call may be made when every delta on its way still gets a uuid. *)
Call(g, request) ==
  /\ Idle(g)
  /\ StoresDelta(request) =>
       minted + Cardinality({h \in Goroutine : ~Idle(h) /\ StoresDelta(call[h])}) < MaxPuts
  /\ call' = [call EXCEPT ![g] = request]
  /\ passes' = [passes EXCEPT ![g] = CleansOf(request.op)]
  /\ pc' = [pc EXCEPT ![g] = IF CleansOf(request.op) = 0 THEN "body" ELSE "clean"]
  /\ UNCHANGED <<store, dl, now, age, todo, reply>>

(* What follows a pass of clean: the next pass, or the body of the call. *)
AfterClean(g) ==
  /\ passes' = [passes EXCEPT ![g] = @ - 1]
  /\ pc' = [pc EXCEPT ![g] = IF passes[g] = 1 THEN "body" ELSE "clean"]

SkipClean(g) ==
  /\ pc[g] = "clean"
  /\ MaxAge = 0
  /\ AfterClean(g)
  /\ UNCHANGED <<store, dl, now, call, age, todo, reply>>

(* The clock is read before the lock is asked for, so it may be old by the *)
(* time the loop compares it.                                              *)
ReadClock(g) ==
  /\ pc[g] = "clean"
  /\ MaxAge # 0
  /\ age' = [age EXCEPT ![g] = now]
  /\ pc' = [pc EXCEPT ![g] = "lock"]
  /\ UNCHANGED <<store, dl, now, call, passes, todo, reply>>

LockForClean(g) ==
  /\ pc[g] = "lock"
  /\ dl = NoOne
  /\ dl' = g
  /\ todo' = [todo EXCEPT ![g] = {k \in Uuid : keys[k] # 0}]
  /\ pc' = [pc EXCEPT ![g] = "sweep"]
  /\ UNCHANGED <<store, now, call, passes, age, reply>>

ExpiredEarly(rec, clock) == clock - rec.time >= MaxAge - 1  \* mutant: off by one

Expired(rec, clock) == clock - rec.time >= MaxAge

(* Mutant: a clean that moves every index down, those before ind too. *)
SweepReindexesAll(g, k) ==
  /\ pc[g] = "sweep"
  /\ k \in todo[g]
  /\ keys[k] <= Len(diffs)
  /\ todo' = [todo EXCEPT ![g] = @ \ {k}]
  /\ IF keys[k] # 0 /\ Expired(diffs[keys[k]], age[g])
     THEN /\ keys' = [q \in Uuid |-> IF q = k \/ keys[q] = 0 THEN 0 ELSE keys[q] - 1]
          /\ diffs' = RemoveAt(diffs, keys[k])
     ELSE UNCHANGED <<keys, diffs>>
  /\ UNCHANGED <<minted, dl, now, pc, call, passes, age, reply>>

(* One round of the loop, for any key it has not visited: the record found *)
(* at the key's index is dropped when expired.  The indices of the other   *)
(* keys stay as they are.                                                  *)
Sweep(g, k) ==
  /\ pc[g] = "sweep"
  /\ k \in todo[g]
  /\ keys[k] <= Len(diffs)
  /\ todo' = [todo EXCEPT ![g] = @ \ {k}]
  /\ IF Expired(diffs[keys[k]], age[g])
     THEN /\ keys' = [keys EXCEPT ![k] = 0]
          /\ diffs' = RemoveAt(diffs, keys[k])
     ELSE UNCHANGED <<keys, diffs>>
  /\ UNCHANGED <<minted, dl, now, pc, call, passes, age, reply>>

(* Mutant: clean without its deferred Unlock. *)
LeaveCleanLocked(g) ==
  /\ dl' = dl
  /\ age' = [age EXCEPT ![g] = 0]
  /\ todo' = [todo EXCEPT ![g] = {}]

(* The two ways out of the loop: the deferred Unlock runs in both, and the *)
(* locals of clean are gone.                                               *)
LeaveClean(g) ==
  /\ dl' = NoOne
  /\ age' = [age EXCEPT ![g] = 0]
  /\ todo' = [todo EXCEPT ![g] = {}]

(* diff.diffs[ind] is out of range: the panic unwinds the whole call. *)
SweepPanics(g, k) ==
  /\ pc[g] = "sweep"
  /\ k \in todo[g]
  /\ keys[k] > Len(diffs)
  /\ pc' = [pc EXCEPT ![g] = "panicked"]
  /\ passes' = [passes EXCEPT ![g] = 0]
  /\ LeaveClean(g)
  /\ UNCHANGED <<store, now, call, reply>>

EndSweep(g) ==
  /\ pc[g] = "sweep"
  /\ todo[g] = {}
  /\ AfterClean(g)
  /\ LeaveClean(g)
  /\ UNCHANGED <<store, now, call, reply>>

-----------------------------------------------------------------------------
(* The bodies of the operations.                                           *)

RecordsFrom(n) ==
  {r \in Record : \E i \in n..Len(diffs) : i \in 1..Len(diffs) /\ r \in diffs[i].recs}

HasKey(id) == id \in Uuid /\ keys[id] # 0

PulledFromItself(id) ==  \* mutant: starts at the named delta
  IF HasKey(id) THEN RecordsFrom(keys[id]) ELSE {}

(* PullFrom: what comes after the index the map holds for id. *)
PulledFrom(id) ==
  IF HasKey(id) THEN RecordsFrom(keys[id] + 1) ELSE {}

(* A call that reaches its body, answers and returns. *)
Return(g, op, answer) ==
  /\ pc[g] = "body"
  /\ call[g].op = op
  /\ pc' = [pc EXCEPT ![g] = "done"]
  /\ reply' = [reply EXCEPT ![g] = answer]
  /\ UNCHANGED <<dl, now, call, passes, age, todo>>

PutNothing(g) ==
  /\ call[g].recs = {}
  /\ Return(g, "Put", Tags(<<NoTag>>))
  /\ UNCHANGED store

(* Mutant: the index is taken after the append. *)
PutIndexedAfterAppend(g) ==
  /\ dl = NoOne
  /\ call[g].recs # {}
  /\ minted < MaxPuts
  /\ minted' = minted + 1
  /\ keys' = [keys EXCEPT ![minted'] = Len(diffs) + 2]
  /\ diffs' = Append(diffs, [key |-> minted', recs |-> call[g].recs, time |-> now])
  /\ Return(g, "Put", Tags(<<minted'>>))

Put(g) ==
  /\ dl = NoOne
  /\ call[g].recs # {}
  /\ minted < MaxPuts
  /\ minted' = minted + 1
  /\ keys' = [keys EXCEPT ![minted'] = Len(diffs) + 1]
  /\ diffs' = Append(diffs, [key |-> minted', recs |-> call[g].recs, time |-> now])
  /\ Return(g, "Put", Tags(<<minted'>>))

Get(g) ==
  /\ dl = NoOne
  /\ HasKey(call[g].id) => keys[call[g].id] <= Len(diffs)
  /\ Return(g, "Get", Records(IF HasKey(call[g].id)
                              THEN diffs[keys[call[g].id]].recs ELSE {}))
  /\ UNCHANGED store

(* diff.diffs[rec] out of range in Get. *)
GetPanics(g) ==
  /\ pc[g] = "body"
  /\ call[g].op = "Get"
  /\ dl = NoOne
  /\ HasKey(call[g].id)
  /\ keys[call[g].id] > Len(diffs)
  /\ pc' = [pc EXCEPT ![g] = "panicked"]
  /\ UNCHANGED <<store, dl, now, call, passes, age, todo, reply>>

PullFrom(g) ==
  /\ dl = NoOne
  /\ Return(g, "PullFrom", Records(PulledFrom(call[g].id)))
  /\ UNCHANGED store

Has(g) ==
  /\ dl = NoOne
  /\ Return(g, "Has", Tags(IF HasKey(call[g].id) THEN <<call[g].id>> ELSE <<>>))
  /\ UNCHANGED store

Keys(g) ==
  /\ dl = NoOne
  /\ Return(g, "Keys", Tags([i \in 1..Len(diffs) |-> diffs[i].key]))
  /\ UNCHANGED store

Diffs(g) ==
  /\ dl = NoOne
  /\ Return(g, "Diffs", Records(RecordsFrom(1)))
  /\ UNCHANGED store

(* Mutant: Clear leaves the map of keys as it was. *)
ClearKeepsKeys(g) ==
  /\ dl = NoOne
  /\ diffs' = <<>>
  /\ Return(g, "Clear", NoReply)
  /\ UNCHANGED <<keys, minted>>

Clear(g) ==
  /\ dl = NoOne
  /\ diffs' = <<>>
  /\ keys' = [k \in Uuid |-> 0]
  /\ Return(g, "Clear", NoReply)
  /\ UNCHANGED minted

(* The answer is the part of the asked keys whose truth value is true. *)
Analyze(g) ==
  /\ dl = NoOne
  /\ Return(g, "Analyze", Records(call[g].recs \cap RecordsFrom(1)))
  /\ UNCHANGED store

AnalyzeWith(g) ==
  /\ dl = NoOne
  /\ Return(g, "AnalyzeWith", Records(call[g].recs \cap PulledFrom(call[g].id)))
  /\ UNCHANGED store

-----------------------------------------------------------------------------
Clean(g) ==
  \/ SkipClean(g) \/ ReadClock(g) \/ LockForClean(g) \/ EndSweep(g)
  \/ \E k \in Uuid : Sweep(g, k) \/ SweepPanics(g, k)

Body(g) ==
  \/ PutNothing(g) \/ Put(g) \/ Get(g) \/ GetPanics(g) \/ PullFrom(g) \/ Has(g)
  \/ Keys(g) \/ Diffs(g) \/ Clear(g) \/ Analyze(g) \/ AnalyzeWith(g)

Step(g) == Clean(g) \/ Body(g)

Tick ==
  /\ now < MaxTime
  /\ now' = now + 1
  /\ UNCHANGED <<store, dl, pc, call, passes, age, todo, reply>>

Next ==
  \/ \E g \in Goroutine : Step(g) \/ \E request \in Workload : Call(g, request)
  \/ Tick

SafeSpec == Init /\ [][Next]_vars

(* A goroutine inside a call keeps running, and one that asks for dl again *)
(* and again while others take it and release it gets it: a waiting Lock   *)
(* of a sync.RWMutex turns new readers away.                               *)
Spec == SafeSpec /\ \A g \in Goroutine : SF_vars(Step(g))

-----------------------------------------------------------------------------
(* Without expiry the index is exact: keys maps a uuid to the position of  *)
(* its delta and to nothing else, whatever calls of Put, Clear and the     *)
(* readers interleave (diff.go:253-255, 266-267).                          *)
IndexMatchesList ==
  MaxAge = 0 =>
    /\ \A i \in 1..Len(diffs) : keys[diffs[i].key] = i
    /\ \A k \in Uuid : keys[k] # 0 => keys[k] <= Len(diffs) /\ diffs[keys[k]].key = k

(* Without expiry a DiffStore is the append-only log its callers rely on:  *)
(* every call takes effect at one instant, and returns (diff.go:74-285).   *)
CL == INSTANCE ChangeLog WITH
  log <- [i \in 1..Len(diffs) |-> [key |-> diffs[i].key, recs |-> diffs[i].recs]],
  phase <- [g \in Goroutine |->
              IF pc[g] \in {"idle", "done"} THEN pc[g] ELSE "pending"]

ImplementsChangeLog == CL!Spec

Live(rec) == MaxAge = 0 \/ now - rec.time < MaxAge

(* With or without expiry, the stale indices of clean never cost a live    *)
(* delta: until Clear, one younger than MaxAge stays in the list and its   *)
(* uuid stays known (diff.go:302-312).                                     *)
KeepsFresh ==
  [][(\A g \in Goroutine : ~Clear(g)) =>
       \A i \in 1..Len(diffs) :
         Live(diffs[i]) =>
           /\ keys[diffs[i].key] # 0 => keys'[diffs[i].key] # 0
           /\ \E j \in 1..Len(diffs') : diffs'[j] = diffs[i]]_vars

(* The list stays in the order of the puts, and a uuid's index never lies  *)
(* before its delta, so what it reads was put no earlier (diff.go:303).    *)
IndexNeverLags ==
  /\ \A i, j \in 1..Len(diffs) :
       i < j => diffs[i].key < diffs[j].key /\ diffs[i].time <= diffs[j].time
  /\ \A k \in Uuid : keys[k] # 0 =>
       \A i \in keys[k]..Len(diffs) : diffs[i].key >= k

(* Every call ends, by an answer or by a panic, whatever the others do:    *)
(* no way out of clean leaves the lock held (diff.go:299-300).             *)
CallsEnd == \A g \in Goroutine : ~Idle(g) ~> Idle(g)
=============================================================================
