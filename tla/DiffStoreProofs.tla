-------------------------- MODULE DiffStoreProofs ---------------------------
(***************************************************************************)
(* Theorems about DiffStore, for all goroutines, requests and bounds.      *)
(***************************************************************************)
EXTENDS DiffStore, SequenceTheorems, TLAPS

(* What removing one element of a list leaves (the append of diff.go:311). *)
LEMMA RemoveAtProperties ==
  ASSUME NEW S, NEW s \in Seq(S), NEW i \in 1..Len(s)
  PROVE  /\ RemoveAt(s, i) \in Seq(S)
         /\ Len(RemoveAt(s, i)) = Len(s) - 1
         /\ \A j \in 1..(Len(s) - 1) :
              RemoveAt(s, i)[j] = IF j < i THEN s[j] ELSE s[j + 1]
<1> DEFINE front == SubSeq(s, 1, i - 1)
           back == SubSeq(s, i + 1, Len(s))
<1>1. front \in Seq(S) /\ Len(front) = i - 1 /\ \A j \in 1..(i - 1) : front[j] = s[j]
  BY SMT
<1>2. /\ back \in Seq(S) /\ Len(back) = Len(s) - i
      /\ \A j \in 1..(Len(s) - i) : back[j] = s[i + j]
  BY SMT
<1> HIDE DEF front, back
<1>3. RemoveAt(s, i) = front \o back
  BY DEF RemoveAt, front, back
<1>4. /\ front \o back \in Seq(S)
      /\ Len(front \o back) = Len(front) + Len(back)
      /\ \A j \in 1..(Len(front) + Len(back)) :
           (front \o back)[j] = IF j <= Len(front) THEN front[j] ELSE back[j - Len(front)]
  BY <1>1, <1>2, ConcatProperties
<1> QED
  <2>1. RemoveAt(s, i) \in Seq(S) /\ Len(RemoveAt(s, i)) = Len(s) - 1
    BY <1>1, <1>2, <1>3, <1>4, SMT
  <2>2. ASSUME NEW j \in 1..(Len(s) - 1)
        PROVE  RemoveAt(s, i)[j] = IF j < i THEN s[j] ELSE s[j + 1]
    <3>1. (front \o back)[j] = IF j <= Len(front) THEN front[j] ELSE back[j - Len(front)]
      BY <1>1, <1>2, <1>4, SMT
    <3> QED
      BY <1>1, <1>2, <1>3, <3>1, SMT
  <2> QED
    BY <2>1, <2>2
-----------------------------------------------------------------------------
(* Types and the lock.                                                     *)

(* Only the goroutine in the loop of clean holds dl, and the keys it has   *)
(* still to visit are in the map; a goroutine in clean has a pass left.    *)
LockInv ==
  /\ Len(diffs) <= minted
  /\ \A g \in Goroutine : pc[g] \in {"clean", "lock", "sweep"} => passes[g] \in 1..2
  /\ \A g \in Goroutine :
       pc[g] = "sweep" => dl = g /\ \A k \in todo[g] : keys[k] # 0

StoreInv == TypeOK /\ LockInv

(* The call of a goroutine that has made none is a request. *)
LEMMA NoRequestType == NoRequest \in Request
  BY DEF NoRequest, Request, Operation, Tag, NoTag

(* An answer of records is a reply. *)
LEMMA RecordsType ==
  ASSUME NEW R \in SUBSET Record
  PROVE  Records(R) \in Reply
<1>1. <<>> \in Seq(Tag)
  OBVIOUS
<1> QED
  BY <1>1 DEF Records, Reply

(* An answer of tags is a reply. *)
LEMMA TagsType ==
  ASSUME NEW T \in Seq(Tag)
  PROVE  Tags(T) \in Reply
  BY DEF Tags, Reply

(* A call that returns leaves its goroutine outside of clean. *)
LEMMA ReturnTypes ==
  ASSUME StoreInv, NEW g \in Goroutine, NEW op, NEW answer \in Reply,
         Return(g, op, answer)
  PROVE  /\ pc' \in [Goroutine -> Point]
         /\ reply' \in [Goroutine -> Reply]
         /\ \A h \in Goroutine : pc'[h] # "done" => pc'[h] = pc[h]
         /\ UNCHANGED <<dl, now, call, passes, age, todo>>
<1> USE DEF StoreInv, TypeOK
<1>1. "done" \in Point
  BY DEF Point
<1> QED
  BY <1>1 DEF Return

(* The initial states have their types and nobody holds the lock. *)
LEMMA InitStoreInv == Init => StoreInv
<1> SUFFICES ASSUME Init PROVE StoreInv
  OBVIOUS
<1> USE DEF Init
<1>1. TypeOK
  <2>1. diffs \in Seq(Diff)
    OBVIOUS
  <2>2. keys \in [Uuid -> 0..MaxPuts] /\ minted \in 0..MaxPuts
    BY MaxPutsAssumption
  <2>3. now \in 0..MaxTime /\ age \in [Goroutine -> 0..MaxTime]
    BY MaxTimeAssumption
  <2>4. pc \in [Goroutine -> Point]
    BY DEF Point
  <2>5. call \in [Goroutine -> Request]
    BY NoRequestType
  <2>6. reply \in [Goroutine -> Reply]
    BY RecordsType DEF NoReply
  <2> QED
    BY <2>1, <2>2, <2>3, <2>4, <2>5, <2>6 DEF TypeOK
<1>2. LockInv
  BY DEF LockInv
<1> QED
  BY <1>1, <1>2 DEF StoreInv

(* Entering a method keeps types and lock. *)
LEMMA CallStoreInv ==
  ASSUME StoreInv, NEW g \in Goroutine, NEW request \in Workload, Call(g, request)
  PROVE  StoreInv'
<1> USE DEF StoreInv
<1>1. request \in Request
  BY WorkloadAssumption
<1>2. CleansOf(request.op) \in 0..2
  BY DEF CleansOf
<1>3. TypeOK'
  BY <1>1, <1>2 DEF Call, TypeOK, store, Point
<1>4. LockInv'
  BY <1>2 DEF Call, TypeOK, LockInv, store, Idle
<1> QED
  BY <1>3, <1>4

(* Every step of clean keeps types and lock, a panic included. *)
LEMMA CleanStoreInv ==
  ASSUME StoreInv, NEW g \in Goroutine, Clean(g)
  PROVE  StoreInv'
<1> USE DEF StoreInv
<1>1. CASE SkipClean(g)
  <2>1. TypeOK'
    BY <1>1 DEF SkipClean, AfterClean, TypeOK, LockInv, store, Point
  <2>2. LockInv'
    BY <1>1 DEF SkipClean, AfterClean, TypeOK, LockInv, store
  <2> QED
    BY <2>1, <2>2
<1>2. CASE ReadClock(g)
  <2>1. TypeOK'
    BY <1>2 DEF ReadClock, TypeOK, store, Point
  <2>2. LockInv'
    BY <1>2 DEF ReadClock, TypeOK, LockInv, store
  <2> QED
    BY <2>1, <2>2
<1>3. CASE LockForClean(g)
  <2>1. TypeOK'
    BY <1>3 DEF LockForClean, TypeOK, store, Point
  <2>2. LockInv'
    BY <1>3, NoOneAssumption DEF LockForClean, TypeOK, LockInv, store
  <2> QED
    BY <2>1, <2>2
<1>4. CASE EndSweep(g)
  <2>1. TypeOK'
    BY <1>4, MaxTimeAssumption DEF EndSweep, AfterClean, LeaveClean, TypeOK, LockInv, store, Point
  <2>2. LockInv'
    BY <1>4 DEF EndSweep, AfterClean, LeaveClean, TypeOK, LockInv, store
  <2> QED
    BY <2>1, <2>2
<1>5. ASSUME NEW k \in Uuid, Sweep(g, k)
      PROVE  StoreInv'
  <2>1. keys[k] \in 1..Len(diffs)
    BY <1>5 DEF Sweep, TypeOK, LockInv
  <2>2. RemoveAt(diffs, keys[k]) \in Seq(Diff) /\ Len(RemoveAt(diffs, keys[k])) = Len(diffs) - 1
    BY <2>1, RemoveAtProperties DEF TypeOK
  <2>3. diffs' \in Seq(Diff) /\ Len(diffs') <= Len(diffs) /\ Len(diffs) \in Nat
    BY <1>5, <2>2 DEF Sweep, TypeOK
  <2>4. TypeOK'
    <3>1. keys' \in [Uuid -> 0..MaxPuts]
      <4>1. 0 \in 0..MaxPuts /\ keys \in [Uuid -> 0..MaxPuts]
        BY MaxPutsAssumption DEF TypeOK
      <4>2. keys' = keys \/ keys' = [keys EXCEPT ![k] = 0]
        BY <1>5 DEF Sweep
      <4> QED
        BY <4>1, <4>2
    <3>2. todo' \in [Goroutine -> SUBSET Uuid]
      BY <1>5 DEF Sweep, TypeOK
    <3> QED
      BY <1>5, <2>3, <3>1, <3>2 DEF Sweep, TypeOK
  <2>5. LockInv'
    BY <1>5, <2>3 DEF Sweep, TypeOK, LockInv
  <2> QED
    BY <2>4, <2>5
<1>6. ASSUME NEW k \in Uuid, SweepPanics(g, k)
      PROVE  StoreInv'
  <2>1. TypeOK'
    BY <1>6, MaxTimeAssumption DEF SweepPanics, LeaveClean, TypeOK, store, Point
  <2>2. LockInv'
    BY <1>6 DEF SweepPanics, LeaveClean, TypeOK, LockInv, store
  <2> QED
    BY <2>1, <2>2
<1> QED
  BY <1>1, <1>2, <1>3, <1>4, <1>5, <1>6 DEF Clean

(* The answers of the readers are replies. *)
LEMMA AnswerTypes ==
  ASSUME TypeOK
  PROVE  /\ \A n : RecordsFrom(n) \subseteq Record
         /\ \A id : PulledFrom(id) \subseteq Record
         /\ \A i \in 1..Len(diffs) : diffs[i] \in Diff
         /\ [i \in 1..Len(diffs) |-> diffs[i].key] \in Seq(Tag)
<1>1. \A i \in 1..Len(diffs) : diffs[i] \in Diff
  BY DEF TypeOK
<1>2. \A i \in 1..Len(diffs) : diffs[i].key \in Tag
  BY <1>1 DEF Diff, Tag
<1>3. Len(diffs) \in Nat
  BY DEF TypeOK
<1> QED
  BY <1>1, <1>2, <1>3, SMT DEF RecordsFrom, PulledFrom

(* Every body of a method keeps types and lock. *)
LEMMA BodyStoreInv ==
  ASSUME StoreInv, NEW g \in Goroutine, Body(g)
  PROVE  StoreInv'
<1> USE DEF StoreInv
<1>a. ASSUME NEW op, NEW answer \in Reply, Return(g, op, answer), UNCHANGED store
      PROVE  StoreInv'
  <2>1. /\ pc' \in [Goroutine -> Point] /\ reply' \in [Goroutine -> Reply]
        /\ \A h \in Goroutine : pc'[h] # "done" => pc'[h] = pc[h]
        /\ UNCHANGED <<dl, now, call, passes, age, todo>>
    BY <1>a, ReturnTypes
  <2>2. TypeOK'
    BY <1>a, <2>1 DEF TypeOK, store
  <2>3. LockInv'
    BY <1>a, <2>1 DEF LockInv, store
  <2> QED
    BY <2>2, <2>3
<1>b. NoReply \in Reply /\ \A R \in SUBSET Record : Records(R) \in Reply
  BY RecordsType DEF NoReply
<1>c. ASSUME NEW k \in Tag PROVE Tags(<<k>>) \in Reply
  <2>1. <<k>> \in Seq(Tag)
    OBVIOUS
  <2> QED
    BY <2>1, TagsType
<1>1. CASE PutNothing(g)
  BY <1>1, <1>a, <1>c DEF PutNothing, Tag
<1>2. CASE Put(g)
  <2>1. minted' \in Uuid /\ minted' = minted + 1
    BY <1>2, MaxPutsAssumption DEF Put, TypeOK, Uuid
  <2>2. Tags(<<minted'>>) \in Reply
    BY <2>1, <1>c DEF Tag
  <2>3. /\ pc' \in [Goroutine -> Point] /\ reply' \in [Goroutine -> Reply]
        /\ \A h \in Goroutine : pc'[h] # "done" => pc'[h] = pc[h]
        /\ UNCHANGED <<dl, now, call, passes, age, todo>>
    BY <1>2, <2>2, ReturnTypes DEF Put
  <2>4. call[g].recs \subseteq Record
    BY DEF TypeOK, Request
  <2>5. [key |-> minted', recs |-> call[g].recs, time |-> now] \in Diff
    BY <2>1, <2>4 DEF Diff, TypeOK
  <2>6. diffs' \in Seq(Diff) /\ Len(diffs') = Len(diffs) + 1 /\ Len(diffs) \in Nat
    BY <1>2, <2>5, AppendProperties DEF Put, TypeOK
  <2>7. keys' \in [Uuid -> 0..MaxPuts]
    <3>1. Len(diffs) + 1 \in 0..MaxPuts
      BY <2>1, <2>6, MaxPutsAssumption DEF LockInv, TypeOK, Uuid
    <3> QED
      BY <1>2, <3>1 DEF Put, TypeOK
  <2>8. TypeOK'
    BY <2>1, <2>3, <2>6, <2>7, MaxPutsAssumption DEF TypeOK, Uuid
  <2>9. LockInv'
    BY <1>2, <2>1, <2>3, <2>6, NoOneAssumption DEF Put, LockInv, TypeOK
  <2> QED
    BY <2>8, <2>9
<1>3. CASE Get(g)
  <2>1. (IF HasKey(call[g].id) THEN diffs[keys[call[g].id]].recs ELSE {}) \subseteq Record
    BY <1>3, AnswerTypes, SMT DEF Get, HasKey, Diff, TypeOK
  <2> QED
    BY <1>3, <1>a, <1>b, <2>1 DEF Get
<1>4. CASE GetPanics(g)
  <2>1. TypeOK'
    BY <1>4 DEF GetPanics, TypeOK, store, Point
  <2>2. LockInv'
    BY <1>4 DEF GetPanics, TypeOK, LockInv, store
  <2> QED
    BY <2>1, <2>2
<1>5. CASE PullFrom(g)
  BY <1>5, <1>a, <1>b, AnswerTypes DEF PullFrom
<1>6. CASE Has(g)
  <2>1. call[g].id \in Tag
    BY DEF TypeOK, Request
  <2>2. Tags(IF HasKey(call[g].id) THEN <<call[g].id>> ELSE <<>>) \in Reply
    <3>1. Tags(<<call[g].id>>) \in Reply
      BY <1>c, <2>1
    <3>2. Tags(<<>>) \in Reply
      <4>1. <<>> \in Seq(Tag)
        OBVIOUS
      <4> QED
        BY <4>1, TagsType
    <3> QED
      BY <3>1, <3>2
  <2> QED
    BY <1>6, <1>a, <2>2 DEF Has
<1>7. CASE Keys(g)
  BY <1>7, <1>a, AnswerTypes, TagsType DEF Keys
<1>8. CASE Diffs(g)
  BY <1>8, <1>a, <1>b, AnswerTypes DEF Diffs
<1>9. CASE Clear(g)
  <2>1. /\ pc' \in [Goroutine -> Point] /\ reply' \in [Goroutine -> Reply]
        /\ \A h \in Goroutine : pc'[h] # "done" => pc'[h] = pc[h]
        /\ UNCHANGED <<dl, now, call, passes, age, todo>>
    BY <1>9, <1>b, ReturnTypes DEF Clear
  <2>2. TypeOK'
    BY <1>9, <2>1, MaxPutsAssumption DEF Clear, TypeOK
  <2>3. LockInv'
    BY <1>9, <2>1, NoOneAssumption DEF Clear, TypeOK, LockInv
  <2> QED
    BY <2>2, <2>3
<1>10. CASE Analyze(g)
  BY <1>10, <1>a, <1>b, AnswerTypes DEF Analyze
<1>11. CASE AnalyzeWith(g)
  BY <1>11, <1>a, <1>b, AnswerTypes DEF AnalyzeWith
<1> QED
  BY <1>1, <1>2, <1>3, <1>4, <1>5, <1>6, <1>7, <1>8, <1>9, <1>10, <1>11 DEF Body

(* Every step keeps types and lock. *)
LEMMA NextStoreInv == StoreInv /\ [Next]_vars => StoreInv'
<1> SUFFICES ASSUME StoreInv, [Next]_vars PROVE StoreInv'
  OBVIOUS
<1>1. CASE Tick
  <2>1. TypeOK'
    BY <1>1, MaxTimeAssumption DEF Tick, StoreInv, TypeOK, store
  <2>2. LockInv'
    BY <1>1 DEF Tick, StoreInv, TypeOK, LockInv, store
  <2> QED
    BY <2>1, <2>2 DEF StoreInv
<1>2. CASE UNCHANGED vars
  BY <1>2 DEF vars, store, StoreInv, TypeOK, LockInv
<1> QED
  BY <1>1, <1>2, CallStoreInv, CleanStoreInv, BodyStoreInv DEF Next, Step

(* Types and lock, for the whole behaviour. *)
LEMMA StoreInvariant == SafeSpec => []StoreInv
BY InitStoreInv, NextStoreInv, PTL DEF SafeSpec

(* Every variable keeps its type: an index stays within the number of      *)
(* deltas put, and only the goroutine in the loop of clean holds the lock  *)
(* (diff.go:253-255, 297-312).                                             *)
THEOREM TypeCorrect == SafeSpec => []TypeOK
BY StoreInvariant, PTL DEF StoreInv

-----------------------------------------------------------------------------
(* The order of the list and the indices, whether deltas expire or not.    *)

(* What IndexNeverLags rests on: uuids and clocks are those of the past,   *)
(* and a store that never expires never enters the loop of clean.          *)
PastInv ==
  /\ \A i \in 1..Len(diffs) : diffs[i].key <= minted /\ diffs[i].time <= now
  /\ \A k \in Uuid : keys[k] # 0 => k <= minted
  /\ \A g \in Goroutine : age[g] <= now
  /\ MaxAge = 0 => \A g \in Goroutine : pc[g] \notin {"lock", "sweep"}

OrderInv == IndexNeverLags /\ PastInv

(* How a step that is neither Put, nor Clear, nor the removal of clean     *)
(* changes the store: not at all.                                          *)
LEMMA StoreChanges ==
  ASSUME NEW g \in Goroutine, Step(g)
  PROVE  \/ Put(g) \/ Clear(g) \/ (\E k \in Uuid : Sweep(g, k)) \/ UNCHANGED store
BY DEF Step, Clean, Body, SkipClean, ReadClock, LockForClean, EndSweep, SweepPanics,
       PutNothing, Get, GetPanics, PullFrom, Has, Keys, Diffs, Analyze, AnalyzeWith, store

(* The empty store is in order. *)
LEMMA InitOrderInv == Init => OrderInv
BY MaxTimeAssumption DEF Init, OrderInv, IndexNeverLags, PastInv

(* The clock never goes back, and what clean read of it lies in the past. *)
LEMMA ClockPast ==
  ASSUME StoreInv, PastInv, [Next]_vars
  PROVE  /\ now' >= now
         /\ \A g \in Goroutine : age'[g] <= now'
         /\ MaxAge = 0 => \A g \in Goroutine : pc'[g] \notin {"lock", "sweep"}
<1>1. /\ now \in Nat /\ \A h \in Goroutine : age[h] <= now
      /\ pc \in [Goroutine -> Point] /\ age \in [Goroutine -> Nat]
  BY MaxTimeAssumption DEF PastInv, StoreInv, TypeOK
<1>2. MaxAge = 0 => \A h \in Goroutine : pc[h] \notin {"lock", "sweep"}
  BY DEF PastInv
<1>3. now' = now \/ now' = now + 1
  BY DEF Next, Tick, vars, Call, Step, Clean, Body, SkipClean, ReadClock, LockForClean,
         EndSweep, Sweep, SweepPanics, Return, PutNothing, Put, Get, GetPanics, PullFrom,
         Has, Keys, Diffs, Clear, Analyze, AnalyzeWith
<1>4. \A h \in Goroutine : age'[h] \in {age[h], now, 0}
  BY <1>1 DEF Next, Tick, vars, Call, Step, Clean, Body, SkipClean, ReadClock, LockForClean,
         EndSweep, LeaveClean, Sweep, SweepPanics, Return, PutNothing, Put, Get, GetPanics,
         PullFrom, Has, Keys, Diffs, Clear, Analyze, AnalyzeWith
<1>5. \A h \in Goroutine : \/ pc'[h] = pc[h]
                           \/ pc'[h] \in {"body", "clean", "done", "panicked"}
                           \/ MaxAge # 0
  BY <1>1, <1>2 DEF Next, Tick, vars, Call, Step, Clean, Body, SkipClean, ReadClock, LockForClean,
         EndSweep, AfterClean, Sweep, SweepPanics, Return, PutNothing, Put, Get, GetPanics,
         PullFrom, Has, Keys, Diffs, Clear, Analyze, AnalyzeWith
<1>6. \A h \in Goroutine : age'[h] <= now'
  BY <1>1, <1>3, <1>4
<1>7. ASSUME MaxAge = 0, NEW h \in Goroutine
      PROVE  pc'[h] \notin {"lock", "sweep"}
  <2>1. pc'[h] = pc[h] \/ pc'[h] \in {"body", "clean", "done", "panicked"}
    BY <1>5, <1>7
  <2> QED
    BY <1>2, <1>7, <2>1
<1> QED
  BY <1>1, <1>3, <1>6, <1>7

(* Put appends in order: its uuid and its time are the latest. *)
LEMMA PutOrderInv ==
  ASSUME StoreInv, OrderInv, NEW g \in Goroutine, Put(g)
  PROVE  /\ IndexNeverLags'
         /\ \A i \in 1..Len(diffs') : diffs'[i].key <= minted' /\ diffs'[i].time <= now'
         /\ \A k \in Uuid : keys'[k] # 0 => k <= minted'
<1> DEFINE d == [key |-> minted', recs |-> call[g].recs, time |-> now]
<1>1. /\ diffs \in Seq(Diff) /\ Len(diffs) \in Nat /\ minted \in Nat /\ now \in Nat
      /\ \A i \in 1..Len(diffs) : diffs[i].key \in Nat /\ diffs[i].time \in Nat
      /\ keys \in [Uuid -> Nat]
  <2>1. /\ diffs \in Seq(Diff) /\ minted \in Nat /\ now \in Nat
        /\ keys \in [Uuid -> 0..MaxPuts]
    BY MaxPutsAssumption, MaxTimeAssumption DEF StoreInv, TypeOK
  <2>2. ASSUME NEW i \in 1..Len(diffs)
        PROVE  diffs[i].key \in Nat /\ diffs[i].time \in Nat
    <3>1. diffs[i] \in Diff
      BY <2>1
    <3> QED
      BY <3>1, MaxPutsAssumption, MaxTimeAssumption DEF Diff, Uuid
  <2> QED
    BY <2>1, <2>2, MaxPutsAssumption
<1>2. minted' = minted + 1 /\ minted' \in Uuid /\ now' = now
  BY <1>1, MaxPutsAssumption DEF Put, Return, Uuid
<1>3. d \in Diff
  BY <1>2 DEF StoreInv, TypeOK, Diff, Request
<1>4. /\ Len(diffs') = Len(diffs) + 1
      /\ \A i \in 1..Len(diffs) : diffs'[i] = diffs[i]
      /\ diffs'[Len(diffs) + 1] = d
  BY <1>1, <1>3, AppendProperties DEF Put
<1>5. /\ \A k \in Uuid : keys'[k] = IF k = minted + 1 THEN Len(diffs) + 1 ELSE keys[k]
  BY <1>1, <1>2 DEF Put
<1>6. d.key = minted + 1 /\ d.time = now
  BY <1>2
<1> HIDE DEF d
<1>7. IndexNeverLags'
  <2>1. ASSUME NEW i \in 1..Len(diffs'), NEW j \in 1..Len(diffs'), i < j
        PROVE  diffs'[i].key < diffs'[j].key /\ diffs'[i].time <= diffs'[j].time
    BY <2>1, <1>1, <1>4, <1>6 DEF OrderInv, IndexNeverLags, PastInv
  <2>2. ASSUME NEW k \in Uuid, keys'[k] # 0, NEW i \in keys'[k]..Len(diffs')
        PROVE  diffs'[i].key >= k
    <3>1. k \in Nat
      BY MaxPutsAssumption DEF Uuid
    <3>2. CASE k = minted + 1
      BY <2>2, <3>1, <3>2, <1>1, <1>4, <1>5, <1>6
    <3>3. CASE k # minted + 1 /\ i <= Len(diffs)
      BY <2>2, <3>1, <3>3, <1>1, <1>4, <1>5 DEF OrderInv, IndexNeverLags
    <3>4. CASE k # minted + 1 /\ i = Len(diffs) + 1
      BY <2>2, <3>1, <3>4, <1>1, <1>4, <1>5, <1>6 DEF OrderInv, PastInv
    <3> QED
      BY <2>2, <3>2, <3>3, <3>4, <1>1, <1>4, <1>5
  <2> QED
    BY <2>1, <2>2 DEF IndexNeverLags
<1>8. \A i \in 1..Len(diffs') : diffs'[i].key <= minted' /\ diffs'[i].time <= now'
  BY <1>1, <1>2, <1>4, <1>6 DEF OrderInv, PastInv
<1>9. \A k \in Uuid : keys'[k] # 0 => k <= minted'
  BY <1>1, <1>2, <1>5, MaxPutsAssumption DEF OrderInv, PastInv, Uuid
<1> QED
  BY <1>7, <1>8, <1>9

(* What a round of the loop does: nothing, or take one element out. *)
LEMMA SweepEffect ==
  ASSUME StoreInv, NEW g \in Goroutine, NEW k \in Uuid, Sweep(g, k)
  PROVE  /\ keys[k] \in 1..Len(diffs)
         /\ UNCHANGED <<minted, now>>
         /\ \/ UNCHANGED <<diffs, keys>>
            \/ /\ MaxAge # 0 => age[g] - diffs[keys[k]].time >= MaxAge
               /\ \A q \in Uuid : keys'[q] = IF q = k THEN 0 ELSE keys[q]
               /\ Len(diffs') = Len(diffs) - 1
               /\ \A j \in 1..Len(diffs') :
                    diffs'[j] = IF j < keys[k] THEN diffs[j] ELSE diffs[j + 1]
<1>1. diffs \in Seq(Diff) /\ keys \in [Uuid -> 0..MaxPuts]
  BY DEF StoreInv, TypeOK
<1>2. keys[k] \in 1..Len(diffs)
  BY <1>1, MaxPutsAssumption DEF Sweep, StoreInv, LockInv
<1>3. /\ Len(RemoveAt(diffs, keys[k])) = Len(diffs) - 1
      /\ \A j \in 1..(Len(diffs) - 1) :
           RemoveAt(diffs, keys[k])[j] = IF j < keys[k] THEN diffs[j] ELSE diffs[j + 1]
  BY <1>1, <1>2, RemoveAtProperties
<1>4. CASE Expired(diffs[keys[k]], age[g])
  BY <1>1, <1>2, <1>3, <1>4 DEF Sweep, Expired
<1>5. CASE ~Expired(diffs[keys[k]], age[g])
  BY <1>2, <1>5 DEF Sweep
<1> QED
  BY <1>4, <1>5

(* A removal keeps the order and lets no index fall behind its delta. *)
LEMMA SweepOrderInv ==
  ASSUME StoreInv, OrderInv, NEW g \in Goroutine, NEW k \in Uuid, Sweep(g, k)
  PROVE  /\ IndexNeverLags'
         /\ \A i \in 1..Len(diffs') : diffs'[i].key <= minted' /\ diffs'[i].time <= now'
         /\ \A q \in Uuid : keys'[q] # 0 => q <= minted'
<1>1. /\ Len(diffs) \in Nat /\ keys \in [Uuid -> Nat]
      /\ \A i \in 1..Len(diffs) : diffs[i].key \in Nat /\ diffs[i].time \in Nat
  <2>1. diffs \in Seq(Diff) /\ keys \in [Uuid -> 0..MaxPuts]
    BY DEF StoreInv, TypeOK
  <2>2. ASSUME NEW i \in 1..Len(diffs)
        PROVE  diffs[i].key \in Nat /\ diffs[i].time \in Nat
    <3>1. diffs[i] \in Diff
      BY <2>1
    <3> QED
      BY <3>1, MaxPutsAssumption, MaxTimeAssumption DEF Diff, Uuid
  <2> QED
    BY <2>1, <2>2, MaxPutsAssumption
<1>2. CASE UNCHANGED <<diffs, keys>>
  <2>1. UNCHANGED <<minted, now>>
    BY SweepEffect
  <2> QED
    BY <1>2, <2>1 DEF OrderInv, IndexNeverLags, PastInv
<1>3. CASE ~UNCHANGED <<diffs, keys>>
  <2>1. /\ keys[k] \in 1..Len(diffs) /\ UNCHANGED <<minted, now>>
        /\ \A q \in Uuid : keys'[q] = IF q = k THEN 0 ELSE keys[q]
        /\ Len(diffs') = Len(diffs) - 1
        /\ \A j \in 1..Len(diffs') :
             diffs'[j] = IF j < keys[k] THEN diffs[j] ELSE diffs[j + 1]
    BY <1>3, SweepEffect
  <2>2. ASSUME NEW i \in 1..Len(diffs'), NEW j \in 1..Len(diffs'), i < j
        PROVE  diffs'[i].key < diffs'[j].key /\ diffs'[i].time <= diffs'[j].time
    <3> DEFINE a == IF i < keys[k] THEN i ELSE i + 1
               b == IF j < keys[k] THEN j ELSE j + 1
    <3>1. a \in 1..Len(diffs) /\ b \in 1..Len(diffs) /\ a < b
      BY <1>1, <2>1, <2>2
    <3>2. diffs'[i] = diffs[a] /\ diffs'[j] = diffs[b]
      BY <2>1
    <3> QED
      BY <3>1, <3>2 DEF OrderInv, IndexNeverLags
  <2>3. ASSUME NEW q \in Uuid, keys'[q] # 0, NEW i \in keys'[q]..Len(diffs')
        PROVE  diffs'[i].key >= q
    <3> DEFINE a == IF i < keys[k] THEN i ELSE i + 1
    <3>1. keys[q] = keys'[q] /\ keys[q] # 0 /\ keys[q] \in Nat
      BY <1>1, <2>1, <2>3
    <3>2. i \in 1..Len(diffs') /\ a \in keys[q]..Len(diffs)
      BY <1>1, <2>1, <2>3, <3>1
    <3>3. diffs'[i] = diffs[a]
      BY <2>1, <3>2
    <3> QED
      BY <3>1, <3>2, <3>3 DEF OrderInv, IndexNeverLags
  <2>4. ASSUME NEW i \in 1..Len(diffs')
        PROVE  diffs'[i].key <= minted' /\ diffs'[i].time <= now'
    <3> DEFINE a == IF i < keys[k] THEN i ELSE i + 1
    <3>1. a \in 1..Len(diffs) /\ diffs'[i] = diffs[a]
      BY <1>1, <2>1
    <3> QED
      BY <2>1, <3>1 DEF OrderInv, PastInv
  <2>5. \A q \in Uuid : keys'[q] # 0 => q <= minted'
    BY <2>1 DEF OrderInv, PastInv
  <2> QED
    BY <2>2, <2>3, <2>4, <2>5 DEF IndexNeverLags
<1> QED
  BY <1>2, <1>3

(* Every step keeps the order. *)
LEMMA NextOrderInv == StoreInv /\ OrderInv /\ [Next]_vars => OrderInv'
<1> SUFFICES ASSUME StoreInv, OrderInv, [Next]_vars PROVE OrderInv'
  OBVIOUS
<1>1. /\ now' >= now
      /\ \A g \in Goroutine : age'[g] <= now'
      /\ MaxAge = 0 => \A g \in Goroutine : pc'[g] \notin {"lock", "sweep"}
  BY ClockPast DEF OrderInv
<1> DEFINE Kept == /\ IndexNeverLags'
                   /\ \A i \in 1..Len(diffs') : diffs'[i].key <= minted' /\ diffs'[i].time <= now'
                   /\ \A k \in Uuid : keys'[k] # 0 => k <= minted'
<1>2. ASSUME UNCHANGED store
      PROVE  Kept
  <2>1. \A i \in 1..Len(diffs) : diffs[i].time <= now'
    <3>1. ASSUME NEW i \in 1..Len(diffs) PROVE diffs[i].time \in Nat
      <4>1. diffs[i] \in Diff
        BY DEF StoreInv, TypeOK
      <4> QED
        BY <4>1, MaxTimeAssumption DEF Diff
    <3>2. now \in Nat /\ now' \in Nat
      <4>1. StoreInv'
        BY NextStoreInv
      <4> QED
        BY <4>1, MaxTimeAssumption DEF StoreInv, TypeOK
    <3> QED
      BY <1>1, <3>1, <3>2 DEF OrderInv, PastInv
  <2> QED
    <3>1. IndexNeverLags'
      BY <1>2 DEF store, OrderInv, IndexNeverLags
    <3>2. UNCHANGED <<diffs, keys, minted>>
      BY <1>2 DEF store
    <3> QED
      BY <2>1, <3>1, <3>2 DEF OrderInv, PastInv
<1>3. ASSUME NEW g \in Goroutine, Clear(g)
      PROVE  Kept
  BY <1>3 DEF Clear, IndexNeverLags
<1> HIDE DEF Kept
<1>4. Kept
  <2>1. ASSUME NEW g \in Goroutine, Step(g)
        PROVE  Kept
    BY <1>2, <1>3, <2>1, StoreChanges, PutOrderInv, SweepOrderInv DEF Kept
  <2>2. ASSUME NEW g \in Goroutine, NEW request \in Workload, Call(g, request)
        PROVE  Kept
    BY <1>2, <2>2 DEF Call
  <2>3. CASE Tick
    BY <1>2, <2>3 DEF Tick
  <2>4. CASE UNCHANGED vars
    BY <1>2, <2>4 DEF vars
  <2> QED
    BY <2>1, <2>2, <2>3, <2>4 DEF Next
<1> QED
  BY <1>1, <1>4 DEF Kept, OrderInv, PastInv

(* The order of the list, for the whole behaviour. *)
LEMMA OrderInvariant == SafeSpec => []OrderInv
<1>1. Init => OrderInv
  BY InitOrderInv
<1> QED
  BY <1>1, StoreInvariant, NextOrderInv, PTL DEF SafeSpec

(* The list stays in the order of the puts, and the index clean leaves     *)
(* behind for a uuid never points before its delta (diff.go:302-312).      *)
THEOREM IndexNeverLagsHolds == SafeSpec => []IndexNeverLags
BY OrderInvariant, PTL DEF OrderInv

(* What clean drops is old, and so is the delta of the uuid it deletes. *)
LEMMA SweepKeepsFresh ==
  ASSUME StoreInv, OrderInv, NEW g \in Goroutine, NEW k \in Uuid, Sweep(g, k),
         NEW i \in 1..Len(diffs), Live(diffs[i])
  PROVE  /\ keys[diffs[i].key] # 0 => keys'[diffs[i].key] # 0
         /\ \E j \in 1..Len(diffs') : diffs'[j] = diffs[i]
<1> DEFINE p == keys[k]
<1>1. /\ Len(diffs) \in Nat /\ now \in Nat /\ age[g] \in Nat /\ age[g] <= now
      /\ \A j \in 1..Len(diffs) : diffs[j].time \in Nat /\ diffs[j].key \in Uuid
  <2>1. diffs \in Seq(Diff) /\ now \in 0..MaxTime /\ age[g] \in 0..MaxTime
    BY DEF StoreInv, TypeOK
  <2>2. ASSUME NEW j \in 1..Len(diffs)
        PROVE  diffs[j].time \in Nat /\ diffs[j].key \in Uuid
    <3>1. diffs[j] \in Diff
      BY <2>1
    <3> QED
      BY <3>1, MaxTimeAssumption DEF Diff
  <2> QED
    BY <2>1, <2>2, MaxTimeAssumption DEF OrderInv, PastInv
<1>2. MaxAge # 0
  BY DEF Sweep, OrderInv, PastInv
<1>3. CASE UNCHANGED <<diffs, keys>>
  BY <1>3
<1>4. CASE ~UNCHANGED <<diffs, keys>>
  <2>1. /\ p \in 1..Len(diffs)
        /\ age[g] - diffs[p].time >= MaxAge
        /\ \A q \in Uuid : keys'[q] = IF q = k THEN 0 ELSE keys[q]
        /\ Len(diffs') = Len(diffs) - 1
        /\ \A j \in 1..Len(diffs') :
             diffs'[j] = IF j < p THEN diffs[j] ELSE diffs[j + 1]
    BY <1>2, <1>4, SweepEffect
  <2>2. diffs[p].time < diffs[i].time
    BY <1>1, <1>2, <2>1, MaxAgeAssumption DEF Live
  <2>3. p < i
    BY <1>1, <2>1, <2>2 DEF OrderInv, IndexNeverLags
  <2>4. diffs'[i - 1] = diffs[i] /\ i - 1 \in 1..Len(diffs')
    BY <1>1, <2>1, <2>3
  <2>5. diffs[i].key # k
    <3>1. diffs[p].key < diffs[i].key /\ diffs[p].key >= k
      BY <1>1, <2>1, <2>3 DEF OrderInv, IndexNeverLags
    <3> QED
      BY <1>1, <2>1, <3>1, MaxPutsAssumption DEF Uuid
  <2> QED
    BY <1>1, <2>1, <2>4, <2>5
<1> QED
  BY <1>3, <1>4

(* No step but Clear drops a delta younger than MaxAge or forgets its      *)
(* uuid, although clean works with stale indices: an index only ever       *)
(* points at its own delta or at a later one, so when what it points at    *)
(* has expired its own delta has too (diff.go:302-312).                    *)
THEOREM KeepsFreshHolds == SafeSpec => KeepsFresh
<1> DEFINE Fresh ==
      (\A g \in Goroutine : ~Clear(g)) =>
         \A i \in 1..Len(diffs) :
           Live(diffs[i]) =>
             /\ keys[diffs[i].key] # 0 => keys'[diffs[i].key] # 0
             /\ \E j \in 1..Len(diffs') : diffs'[j] = diffs[i]
<1>1. StoreInv /\ OrderInv /\ [Next]_vars => [Fresh]_vars
  <2> SUFFICES ASSUME StoreInv, OrderInv, Next, \A g \in Goroutine : ~Clear(g),
                      NEW i \in 1..Len(diffs), Live(diffs[i])
               PROVE  /\ keys[diffs[i].key] # 0 => keys'[diffs[i].key] # 0
                      /\ \E j \in 1..Len(diffs') : diffs'[j] = diffs[i]
    OBVIOUS
  <2>1. CASE UNCHANGED store
    BY <2>1 DEF store
  <2>2. ASSUME NEW g \in Goroutine, Put(g)
        PROVE  /\ keys[diffs[i].key] # 0 => keys'[diffs[i].key] # 0
               /\ \E j \in 1..Len(diffs') : diffs'[j] = diffs[i]
    <3>1. /\ diffs \in Seq(Diff) /\ keys \in [Uuid -> 0..MaxPuts]
          /\ Len(diffs) \in Nat
      BY DEF StoreInv, TypeOK
    <3>2. /\ \A q \in Uuid : keys[q] # 0 => keys'[q] # 0
          /\ diffs' = Append(diffs, [key |-> minted', recs |-> call[g].recs, time |-> now])
      BY <2>2, <3>1 DEF Put
    <3>3. diffs'[i] = diffs[i] /\ i \in 1..Len(diffs')
      BY <3>1, <3>2
    <3>4. diffs[i].key \in Uuid
      <4>1. diffs[i] \in Diff
        BY <3>1
      <4> QED
        BY <4>1 DEF Diff
    <3> QED
      BY <3>2, <3>3, <3>4
  <2>3. ASSUME NEW g \in Goroutine, NEW request \in Workload, Call(g, request)
        PROVE  UNCHANGED store
    BY <2>3 DEF Call
  <2>4. CASE Tick
    BY <2>1, <2>4 DEF Tick
  <2> QED
    BY <2>1, <2>2, <2>3, <2>4, StoreChanges, SweepKeepsFresh DEF Next
<1> QED
  BY <1>1, StoreInvariant, OrderInvariant, PTL DEF SafeSpec, KeepsFresh

-----------------------------------------------------------------------------
(* A store that does not expire.                                           *)

(* Every step of a store without expiry keeps the index exact. *)
LEMMA NextIndexMatches ==
  StoreInv /\ OrderInv /\ IndexMatchesList /\ [Next]_vars => IndexMatchesList'
<1> SUFFICES ASSUME StoreInv, OrderInv, IndexMatchesList, [Next]_vars, MaxAge = 0
             PROVE  IndexMatchesList'
  BY DEF IndexMatchesList
<1>1. /\ diffs \in Seq(Diff) /\ Len(diffs) \in Nat /\ keys \in [Uuid -> 0..MaxPuts]
      /\ minted \in Nat
      /\ \A i \in 1..Len(diffs) : diffs[i].key \in Uuid /\ diffs[i].key <= minted
  <2>1. diffs \in Seq(Diff) /\ keys \in [Uuid -> 0..MaxPuts] /\ minted \in Nat
    BY MaxPutsAssumption DEF StoreInv, TypeOK
  <2>2. ASSUME NEW i \in 1..Len(diffs)
        PROVE  diffs[i].key \in Uuid /\ diffs[i].key <= minted
    <3>1. diffs[i] \in Diff
      BY <2>1
    <3> QED
      BY <3>1 DEF Diff, OrderInv, PastInv
  <2> QED
    BY <2>1, <2>2
<1>2. CASE UNCHANGED store
  BY <1>2 DEF store, IndexMatchesList
<1>3. ASSUME NEW g \in Goroutine, Put(g)
      PROVE  IndexMatchesList'
  <2> DEFINE d == [key |-> minted', recs |-> call[g].recs, time |-> now]
  <2>1. minted' = minted + 1 /\ minted' \in Uuid
    BY <1>1, <1>3, MaxPutsAssumption DEF Put, Uuid
  <2>2. /\ Len(diffs') = Len(diffs) + 1 /\ diffs'[Len(diffs) + 1] = d
        /\ \A i \in 1..Len(diffs) : diffs'[i] = diffs[i]
    BY <1>1, <1>3 DEF Put
  <2>3. \A k \in Uuid : keys'[k] = IF k = minted + 1 THEN Len(diffs) + 1 ELSE keys[k]
    BY <1>1, <1>3, <2>1 DEF Put
  <2>4. d.key = minted + 1
    BY <2>1
  <2> HIDE DEF d
  <2>5. ASSUME NEW i \in 1..Len(diffs')
        PROVE  keys'[diffs'[i].key] = i
    <3>1. CASE i <= Len(diffs)
      <4>1. diffs[i].key # minted + 1 /\ keys[diffs[i].key] = i
        BY <1>1, <3>1 DEF IndexMatchesList
      <4> QED
        BY <1>1, <2>2, <2>3, <3>1, <4>1
    <3>2. CASE i = Len(diffs) + 1
      BY <2>1, <2>2, <2>3, <2>4, <3>2
    <3> QED
      BY <1>1, <2>2, <3>1, <3>2
  <2>6. ASSUME NEW k \in Uuid, keys'[k] # 0
        PROVE  keys'[k] <= Len(diffs') /\ diffs'[keys'[k]].key = k
    <3>1. CASE k = minted + 1
      BY <1>1, <2>2, <2>3, <2>4, <3>1
    <3>2. CASE k # minted + 1
      <4>1. keys[k] \in 1..Len(diffs) /\ diffs[keys[k]].key = k
        BY <1>1, <2>3, <2>6, <3>2 DEF IndexMatchesList
      <4> QED
        BY <1>1, <2>2, <2>3, <3>2, <4>1
    <3> QED
      BY <3>1, <3>2
  <2> QED
    BY <2>5, <2>6 DEF IndexMatchesList
<1>4. ASSUME NEW g \in Goroutine, Clear(g)
      PROVE  IndexMatchesList'
  BY <1>4 DEF Clear, IndexMatchesList
<1>5. ASSUME NEW g \in Goroutine, NEW k \in Uuid, Sweep(g, k)
      PROVE  FALSE
  BY <1>5 DEF Sweep, OrderInv, PastInv
<1>6. ASSUME NEW g \in Goroutine, NEW request \in Workload, Call(g, request)
      PROVE  UNCHANGED store
  BY <1>6 DEF Call
<1>7. Tick \/ UNCHANGED vars => UNCHANGED store
  BY DEF Tick, vars
<1> QED
  BY <1>2, <1>3, <1>4, <1>5, <1>6, <1>7, StoreChanges DEF Next

(* A store that never expires its deltas maps every uuid to the position   *)
(* of its delta, and to nothing else (diff.go:253-255, 266-267).           *)
THEOREM IndexMatchesListHolds == SafeSpec => []IndexMatchesList
<1>1. Init => IndexMatchesList
  BY DEF Init, IndexMatchesList
<1> QED
  BY <1>1, NextIndexMatches, StoreInvariant, OrderInvariant, PTL DEF SafeSpec

(* The abstract state a store stands for, as CL reads it. *)
Log == [i \in 1..Len(diffs) |-> [key |-> diffs[i].key, recs |-> diffs[i].recs]]
Phase == [g \in Goroutine |-> IF pc[g] \in {"idle", "done"} THEN pc[g] ELSE "pending"]

NeverExpires == MaxAge = 0 /\ \A g \in Goroutine : pc[g] \notin {"lock", "sweep", "panicked"}

(* A store without expiry is never in the loop of clean and never panics. *)
LEMMA NextNeverExpires ==
  StoreInv /\ IndexMatchesList /\ NeverExpires /\ [Next]_vars => NeverExpires'
<1> SUFFICES ASSUME StoreInv, IndexMatchesList, NeverExpires, [Next]_vars,
                    NEW h \in Goroutine
             PROVE  pc'[h] \notin {"lock", "sweep", "panicked"}
  BY DEF NeverExpires
<1>1. MaxAge = 0 /\ pc[h] \notin {"lock", "sweep", "panicked"} /\ pc \in [Goroutine -> Point]
  BY DEF NeverExpires, StoreInv, TypeOK
<1>2. ASSUME NEW g \in Goroutine, GetPanics(g)
      PROVE  FALSE
  BY <1>1, <1>2 DEF GetPanics, HasKey, IndexMatchesList, StoreInv, TypeOK
<1>3. pc'[h] = pc[h] \/ pc'[h] \in {"body", "clean", "done"}
  BY <1>1, <1>2 DEF NeverExpires, Next, Tick, vars, Call, Step, Clean, Body, SkipClean,
         ReadClock, LockForClean, EndSweep, AfterClean, Sweep, SweepPanics, Return,
         PutNothing, Put, Get, PullFrom, Has, Keys, Diffs, Clear, Analyze, AnalyzeWith
<1> QED
  BY <1>1, <1>3

(* The log that the list is mapped to. *)
LEMMA LogProperties ==
  ASSUME StoreInv
  PROVE  /\ Log \in Seq(CL!Entry)
         /\ Len(Log) = Len(diffs) /\ Len(diffs) \in Nat
         /\ \A i \in 1..Len(diffs) : Log[i].key = diffs[i].key /\ Log[i].recs = diffs[i].recs
<1>1. diffs \in Seq(Diff) /\ Len(diffs) \in Nat
  BY DEF StoreInv, TypeOK
<1>2. ASSUME NEW i \in 1..Len(diffs)
      PROVE  [key |-> diffs[i].key, recs |-> diffs[i].recs] \in CL!Entry
  <2>1. diffs[i] \in Diff
    BY <1>1
  <2> QED
    BY <2>1 DEF Diff, CL!Entry, CL!Uuid, Uuid
<1> QED
  BY <1>1, <1>2 DEF Log

(* What a reader computes from the list and the index is what the log says. *)
LEMMA ReadersAgree ==
  ASSUME StoreInv, IndexMatchesList, MaxAge = 0, NEW id \in Tag
  PROVE  /\ RecordsFrom(1) = CL!ChangedFrom(1)
         /\ PulledFrom(id) = CL!ChangedSince(id)
         /\ HasKey(id) <=> CL!Known(id)
         /\ HasKey(id) => keys[id] \in 1..Len(diffs) /\ diffs[keys[id]].key = id
         /\ \A i \in 1..Len(diffs) : diffs[i].key = id => HasKey(id) /\ keys[id] = i
<1>1. /\ diffs \in Seq(Diff) /\ Len(diffs) \in Nat /\ keys \in [Uuid -> 0..MaxPuts]
      /\ \A i \in 1..Len(diffs) : diffs[i].key \in Uuid
  <2>1. diffs \in Seq(Diff) /\ keys \in [Uuid -> 0..MaxPuts]
    BY DEF StoreInv, TypeOK
  <2>2. ASSUME NEW i \in 1..Len(diffs) PROVE diffs[i].key \in Uuid
    <3>1. diffs[i] \in Diff
      BY <2>1
    <3> QED
      BY <3>1 DEF Diff
  <2> QED
    BY <2>1, <2>2
<1>2. Len(Log) = Len(diffs)
      /\ \A i \in 1..Len(diffs) : Log[i].key = diffs[i].key /\ Log[i].recs = diffs[i].recs
  BY LogProperties
<1>3. HasKey(id) => keys[id] \in 1..Len(diffs) /\ diffs[keys[id]].key = id
  BY <1>1, MaxPutsAssumption DEF HasKey, IndexMatchesList
<1>4. \A i \in 1..Len(diffs) : diffs[i].key = id => HasKey(id) /\ keys[id] = i
  BY <1>1, <1>3 DEF HasKey, IndexMatchesList
<1>5. RecordsFrom(1) = CL!ChangedFrom(1)
  BY <1>2 DEF RecordsFrom, CL!ChangedFrom, Log
<1>6. HasKey(id) <=> CL!Known(id)
  BY <1>2, <1>3, <1>4 DEF CL!Known, Log
<1>7. PulledFrom(id) = CL!ChangedSince(id)
  <2>1. CL!ChangedSince(id) =
          {r \in Record : \E i, j \in 1..Len(diffs) :
             i < j /\ diffs[i].key = id /\ r \in diffs[j].recs}
    BY <1>2 DEF CL!ChangedSince, Log
  <2>2. CASE HasKey(id)
    <3>1. PulledFrom(id) =
            {r \in Record : \E j \in (keys[id] + 1)..Len(diffs) :
               j \in 1..Len(diffs) /\ r \in diffs[j].recs}
      BY <2>2 DEF PulledFrom, RecordsFrom
    <3>2. ASSUME NEW r \in Record
          PROVE  (\E j \in (keys[id] + 1)..Len(diffs) : j \in 1..Len(diffs) /\ r \in diffs[j].recs)
                 <=> \E i, j \in 1..Len(diffs) : i < j /\ diffs[i].key = id /\ r \in diffs[j].recs
      <4>1. keys[id] \in 1..Len(diffs) /\ diffs[keys[id]].key = id
        BY <1>3, <2>2
      <4>2. \A i \in 1..Len(diffs) : diffs[i].key = id => i = keys[id]
        BY <1>4
      <4>3. \A j \in 1..Len(diffs) : j \in (keys[id] + 1)..Len(diffs) <=> keys[id] < j
        BY <1>1, <4>1
      <4> QED
        BY <4>1, <4>2, <4>3
    <3> QED
      BY <2>1, <3>1, <3>2
  <2>3. CASE ~HasKey(id)
    BY <1>4, <2>1, <2>3 DEF PulledFrom
  <2> QED
    BY <2>2, <2>3
<1> QED
  BY <1>3, <1>4, <1>5, <1>6, <1>7

(* The empty store is the empty log. *)
LEMMA InitRefines == Init => CL!Init
<1> SUFFICES ASSUME Init PROVE CL!Init
  OBVIOUS
<1>1. Log = <<>>
  BY DEF Init, Log
<1> QED
  BY <1>1 DEF Init, Log, CL!Init, NoRequest, CL!NoRequest, NoTag, CL!NoTag,
              NoReply, CL!NoReply, Records, CL!Records

(* What a body that leaves the store alone does to the abstract state. *)
LEMMA ReadStep ==
  ASSUME StoreInv, NeverExpires, NEW g \in Goroutine,
         pc[g] = "body", pc' = [pc EXCEPT ![g] = "done"], UNCHANGED store
  PROVE  /\ Phase[g] = "pending" /\ Phase' = [Phase EXCEPT ![g] = "done"]
         /\ Log' = Log
         /\ minted' = IF Len(Log) > Len(Log) THEN minted + 1 ELSE minted
<1>1. pc \in [Goroutine -> Point] /\ minted \in Nat
  BY MaxPutsAssumption DEF StoreInv, TypeOK
<1>2. Phase[g] = "pending" /\ Phase' = [Phase EXCEPT ![g] = "done"]
  BY <1>1 DEF Phase
<1>3. Log' = Log
  BY DEF store, Log
<1>4. minted' = IF Len(Log) > Len(Log) THEN minted + 1 ELSE minted
  BY <1>1, LogProperties DEF store
<1> QED
  BY <1>2, <1>3, <1>4

(* Put appends to the log. *)
LEMMA PutRefines ==
  ASSUME StoreInv, NeverExpires, NEW g \in Goroutine, Put(g)
  PROVE  CL!Put(g)
<1> DEFINE e == [key |-> minted + 1, recs |-> call[g].recs]
<1>1. /\ pc \in [Goroutine -> Point] /\ minted \in Nat /\ diffs \in Seq(Diff)
      /\ Len(diffs) \in Nat
  BY MaxPutsAssumption DEF StoreInv, TypeOK
<1>2. Phase[g] = "pending" /\ Phase' = [Phase EXCEPT ![g] = "done"]
  BY <1>1 DEF Put, Return, Phase
<1>3. /\ Log \in Seq(CL!Entry) /\ Len(Log) = Len(diffs)
  BY LogProperties
<1>4. minted' = minted + 1
  BY DEF Put
<1>5. Log' = Append(Log, e)
  <2>1. /\ Len(diffs') = Len(diffs) + 1
        /\ \A i \in 1..Len(diffs) : diffs'[i] = diffs[i]
        /\ diffs'[Len(diffs) + 1].key = minted + 1
        /\ diffs'[Len(diffs) + 1].recs = call[g].recs
    BY <1>1, <1>4 DEF Put
  <2>2. Log' = [i \in 1..(Len(diffs) + 1) |-> IF i <= Len(diffs) THEN Log[i] ELSE e]
    BY <1>1, <2>1 DEF Log
  <2>3. Append(Log, e) = [i \in 1..(Len(diffs) + 1) |-> IF i <= Len(diffs) THEN Log[i] ELSE e]
    BY <1>1, <1>3
  <2> QED
    BY <2>2, <2>3
<1>6. minted' = IF Len(Append(Log, e)) > Len(Log) THEN minted + 1 ELSE minted
  BY <1>1, <1>3, <1>4
<1>7. CL!Answer(g, Append(Log, e), CL!Tags(<<minted + 1>>))
  BY <1>2, <1>4, <1>5, <1>6 DEF Put, Return, Log, Phase, CL!Answer, Tags, CL!Tags
<1> QED
  BY <1>7 DEF Put, Return, Log, CL!Put

(* Clear empties the log. *)
LEMMA ClearRefines ==
  ASSUME StoreInv, NeverExpires, NEW g \in Goroutine, Clear(g)
  PROVE  CL!Clear(g)
<1>1. pc \in [Goroutine -> Point] /\ minted \in Nat /\ Len(diffs) \in Nat
  BY MaxPutsAssumption DEF StoreInv, TypeOK
<1>2. Phase[g] = "pending" /\ Phase' = [Phase EXCEPT ![g] = "done"]
  BY <1>1 DEF Clear, Return, Phase
<1>3. Log' = <<>>
  BY DEF Clear, Log
<1>4. minted' = IF Len(<<>>) > Len(Log) THEN minted + 1 ELSE minted
  BY <1>1, LogProperties DEF Clear
<1>5. CL!Answer(g, <<>>, CL!NoReply)
  BY <1>2, <1>3, <1>4 DEF Clear, Return, Log, Phase, CL!Answer, NoReply, CL!NoReply,
                          Records, CL!Records
<1> QED
  BY <1>5 DEF Clear, Return, CL!Clear

(* Every body of a method is the one step of its call on the log. *)
LEMMA BodyRefines ==
  ASSUME StoreInv, IndexMatchesList, NeverExpires, NEW g \in Goroutine, Body(g)
  PROVE  CL!Serve(g)
<1> USE DEF CL!Serve
<1>1. call[g].id \in Tag /\ MaxAge = 0
  BY DEF StoreInv, TypeOK, Request, NeverExpires
<1>2. /\ RecordsFrom(1) = CL!ChangedFrom(1)
      /\ PulledFrom(call[g].id) = CL!ChangedSince(call[g].id)
      /\ HasKey(call[g].id) <=> CL!Known(call[g].id)
  BY <1>1, ReadersAgree
<1>3. /\ Records(RecordsFrom(1)) = CL!Records(CL!ChangedFrom(1))
      /\ Records(PulledFrom(call[g].id)) = CL!Records(CL!ChangedSince(call[g].id))
      /\ Records(call[g].recs \cap RecordsFrom(1))
           = CL!Records(call[g].recs \cap CL!ChangedFrom(1))
      /\ Records(call[g].recs \cap PulledFrom(call[g].id))
           = CL!Records(call[g].recs \cap CL!ChangedSince(call[g].id))
  BY <1>2 DEF Records, CL!Records
<1>r. ASSUME pc[g] = "body", pc' = [pc EXCEPT ![g] = "done"], UNCHANGED store
      PROVE  /\ Phase[g] = "pending" /\ Phase' = [Phase EXCEPT ![g] = "done"]
             /\ Log' = Log
             /\ minted' = IF Len(Log) > Len(Log) THEN minted + 1 ELSE minted
  BY <1>r, ReadStep
<1>4. CASE PutNothing(g)
  <2>1. CL!Answer(g, Log, CL!Tags(<<CL!NoTag>>))
    BY <1>4, <1>r DEF PutNothing, NoTag, CL!NoTag, Tags, CL!Tags, Return, Phase, Log, CL!Answer
  <2> QED
    BY <1>4, <2>1 DEF PutNothing, Return, CL!Put, Log
<1>5. CASE Put(g)
  BY <1>5, PutRefines
<1>6. CASE Get(g)
  <2> DEFINE id == call[g].id
  <2>1. (IF HasKey(id) THEN diffs[keys[id]].recs ELSE {})
          = {r \in Record : \E i \in 1..Len(diffs) : diffs[i].key = id /\ r \in diffs[i].recs}
    <3>1. \A i \in 1..Len(diffs) : diffs[i].key = id => HasKey(id) /\ keys[id] = i
      BY <1>1, ReadersAgree
    <3>2. CASE HasKey(id)
      <4>1. keys[id] \in 1..Len(diffs) /\ diffs[keys[id]].key = id
        BY <1>1, <3>2, ReadersAgree
      <4>2. diffs[keys[id]].recs \subseteq Record
        BY <4>1, AnswerTypes DEF StoreInv, Diff
      <4> QED
        BY <3>1, <3>2, <4>1, <4>2
    <3>3. CASE ~HasKey(id)
      BY <3>1, <3>3
    <3> QED
      BY <3>2, <3>3
  <2>2. Len(Log) = Len(diffs)
        /\ \A i \in 1..Len(diffs) : Log[i].key = diffs[i].key /\ Log[i].recs = diffs[i].recs
    BY LogProperties
  <2>3. {r \in Record : \E i \in 1..Len(diffs) : diffs[i].key = id /\ r \in diffs[i].recs}
          = {r \in Record : \E i \in 1..Len(Log) : Log[i].key = id /\ r \in Log[i].recs}
    BY <2>2
  <2>4. CL!Answer(g, Log, CL!Records(
           {r \in Record : \E i \in 1..Len(Log) : Log[i].key = id /\ r \in Log[i].recs}))
    BY <1>6, <2>1, <2>3, <1>r DEF Get, Records, CL!Records, Return, Phase, Log, CL!Answer
  <2>5. CL!Get(g)
    BY <1>6, <2>4 DEF Get, Return, CL!Get, Log
  <2> QED
    BY <2>5
<1>7. CASE GetPanics(g)
  BY <1>1, <1>7 DEF GetPanics, HasKey, IndexMatchesList, StoreInv, TypeOK
<1>8. CASE PullFrom(g)
  <2>1. CL!Answer(g, Log, CL!Records(CL!ChangedSince(call[g].id)))
    BY <1>3, <1>8, <1>r DEF PullFrom, Return, Phase, Log, CL!Answer
  <2> QED
    BY <1>8, <2>1 DEF PullFrom, Return, CL!PullFrom, Log
<1>9. CASE Has(g)
  <2>1. CL!Answer(g, Log, CL!Tags(IF CL!Known(call[g].id) THEN <<call[g].id>> ELSE <<>>))
    BY <1>2, <1>9, <1>r DEF Has, Tags, CL!Tags, Return, Phase, Log, CL!Answer
  <2> QED
    BY <1>9, <2>1 DEF Has, Return, CL!Has, Log
<1>10. CASE Keys(g)
  <2>1. [i \in 1..Len(diffs) |-> diffs[i].key] = [i \in 1..Len(Log) |-> Log[i].key]
    BY LogProperties
  <2>2. CL!Answer(g, Log, CL!Tags([i \in 1..Len(Log) |-> Log[i].key]))
    BY <1>10, <2>1, <1>r DEF Keys, Tags, CL!Tags, Return, Phase, Log, CL!Answer
  <2> QED
    BY <1>10, <2>2 DEF Keys, Return, CL!Keys, Log
<1>11. CASE Diffs(g)
  <2>1. CL!Answer(g, Log, CL!Records(CL!ChangedFrom(1)))
    BY <1>3, <1>11, <1>r DEF Diffs, Return, Phase, Log, CL!Answer
  <2> QED
    BY <1>11, <2>1 DEF Diffs, Return, CL!Diffs, Log
<1>12. CASE Clear(g)
  BY <1>12, ClearRefines
<1>13. CASE Analyze(g)
  <2>1. CL!Answer(g, Log, CL!Records(call[g].recs \cap CL!ChangedFrom(1)))
    BY <1>3, <1>13, <1>r DEF Analyze, Return, Phase, Log, CL!Answer
  <2> QED
    BY <1>13, <2>1 DEF Analyze, Return, CL!Analyze, Log
<1>14. CASE AnalyzeWith(g)
  <2>1. CL!Answer(g, Log, CL!Records(call[g].recs \cap CL!ChangedSince(call[g].id)))
    BY <1>3, <1>14, <1>r DEF AnalyzeWith, Return, Phase, Log, CL!Answer
  <2> QED
    BY <1>14, <2>1 DEF AnalyzeWith, Return, CL!AnalyzeWith, Log
<1> QED
  BY <1>4, <1>5, <1>6, <1>7, <1>8, <1>9, <1>10, <1>11, <1>12, <1>13, <1>14 DEF Body

(* The steps of clean leave the log alone. *)
LEMMA CleanRefines ==
  ASSUME StoreInv, NeverExpires, NEW g \in Goroutine, Clean(g)
  PROVE  UNCHANGED <<Log, minted, Phase, call, reply>>
<1>1. pc \in [Goroutine -> Point] /\ SkipClean(g)
  BY DEF StoreInv, TypeOK, NeverExpires, Clean, ReadClock, LockForClean, EndSweep,
         Sweep, SweepPanics
<1>2. pc'[g] \in {"body", "clean"} /\ \A h \in Goroutine \ {g} : pc'[h] = pc[h]
  BY <1>1 DEF SkipClean, AfterClean
<1>3. Phase' = Phase
  BY <1>1, <1>2 DEF SkipClean, Phase
<1> QED
  BY <1>1, <1>3 DEF SkipClean, store, Log

(* Entering a method is the call on the log. *)
LEMMA CallRefines ==
  ASSUME StoreInv, NeverExpires, NEW g \in Goroutine, NEW request \in Workload,
         Call(g, request)
  PROVE  request \in CL!Request /\ CL!Call(g, request)
<1>1. pc \in [Goroutine -> Point] /\ Idle(g) /\ pc[g] # "panicked"
  BY DEF StoreInv, TypeOK, NeverExpires, Call
<1>2. /\ pc' = [pc EXCEPT ![g] = IF CleansOf(request.op) = 0 THEN "body" ELSE "clean"]
      /\ UNCHANGED <<diffs, minted, reply>>
  BY DEF Call, store
<1>3. Phase[g] \in {"idle", "done"} /\ Phase' = [Phase EXCEPT ![g] = "pending"]
  BY <1>1, <1>2 DEF Idle, Phase
<1>4. request \in CL!Request
  BY WorkloadAssumption DEF Request, Operation, Tag, Uuid, NoTag, CL!Request,
     CL!Operation, CL!Tag, CL!Uuid, CL!NoTag
<1> QED
  BY <1>2, <1>3, <1>4 DEF Call, Log, Phase, CL!Call

(* Every step is a step of the log or leaves it alone. *)
LEMMA StepRefines ==
  StoreInv /\ IndexMatchesList /\ NeverExpires /\ [Next]_vars => [CL!Next]_(CL!vars)
<1> SUFFICES ASSUME StoreInv, IndexMatchesList, NeverExpires, [Next]_vars
             PROVE  [CL!Next]_(CL!vars)
  OBVIOUS
<1>1. ASSUME NEW g \in Goroutine, Body(g)
      PROVE  CL!Next
  BY <1>1, BodyRefines DEF CL!Next
<1>2. ASSUME NEW g \in Goroutine, Clean(g)
      PROVE  UNCHANGED CL!vars
  BY <1>2, CleanRefines DEF CL!vars, Log, Phase
<1>3. ASSUME NEW g \in Goroutine, NEW request \in Workload, Call(g, request)
      PROVE  CL!Next
  BY <1>3, CallRefines DEF CL!Next
<1>4. Tick \/ UNCHANGED vars => UNCHANGED CL!vars
  BY DEF Tick, vars, store, CL!vars
<1> QED
  BY <1>1, <1>2, <1>3, <1>4 DEF Next, Step

(* A store made by NewDiffs is a linearizable append-only log: every call  *)
(* takes effect at one instant between its start and its return, although  *)
(* its goroutines pass through clean and the lock separately               *)
(* (diff.go:74-285).  That every call also returns is left to TLC.         *)
THEOREM ImplementsLog == ASSUME MaxAge = 0 PROVE SafeSpec => CL!SafeSpec
<1>1. Init => NeverExpires
  BY DEF Init, NeverExpires
<1>2. SafeSpec => []NeverExpires
  BY <1>1, NextNeverExpires, StoreInvariant, IndexMatchesListHolds, PTL DEF SafeSpec
<1> QED
  BY <1>2, InitRefines, StepRefines, StoreInvariant, IndexMatchesListHolds, PTL
     DEF SafeSpec, CL!SafeSpec

=============================================================================
