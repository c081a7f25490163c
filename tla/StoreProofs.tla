---------------------------- MODULE StoreProofs -----------------------------
(***************************************************************************)
(* Theorems about Store, for all goroutines, keys, maps and calls.         *)
(***************************************************************************)
EXTENDS Store, SequenceTheorems, TLAPS

(* Places in Add, those that hold rl there, and those where a record was   *)
(* found or made, and where its counter was read.                          *)
Adding == {"find", "insert", "countNew", "merge", "store", "countOld", "setOld"}
Holding == {"countNew", "countOld", "setOld"}
Using == {"read", "countGet", "setGet", "pull", "link", "countMod", "setMod",
          "merge", "store", "countOld", "setOld", "setRef"}
Setting == {"setGet", "setMod", "setOld", "setRef"}

(* The key has a counter, or gets one before rl is free.                   *)
Counted(k) == active[k] > 0 \/ \E g \in Goroutine : At(g, "countNew") /\ KeyOf(g) = k

(* What a goroutine relies on where it is.                                 *)
Place(g) ==
  /\ local[g].inrec <= Len(heap)
  /\ pc[g] \in Adding \cup {"pull"} => local[g].rec \in 1..Len(heap)
  /\ pc[g] = "hasRef" /\ call[g].op = "AddRef" => local[g].rec \in 1..Len(heap)
  /\ pc[g] \in {"merge", "store"} => local[g].inrec \in 1..Len(heap)
  /\ pc[g] = "refs" => call[g].with.ref \in RefValue
  /\ pc[g] = "link" => local[g].want \in RefValue
  /\ pc[g] \in Holding => rlWriter = g
  /\ pc[g] \in Using => active[KeyOf(g)] > 0
  /\ pc[g] \in Setting => local[g].count > 0
  /\ \A k \in local[g].todo : active[k] > 0
  /\ pc[g] = "erase" /\ call[g].op = "Delete" => Counted(KeyOf(g))

(* The records and their counters.                                         *)
RecordsInv ==
  /\ \A k \in Key : records[k] <= Len(heap)
  /\ \A k \in Key : records[k] # NoMap => Counted(k)
  /\ TaintedAreRecords
RefsInv == \A v \in RefValue : \A k \in Key : refs[v][k] # "none" => active[k] > 0

(* A key that was accessed counts as such until clean visits it, and clean *)
(* keeps accesses out while it is at work.                                 *)
CleanInv ==
  /\ \A k \in touched : active[k] = 2
  /\ \A k \in dirty \cup victim : active[k] > 0
  /\ dirty \cup victim # {} => cleaner = "sweep"
  /\ SurvivesAccess

StoreInv == /\ TypeOK
            /\ \A g \in Goroutine : Place(g)
            /\ RecordsInv /\ RefsInv /\ CleanInv

(* What every step keeps.                                                  *)
Growing ==
  /\ Len(heap) <= Len(heap')
  /\ \A k \in Key : active[k] > 0 => active'[k] > 0
  /\ \A k \in Key : Counted(k) => Counted(k)'
-----------------------------------------------------------------------------
(* What a goroutine relies on is not disturbed by the steps of others.     *)
LEMMA OthersPlace ==
  ASSUME StoreInv, TypeOK', Growing, NEW d \in Goroutine, pc'[d] = pc[d], call'[d] = call[d],
         local'[d] = local[d], rlWriter = d => rlWriter' = d
  PROVE  Place(d)'
<1>1. Place(d) /\ KeyOf(d) \in Key /\ local[d] \in Locals
  BY DEF StoreInv, TypeOK, KeyOf, Invocation
<1>2. Len(heap) \in Nat /\ Len(heap)' \in Nat
  BY LenProperties DEF StoreInv, TypeOK
<1>3. \A i \in Nat : i <= Len(heap) => i <= Len(heap)'
  BY <1>2 DEF Growing
<1>4. local[d].inrec \in Nat /\ local[d].rec \in Nat
      /\ local[d].todo \subseteq Key
  BY <1>1 DEF Locals, Map, NoMap
<1> QED
  BY <1>1, <1>2, <1>3, <1>4 DEF Place, Growing, KeyOf

(* While rl can be read, records have counters.                            *)
LEMMA CountedNow ==
  ASSUME StoreInv, CanRead, NEW k \in Key, Counted(k)
  PROVE  active[k] > 0
<1>1. \A g \in Goroutine : ~At(g, "countNew")
  BY NoOneIsNone DEF StoreInv, Place, CanRead, At, Holding
<1> QED
  BY <1>1 DEF Counted

(* A step that moves g, and changes no more than its locals and its key.   *)
LEMMA MoveInv ==
  ASSUME StoreInv, TypeOK', NEW g \in Goroutine, ~At(g, "countNew"), Place(g)',
         \A d \in Goroutine \ {g} :
           pc'[d] = pc[d] /\ call'[d] = call[d] /\ local'[d] = local[d],
         \A d \in Goroutine \ {g} : rlWriter = d => rlWriter' = d,
         UNCHANGED <<records, heap, tainted, refs, active, sweeping, touched>>
  PROVE  StoreInv'
<1>1. \A k \in Key : Counted(k) => Counted(k)'
  BY DEF Counted, At, KeyOf
<1>2. Growing
  <2>1. Len(heap) \in Nat
    BY LenProperties DEF StoreInv, TypeOK
  <2> QED
    BY <1>1, <2>1 DEF Growing
<1>3. \A d \in Goroutine \ {g} : Place(d)'
  BY <1>2, OthersPlace
<1>4. RecordsInv'
  BY <1>1 DEF StoreInv, RecordsInv, TaintedAreRecords
<1>5. RefsInv' /\ CleanInv'
  BY DEF StoreInv, RefsInv, CleanInv, SurvivesAccess, sweeping
<1> QED
  BY <1>3, <1>4, <1>5 DEF StoreInv

(* Find.                                                                   *)
LEMMA FindInv ==
  ASSUME StoreInv, NEW g \in Goroutine, Find(g)
  PROVE  StoreInv'
<1>1. TypeOK'
  BY DEF StoreInv, TypeOK, Find, Keep, Goto, Locals, Point, KeyOf, Invocation, locks, sweeping
<1>2. pc'[g] \in {"merge", "insert"} /\ (pc'[g] = "merge" => records[KeyOf(g)] # NoMap)
      /\ local'[g].inrec = records[KeyOf(g)] /\ local'[g].rec = local[g].rec
      /\ local'[g].todo = local[g].todo
  BY DEF StoreInv, TypeOK, Find, Keep, Goto, Stored, Locals
<1>3. \A d \in Goroutine \ {g} :
         pc'[d] = pc[d] /\ call'[d] = call[d] /\ local'[d] = local[d]
  BY DEF StoreInv, TypeOK, Find, Keep, Goto
<1>4. KeyOf(g) \in Key /\ KeyOf(g)' = KeyOf(g)
  BY DEF StoreInv, TypeOK, KeyOf, Invocation, Find
<1>5. records[KeyOf(g)] # NoMap => active[KeyOf(g)] > 0
  BY <1>4, CountedNow DEF Find, StoreInv, RecordsInv
<1>6. records[KeyOf(g)] \in Nat /\ records[KeyOf(g)] <= Len(heap) /\ Len(heap) \in Nat
  BY <1>4, LenProperties DEF StoreInv, TypeOK, RecordsInv, Map, NoMap
<1>7. Place(g) /\ At(g, "find") /\ UNCHANGED <<heap, active, rlWriter>>
  BY DEF StoreInv, Find, locks
<1>8. Place(g)'
  BY <1>2, <1>4, <1>5, <1>6, <1>7 DEF Place, Adding, Holding, Using, Setting, At, NoMap
<1> QED
  BY <1>1, <1>3, <1>7, <1>8, MoveInv DEF Find, At, locks

(* Facts about a goroutine that its type and its place give.               *)
LEMMA Basics ==
  ASSUME StoreInv, NEW g \in Goroutine
  PROVE  /\ KeyOf(g) \in Key /\ call[g] \in Invocation /\ local[g] \in Locals
         /\ local[g].inrec \in Nat /\ Len(heap) \in Nat /\ active[KeyOf(g)] \in 0..2
         /\ records[KeyOf(g)] \in Nat /\ records[KeyOf(g)] <= Len(heap)
         /\ Place(g)
         /\ CanRead /\ Stored(g) => active[KeyOf(g)] > 0
<1>1. KeyOf(g) \in Key /\ call[g] \in Invocation /\ local[g] \in Locals /\ Place(g)
  BY DEF StoreInv, TypeOK, KeyOf, Invocation
<1>2. Len(heap) \in Nat /\ active[KeyOf(g)] \in 0..2
  BY <1>1, LenProperties DEF StoreInv, TypeOK
<1>3. records[KeyOf(g)] \in Nat /\ records[KeyOf(g)] <= Len(heap)
  BY <1>1 DEF StoreInv, TypeOK, RecordsInv, Map, NoMap
<1>4. local[g].inrec \in Nat
  BY <1>1 DEF Locals, Map, NoMap
<1>5. CanRead /\ Stored(g) => active[KeyOf(g)] > 0
  BY <1>1, CountedNow DEF Stored, StoreInv, RecordsInv
<1> QED
  BY <1>1, <1>2, <1>3, <1>4, <1>5

(* Who moves or returns is somewhere.                                      *)
LEMMA GotoType ==
  ASSUME TypeOK, NEW g \in Goroutine
  PROVE  /\ Return(g) => local' \in [Goroutine -> Locals] /\ pc' \in [Goroutine -> Point]
         /\ \A point \in Point : Goto(g, point) => pc' \in [Goroutine -> Point]
<1>1. Blank \in Locals
  BY DEF Blank, Locals
<1>2. "done" \in Point
  BY DEF Point
<1> QED
  BY <1>1, <1>2 DEF TypeOK, Return, Goto

(* Who returns relies on nothing.                                          *)
LEMMA ReturnPlace ==
  ASSUME StoreInv, TypeOK', NEW g \in Goroutine, Return(g)
  PROVE  Place(g)'
<1>1. pc'[g] = "done" /\ local'[g] = Blank
  BY DEF Return, Goto, StoreInv, TypeOK
<1>2. Len(heap') \in Nat
  BY LenProperties DEF TypeOK
<1> QED
  BY <1>1, <1>2 DEF Place, Blank, NoMap, Adding, Holding, Using, Setting

(* The counter is read while rl is held.                                   *)
LEMMA CountOldInv ==
  ASSUME StoreInv, NEW g \in Goroutine, CountOld(g)
  PROVE  StoreInv'
<1>1. TypeOK'
  BY DEF StoreInv, TypeOK, CountOld, Keep, ReadCount, Goto, Locals, Point, KeyOf, Invocation, locks, sweeping
<1>2. /\ pc'[g] = "setOld" /\ local'[g].count = active[KeyOf(g)]
      /\ local'[g].inrec = local[g].inrec /\ local'[g].rec = local[g].rec
      /\ local'[g].todo = local[g].todo
  BY DEF StoreInv, TypeOK, CountOld, Keep, ReadCount, Goto, Locals, At
<1>3. \A d \in Goroutine \ {g} :
         pc'[d] = pc[d] /\ call'[d] = call[d] /\ local'[d] = local[d]
  BY DEF StoreInv, TypeOK, CountOld, Keep, ReadCount, Goto
<1>4. KeyOf(g)' = KeyOf(g) /\ UNCHANGED <<heap, active, rlWriter>>
  BY DEF KeyOf, CountOld, locks
<1>5. Place(g)'
  BY <1>2, <1>4, Basics DEF Place, CountOld, Adding, Holding, Using, Setting, At, NoMap
<1> QED
  BY <1>1, <1>3, <1>4, <1>5, MoveInv DEF CountOld, At, locks

(* Get reads the record.                                                   *)
LEMMA ReadInv ==
  ASSUME StoreInv, NEW g \in Goroutine, Read(g)
  PROVE  StoreInv'
<1>1. TypeOK'
  BY DEF StoreInv, TypeOK, Read, Keep, Goto, Locals, Point, KeyOf, Invocation, locks, sweeping
<1>2. /\ pc'[g] = "countGet" /\ local'[g].inrec = records[KeyOf(g)]
      /\ local'[g].todo = local[g].todo
  BY DEF StoreInv, TypeOK, Read, Keep, Goto, Locals, At
<1>3. \A d \in Goroutine \ {g} :
         pc'[d] = pc[d] /\ call'[d] = call[d] /\ local'[d] = local[d]
  BY DEF StoreInv, TypeOK, Read, Keep, ReadCount, Goto
<1>4. KeyOf(g)' = KeyOf(g) /\ UNCHANGED <<heap, active, rlWriter>>
  BY DEF KeyOf, Read, locks
<1>5. Place(g)'
  BY <1>2, <1>4, Basics DEF Place, Read, Adding, Holding, Using, Setting, At, NoMap
<1> QED
  BY <1>1, <1>3, <1>4, <1>5, MoveInv DEF Read, At, locks

(* Get reads the counter.                                                  *)
LEMMA CountGetInv ==
  ASSUME StoreInv, NEW g \in Goroutine, CountGet(g)
  PROVE  StoreInv'
<1>1. TypeOK'
  BY DEF StoreInv, TypeOK, CountGet, Keep, ReadCount, Goto, Locals, Point, KeyOf, Invocation, locks, sweeping
<1>2. /\ pc'[g] = "setGet" /\ local'[g].count = active[KeyOf(g)]
      /\ local'[g].inrec = local[g].inrec /\ local'[g].todo = local[g].todo
  BY DEF StoreInv, TypeOK, CountGet, Keep, ReadCount, Goto, Locals, At
<1>3. \A d \in Goroutine \ {g} :
         pc'[d] = pc[d] /\ call'[d] = call[d] /\ local'[d] = local[d]
  BY DEF StoreInv, TypeOK, CountGet, Keep, ReadCount, Goto
<1>4. KeyOf(g)' = KeyOf(g) /\ UNCHANGED <<heap, active, rlWriter>>
  BY DEF KeyOf, CountGet, locks
<1>5. Place(g)'
  BY <1>2, <1>4, Basics DEF Place, CountGet, Adding, Holding, Using, Setting, At, NoMap
<1> QED
  BY <1>1, <1>3, <1>4, <1>5, MoveInv DEF CountGet, At, locks

(* ModRefBy reads the counter.                                             *)
LEMMA CountModInv ==
  ASSUME StoreInv, NEW g \in Goroutine, CountMod(g)
  PROVE  StoreInv'
<1>1. TypeOK'
  BY DEF StoreInv, TypeOK, CountMod, Keep, ReadCount, Goto, Locals, Point, KeyOf, Invocation, locks, sweeping
<1>2. /\ pc'[g] = "setMod" /\ local'[g].count = active[KeyOf(g)]
      /\ local'[g].inrec = local[g].inrec /\ local'[g].todo = local[g].todo
  BY DEF StoreInv, TypeOK, CountMod, Keep, ReadCount, Goto, Locals, At
<1>3. \A d \in Goroutine \ {g} :
         pc'[d] = pc[d] /\ call'[d] = call[d] /\ local'[d] = local[d]
  BY DEF StoreInv, TypeOK, CountMod, Keep, ReadCount, Goto
<1>4. KeyOf(g)' = KeyOf(g) /\ UNCHANGED <<heap, active, rlWriter>>
  BY DEF KeyOf, CountMod, locks
<1>5. Place(g)'
  BY <1>2, <1>4, Basics DEF Place, CountMod, Adding, Holding, Using, Setting, At, NoMap
<1> QED
  BY <1>1, <1>3, <1>4, <1>5, MoveInv DEF CountMod, At, locks

(* RemoveByKey and RemoveByValue look the record up.                       *)
LEMMA PeekInv ==
  ASSUME StoreInv, NEW g \in Goroutine, Peek(g)
  PROVE  StoreInv'
<1>1. TypeOK'
  BY DEF StoreInv, TypeOK, Peek, Keep, Goto, Locals, Point, KeyOf, Invocation, locks, sweeping
<1>2. /\ pc'[g] = "strip" /\ local'[g].inrec = records[KeyOf(g)]
      /\ local'[g].todo = local[g].todo
  BY DEF StoreInv, TypeOK, Peek, Keep, Goto, Locals, At
<1>3. \A d \in Goroutine \ {g} :
         pc'[d] = pc[d] /\ call'[d] = call[d] /\ local'[d] = local[d]
  BY DEF StoreInv, TypeOK, Peek, Keep, ReadCount, Goto
<1>4. KeyOf(g)' = KeyOf(g) /\ UNCHANGED <<heap, active, rlWriter>>
  BY DEF KeyOf, Peek, locks
<1>5. Place(g)'
  BY <1>2, <1>4, Basics DEF Place, Peek, Adding, Holding, Using, Setting, At, NoMap
<1> QED
  BY <1>1, <1>3, <1>4, <1>5, MoveInv DEF Peek, At, locks

(* Get, or AdjustRef, looks for the record.                                *)
LEMMA HasInv ==
  ASSUME StoreInv, NEW g \in Goroutine, Has(g)
  PROVE  StoreInv'
<1>1. TypeOK'
  <2>1. local' \in [Goroutine -> Locals] /\ pc' \in [Goroutine -> Point]
    <3>1. CASE Stored(g)
      <4>1. Goto(g, "read") /\ local' = local /\ "read" \in Point
        BY <3>1 DEF Has, Point
      <4> QED
        BY <4>1, GotoType DEF StoreInv, TypeOK
    <3>2. CASE ~Stored(g)
      BY <3>2, GotoType DEF StoreInv, Has
    <3> QED
      BY <3>1, <3>2
  <2> QED
    BY <2>1 DEF StoreInv, TypeOK, Has, locks, sweeping
<1>2. \A d \in Goroutine \ {g} :
         pc'[d] = pc[d] /\ call'[d] = call[d] /\ local'[d] = local[d]
  BY DEF StoreInv, TypeOK, Has, Return, Goto
<1>3. KeyOf(g)' = KeyOf(g) /\ UNCHANGED <<heap, active, rlWriter>>
  BY DEF KeyOf, Has, locks
<1>4. CASE Stored(g)
  <2>1. pc'[g] = "read" /\ local' = local
    BY <1>4 DEF StoreInv, TypeOK, Has, Goto
  <2>2. Place(g)'
    BY <1>3, <1>4, <2>1, Basics DEF Place, Has, Adding, Holding, Using, Setting, At
  <2> QED
    BY <1>1, <1>2, <1>3, <2>2, MoveInv DEF Has, At, locks
<1>5. CASE ~Stored(g)
  BY <1>1, <1>2, <1>3, <1>5, ReturnPlace, MoveInv DEF Has, At, locks
<1> QED
  BY <1>4, <1>5

(* Delete looks for the record.                                            *)
LEMMA CheckInv ==
  ASSUME StoreInv, NEW g \in Goroutine, Check(g)
  PROVE  StoreInv'
<1>1. TypeOK'
  <2>1. local' \in [Goroutine -> Locals] /\ pc' \in [Goroutine -> Point]
    <3>1. CASE Stored(g)
      <4>1. Goto(g, "erase") /\ local' = local /\ "erase" \in Point
        BY <3>1 DEF Check, Point
      <4> QED
        BY <4>1, GotoType DEF StoreInv, TypeOK
    <3>2. CASE ~Stored(g)
      BY <3>2, GotoType DEF StoreInv, Check
    <3> QED
      BY <3>1, <3>2
  <2> QED
    BY <2>1 DEF StoreInv, TypeOK, Check, locks, sweeping
<1>2. \A d \in Goroutine \ {g} :
         pc'[d] = pc[d] /\ call'[d] = call[d] /\ local'[d] = local[d]
  BY DEF StoreInv, TypeOK, Check, Return, Goto
<1>3. KeyOf(g)' = KeyOf(g) /\ UNCHANGED <<heap, active, rlWriter>>
  BY DEF KeyOf, Check, locks
<1>4. CASE Stored(g)
  <2>1. pc'[g] = "erase" /\ local' = local
    BY <1>4 DEF StoreInv, TypeOK, Check, Goto
  <2>2. Counted(KeyOf(g))
    BY <1>4, Basics DEF StoreInv, RecordsInv, Stored
  <2>3. Counted(KeyOf(g))'
    BY <1>2, <1>3, <2>2, Basics DEF Counted, At, KeyOf, Check
  <2>4. Place(g)'
    BY <1>3, <2>1, <2>3, Basics DEF Place, Adding, Holding, Using, Setting
  <2> QED
    BY <1>1, <1>2, <1>3, <2>4, MoveInv DEF Check, At, locks
<1>5. CASE ~Stored(g)
  BY <1>1, <1>2, <1>3, <1>5, ReturnPlace, MoveInv DEF Check, At, locks
<1> QED
  BY <1>4, <1>5

(* AddRef and AdjustRef look for the record.                               *)
LEMMA HasRefInv ==
  ASSUME StoreInv, NEW g \in Goroutine, HasRef(g)
  PROVE  StoreInv'
<1>1. CanRead /\ At(g, "hasRef")
  BY DEF HasRef
<1>2. KeyOf(g)' = KeyOf(g)
      /\ UNCHANGED <<records, heap, tainted, refs, active, locks, call, sweeping, touched>>
  BY DEF KeyOf, HasRef
<1>3. CASE call[g].op # "AddRef" /\ ~Stored(g)
  <2>1. Return(g)
    BY <1>3 DEF HasRef
  <2>2. TypeOK'
    BY <2>1 DEF StoreInv, TypeOK, HasRef, Return, Goto, Blank, Locals, Point, locks, sweeping
  <2>3. \A d \in Goroutine \ {g} :
          pc'[d] = pc[d] /\ call'[d] = call[d] /\ local'[d] = local[d]
    BY <1>2, <2>1 DEF StoreInv, TypeOK, Return, Goto
  <2> QED
    BY <1>1, <1>2, <2>1, <2>2, <2>3, ReturnPlace, MoveInv DEF At, locks
<1>4. CASE call[g].op = "AddRef" \/ Stored(g)
  <2> DEFINE point == IF call[g].op # "AddRef" THEN "has"
                      ELSE IF Stored(g) THEN "pull" ELSE "find"
  <2>1. Goto(g, point) /\ local' = local
    <3>1. CASE call[g].op = "AddRef"
      BY <3>1 DEF HasRef, Goto
    <3>2. CASE call[g].op # "AddRef"
      BY <1>4, <3>2 DEF HasRef, Goto
    <3> QED
      BY <3>1, <3>2
  <2>2. point \in Point
    BY DEF Point
  <2>3. TypeOK'
    BY <2>1, <2>2 DEF StoreInv, TypeOK, HasRef, Goto, locks, sweeping
  <2>4. /\ pc'[g] = point
        /\ \A d \in Goroutine \ {g} :
             pc'[d] = pc[d] /\ call'[d] = call[d] /\ local'[d] = local[d]
    BY <1>2, <2>1 DEF StoreInv, TypeOK, Goto
  <2>5. Place(g)'
    BY <1>1, <1>2, <2>1, <2>4, Basics DEF Place, Adding, Holding, Using, Setting, At
  <2> QED
    BY <1>1, <1>2, <2>3, <2>4, <2>5, MoveInv DEF At, locks
<1> QED
  BY <1>3, <1>4

(* ModRefBy reads the reference value of its map.                          *)
LEMMA PullInv ==
  ASSUME StoreInv, NEW g \in Goroutine, Pull(g)
  PROVE  StoreInv'
<1>1. At(g, "pull") /\ KeyOf(g)' = KeyOf(g)
      /\ UNCHANGED <<records, heap, tainted, refs, active, locks, call, sweeping, touched>>
  BY DEF Pull, KeyOf
<1>2. heap[local[g].rec].ref \in RefValue \cup {NoRef}
  <2>1. local[g].rec \in 1..Len(heap)
    BY <1>1, Basics DEF Place, At
  <2>2. heap[local[g].rec] \in Contents
    BY <2>1, ElementOfSeq DEF StoreInv, TypeOK
  <2> QED
    BY <2>2 DEF Contents
<1>3. CASE heap[local[g].rec].ref = NoRef
  <2>1. Return(g)
    BY <1>3 DEF Pull
  <2>2. TypeOK'
    BY <2>1 DEF StoreInv, TypeOK, Pull, Return, Goto, Blank, Locals, Point, locks, sweeping
  <2>3. \A d \in Goroutine \ {g} :
          pc'[d] = pc[d] /\ call'[d] = call[d] /\ local'[d] = local[d]
    BY <1>1, <2>1 DEF StoreInv, TypeOK, Return, Goto
  <2> QED
    BY <1>1, <2>1, <2>2, <2>3, ReturnPlace, MoveInv DEF At, locks
<1>4. CASE heap[local[g].rec].ref # NoRef
  <2>1. Keep(g, "want", heap[local[g].rec].ref) /\ Goto(g, "link")
    BY <1>4 DEF Pull
  <2>2. TypeOK'
    BY <1>2, <2>1 DEF StoreInv, TypeOK, Pull, Keep, Goto, Locals, Point, locks, sweeping
  <2>3. /\ pc'[g] = "link" /\ local'[g].want = heap[local[g].rec].ref
        /\ local'[g].inrec = local[g].inrec /\ local'[g].todo = local[g].todo
        /\ \A d \in Goroutine \ {g} :
             pc'[d] = pc[d] /\ call'[d] = call[d] /\ local'[d] = local[d]
    BY <1>1, <2>1 DEF StoreInv, TypeOK, Keep, Goto, Locals
  <2>4. Place(g)'
    BY <1>1, <1>2, <1>4, <2>3, Basics DEF Place, Adding, Holding, Using, Setting, At
  <2> QED
    BY <1>1, <2>2, <2>3, <2>4, MoveInv DEF At, locks
<1> QED
  BY <1>3, <1>4

(* GetByRef takes the keys of its value and rl.                            *)
LEMMA RefsLoopInv ==
  ASSUME StoreInv, NEW g \in Goroutine, Refs(g)
  PROVE  StoreInv'
<1> DEFINE listed == ListedUnder(call[g].with.ref)
<1>1. At(g, "refs") /\ KeyOf(g)' = KeyOf(g)
      /\ UNCHANGED <<records, heap, tainted, refs, active, rlWriter, call, sweeping, touched>>
  BY DEF Refs, KeyOf
<1>2. listed \subseteq Key
  BY DEF ListedUnder
<1>3. \A k \in listed : active[k] > 0
  BY <1>1, Basics DEF ListedUnder, StoreInv, RefsInv, Place, At
<1>4. CASE listed = {}
  <2>1. Return(g) /\ rlReaders' = rlReaders
    BY <1>4 DEF Refs
  <2>2. TypeOK'
    BY <2>1 DEF StoreInv, TypeOK, Refs, Return, Goto, Blank, Locals, Point, sweeping
  <2>3. \A d \in Goroutine \ {g} :
          pc'[d] = pc[d] /\ call'[d] = call[d] /\ local'[d] = local[d]
    BY <1>1, <2>1 DEF StoreInv, TypeOK, Return, Goto
  <2> QED
    BY <1>1, <2>1, <2>2, <2>3, ReturnPlace, MoveInv DEF At
<1>5. CASE listed # {}
  <2>1. Keep(g, "todo", listed) /\ Goto(g, "collect") /\ rlReaders' = rlReaders \cup {g}
    BY <1>5 DEF Refs
  <2> HIDE DEF listed
  <2>2. TypeOK'
    BY <1>2, <2>1 DEF StoreInv, TypeOK, Refs, Keep, Goto, Locals, Point, sweeping
  <2>3. /\ pc'[g] = "collect" /\ local'[g].todo = listed
        /\ local'[g].inrec = local[g].inrec
        /\ \A d \in Goroutine \ {g} :
             pc'[d] = pc[d] /\ call'[d] = call[d] /\ local'[d] = local[d]
    BY <1>1, <2>1 DEF StoreInv, TypeOK, Keep, Goto, Locals
  <2>4. Place(g)'
    BY <1>1, <1>3, <2>3, Basics DEF Place, Adding, Holding, Using, Setting
  <2> QED
    BY <1>1, <2>2, <2>3, <2>4, MoveInv DEF At
<1> QED
  BY <1>4, <1>5

(* GetByRef goes on to the next key.                                       *)
LEMMA CollectInv ==
  ASSUME StoreInv, NEW g \in Goroutine, NEW k \in Key, Collect(g, k)
  PROVE  StoreInv'
<1>1. /\ At(g, "collect") /\ k \in local[g].todo
      /\ call' = [call EXCEPT ![g].key = k]
      /\ local' = [local EXCEPT ![g].todo = @ \ {k}, ![g].count = active[k]]
      /\ Goto(g, "setRef")
      /\ UNCHANGED <<records, heap, tainted, deleted, refs, active, locks, answer, sweeping,
                     touched>>
  BY DEF Collect
<1>2. local[g] \in Locals /\ call[g] \in Invocation /\ active[k] \in 0..2
  BY DEF StoreInv, TypeOK
<1>3. /\ pc'[g] = "setRef" /\ call'[g] \in Invocation /\ call'[g].key = k
      /\ local'[g] \in Locals /\ local'[g].count = active[k]
      /\ local'[g].inrec = local[g].inrec /\ local'[g].todo = local[g].todo \ {k}
  BY <1>1, <1>2 DEF StoreInv, TypeOK, Goto, Locals, Invocation
<1>4. \A d \in Goroutine \ {g} :
         pc'[d] = pc[d] /\ call'[d] = call[d] /\ local'[d] = local[d]
  BY <1>1 DEF StoreInv, TypeOK, Goto
<1>5. /\ call' \in [Goroutine -> Invocation] /\ local' \in [Goroutine -> Locals]
      /\ pc' \in [Goroutine -> Point]
  BY <1>1, <1>3, <1>4 DEF StoreInv, TypeOK, Goto, Point
<1>6. TypeOK'
  BY <1>1, <1>5 DEF StoreInv, TypeOK, locks, sweeping
<1>7. active[k] > 0
  BY <1>1, Basics DEF Place
<1>8. Place(g)'
  BY <1>1, <1>3, <1>7, Basics DEF Place, KeyOf, Adding, Holding, Using, Setting
<1> QED
  BY <1>1, <1>4, <1>6, <1>8, MoveInv DEF At, locks

(* ClearDeleted empties a list nobody relies on.                           *)
LEMMA ClearDeletedInv ==
  ASSUME StoreInv, NEW g \in Goroutine, ClearDeleted(g)
  PROVE  StoreInv'
<1>1. At(g, "erase") /\ Return(g) /\ deleted' = {} /\ KeyOf(g)' = KeyOf(g)
      /\ UNCHANGED <<records, heap, tainted, refs, active, locks, call, answer, sweeping, touched>>
  BY DEF ClearDeleted, Erases, KeyOf
<1>2. TypeOK'
  BY <1>1 DEF StoreInv, TypeOK, Return, Goto, Blank, Locals, Point, locks, sweeping
<1>3. \A d \in Goroutine \ {g} :
         pc'[d] = pc[d] /\ call'[d] = call[d] /\ local'[d] = local[d]
  BY <1>1 DEF StoreInv, TypeOK, Return, Goto
<1> QED
  BY <1>1, <1>2, <1>3, ReturnPlace, MoveInv DEF At, locks

-----------------------------------------------------------------------------
(* Steps that change the store. *)

(* A step of g, put together.                                              *)
LEMMA StepInv ==
  ASSUME StoreInv, TypeOK', NEW g \in Goroutine, Place(g)', Growing,
         \A d \in Goroutine \ {g} :
           pc'[d] = pc[d] /\ call'[d] = call[d] /\ local'[d] = local[d],
         \A d \in Goroutine \ {g} : rlWriter = d => rlWriter' = d,
         RecordsInv', RefsInv', CleanInv'
  PROVE  StoreInv'
BY OthersPlace DEF StoreInv

(* A counter that was read where a record is stored becomes two.           *)
LEMMA BumpedIsTwo ==
  ASSUME StoreInv, NEW g \in Goroutine, pc[g] \in Setting
  PROVE  Bumped(g) = 2
<1>1. local[g].count \in 0..2 /\ local[g].count > 0
  BY Basics DEF Place, Locals
<1> QED
  BY <1>1 DEF Bumped

(* An access sets a counter to two, which clean is not there to read.      *)
LEMMA AccessInv ==
  ASSUME StoreInv, TypeOK', NEW g \in Goroutine, Place(g)', SetActive(g, 2),
         \A d \in Goroutine \ {g} :
           pc'[d] = pc[d] /\ call'[d] = call[d] /\ local'[d] = local[d],
         \A d \in Goroutine \ {g} : rlWriter = d => rlWriter' = d,
         UNCHANGED <<records, heap, tainted, refs, sweeping>>
  PROVE  StoreInv'
<1>1. active'[KeyOf(g)] = 2
      /\ \A k \in Key \ {KeyOf(g)} : active'[k] = active[k]
  BY Basics DEF SetActive, StoreInv, TypeOK
<1>2. \A k \in Key : active[k] > 0 => active'[k] > 0
  BY <1>1
<1>3. \A k \in Key : Counted(k) => Counted(k)'
  BY <1>1, <1>2 DEF Counted, At, KeyOf
<1>4. Growing
  BY <1>2, <1>3, Basics DEF Growing
<1>5. RecordsInv'
  BY <1>3 DEF StoreInv, RecordsInv, TaintedAreRecords
<1>6. RefsInv'
  BY <1>2 DEF StoreInv, RefsInv
<1>7. CleanInv'
  <2>1. dirty = {} /\ victim = {} /\ touched' = touched \cup {KeyOf(g)}
    BY DEF SetActive, StoreInv, CleanInv
  <2>2. \A k \in touched' : active'[k] = 2
    BY <1>1, <2>1 DEF StoreInv, CleanInv, TypeOK
  <2> QED
    BY <2>1, <2>2 DEF CleanInv, SurvivesAccess, sweeping
<1> QED
  BY <1>4, <1>5, <1>6, <1>7, StepInv

(* Add, or ModRefBy's Add, is done.                                        *)
LEMMA AfterAddFacts ==
  ASSUME StoreInv, NEW g \in Goroutine, AfterAdd(g), pc[g] \in Adding, UNCHANGED <<heap, call>>,
         active'[KeyOf(g)] > 0
  PROVE  /\ local' \in [Goroutine -> Locals] /\ pc' \in [Goroutine -> Point]
         /\ \A d \in Goroutine \ {g} : pc'[d] = pc[d] /\ local'[d] = local[d]
         /\ TypeOK' /\ (\A k \in Key : active[k] > 0 => active'[k] > 0) => Place(g)'
<1>1. CASE Return(g)
  <2>1. local' \in [Goroutine -> Locals] /\ pc' \in [Goroutine -> Point]
    BY <1>1, GotoType DEF StoreInv
  <2>2. \A d \in Goroutine \ {g} : pc'[d] = pc[d] /\ local'[d] = local[d]
    BY <1>1 DEF Return, Goto, StoreInv, TypeOK
  <2> QED
    BY <1>1, <2>1, <2>2, ReturnPlace
<1>2. CASE Goto(g, "pull") /\ UNCHANGED local
  <2>1. local' \in [Goroutine -> Locals] /\ pc' \in [Goroutine -> Point]
    BY <1>2, GotoType DEF StoreInv, TypeOK, Point
  <2>2. pc'[g] = "pull" /\ \A d \in Goroutine \ {g} : pc'[d] = pc[d] /\ local'[d] = local[d]
    BY <1>2 DEF Goto, StoreInv, TypeOK
  <2>3. local[g].todo \subseteq Key /\ KeyOf(g)' = KeyOf(g)
    BY Basics DEF Locals, KeyOf
  <2>4. (\A k \in Key : active[k] > 0 => active'[k] > 0) => Place(g)'
    BY <1>2, <2>2, <2>3, Basics DEF Place, Adding, Holding, Using, Setting
  <2> QED
    BY <2>1, <2>2, <2>4
<1> QED
  BY <1>1, <1>2 DEF AfterAdd

(* What an access leaves of the types.                                     *)
LEMMA AccessType ==
  ASSUME StoreInv, NEW g \in Goroutine, SetActive(g, 2)
  PROVE  /\ active' \in [Key -> 0..2] /\ touched' \subseteq Key
         /\ active'[KeyOf(g)] = 2
         /\ \A k \in Key : active[k] > 0 => active'[k] > 0
BY Basics DEF SetActive, StoreInv, TypeOK

(* A new record has its counter.                                           *)
LEMMA CountNewInv ==
  ASSUME StoreInv, NEW g \in Goroutine, CountNew(g)
  PROVE  StoreInv'
<1>1. /\ At(g, "countNew") /\ SetActive(g, 2) /\ rlWriter' = NoOne /\ AfterAdd(g)
      /\ UNCHANGED <<records, heap, tainted, deleted, refs, rlReaders, call, answer, sweeping>>
  BY DEF CountNew
<1>2. pc[g] \in Adding /\ pc[g] \in Holding
  BY <1>1 DEF At, Adding, Holding
<1>3. TypeOK'
  BY <1>1, <1>2, AccessType, AfterAddFacts DEF StoreInv, TypeOK, sweeping
<1>4. Place(g)' /\ \A d \in Goroutine \ {g} :
                     pc'[d] = pc[d] /\ call'[d] = call[d] /\ local'[d] = local[d]
  BY <1>1, <1>2, <1>3, AccessType, AfterAddFacts
<1>5. \A d \in Goroutine \ {g} : rlWriter # d
  BY <1>2, Basics DEF Place
<1> QED
  BY <1>1, <1>3, <1>4, <1>5, AccessInv

(* A merged record has its counter.                                        *)
LEMMA SetOldInv ==
  ASSUME StoreInv, NEW g \in Goroutine, SetOld(g)
  PROVE  StoreInv'
<1>1. /\ At(g, "setOld") /\ SetActive(g, 2) /\ rlWriter' = NoOne /\ AfterAdd(g)
      /\ UNCHANGED <<records, heap, tainted, deleted, refs, rlReaders, call, answer, sweeping>>
  BY BumpedIsTwo DEF SetOld, At, Setting
<1>2. pc[g] \in Adding /\ pc[g] \in Holding
  BY <1>1 DEF At, Adding, Holding
<1>3. TypeOK'
  BY <1>1, <1>2, AccessType, AfterAddFacts DEF StoreInv, TypeOK, sweeping
<1>4. Place(g)' /\ \A d \in Goroutine \ {g} :
                     pc'[d] = pc[d] /\ call'[d] = call[d] /\ local'[d] = local[d]
  BY <1>1, <1>2, <1>3, AccessType, AfterAddFacts
<1>5. \A d \in Goroutine \ {g} : rlWriter # d
  BY <1>2, Basics DEF Place
<1> QED
  BY <1>1, <1>3, <1>4, <1>5, AccessInv

(* Get counts its access; AdjustRef goes on with the record.               *)
LEMMA SetGetInv ==
  ASSUME StoreInv, NEW g \in Goroutine, SetGet(g)
  PROVE  StoreInv'
<1>1. /\ At(g, "setGet") /\ SetActive(g, 2) /\ KeyOf(g)' = KeyOf(g)
      /\ UNCHANGED <<records, heap, tainted, deleted, refs, locks, call, answer, sweeping>>
  BY BumpedIsTwo DEF SetGet, At, Setting, KeyOf
<1>2. CASE call[g].op = "AdjustRef" /\ local[g].inrec # NoMap
  <2>1. Keep(g, "rec", local[g].inrec) /\ Goto(g, "pull")
    BY <1>2 DEF SetGet
  <2>2. local' \in [Goroutine -> Locals] /\ pc' \in [Goroutine -> Point]
    BY <2>1, Basics DEF StoreInv, TypeOK, Keep, Goto, Locals, Point
  <2>3. TypeOK'
    BY <1>1, <2>2, AccessType DEF StoreInv, TypeOK, locks, sweeping
  <2>4. /\ pc'[g] = "pull" /\ local'[g].rec = local[g].inrec
        /\ local'[g].inrec = local[g].inrec /\ local'[g].todo = local[g].todo
        /\ \A d \in Goroutine \ {g} :
             pc'[d] = pc[d] /\ call'[d] = call[d] /\ local'[d] = local[d]
    BY <1>1, <2>1 DEF StoreInv, TypeOK, Keep, Goto, Locals
  <2>5. local[g].todo \subseteq Key
    BY Basics DEF Locals
  <2>6. local[g].inrec \in 1..Len(heap)
    BY <1>2, Basics DEF Place, NoMap
  <2>7. Place(g)'
    BY <1>1, <2>4, <2>5, <2>6, Basics, AccessType DEF Place, Adding, Holding, Using, Setting
  <2> QED
    BY <1>1, <2>3, <2>4, <2>7, AccessInv DEF locks
<1>3. CASE ~(call[g].op = "AdjustRef" /\ local[g].inrec # NoMap)
  <2>1. Return(g)
    BY <1>3 DEF SetGet
  <2>2. local' \in [Goroutine -> Locals] /\ pc' \in [Goroutine -> Point]
    BY <2>1, GotoType DEF StoreInv
  <2>3. TypeOK'
    BY <1>1, <2>2, AccessType DEF StoreInv, TypeOK, locks, sweeping
  <2>4. \A d \in Goroutine \ {g} :
          pc'[d] = pc[d] /\ call'[d] = call[d] /\ local'[d] = local[d]
    BY <1>1, <2>1 DEF StoreInv, TypeOK, Return, Goto
  <2> QED
    BY <1>1, <2>1, <2>3, <2>4, ReturnPlace, AccessInv DEF locks
<1> QED
  BY <1>2, <1>3

(* ModRefBy counts its access and returns.                                 *)
LEMMA SetModInv ==
  ASSUME StoreInv, NEW g \in Goroutine, SetMod(g)
  PROVE  StoreInv'
<1>1. /\ SetActive(g, 2) /\ Return(g) /\ rlReaders' = rlReaders \ {g}
      /\ UNCHANGED <<records, heap, tainted, deleted, refs, rlWriter, call, answer, sweeping>>
  BY BumpedIsTwo DEF SetMod, At, Setting
<1>2. local' \in [Goroutine -> Locals] /\ pc' \in [Goroutine -> Point]
  BY <1>1, GotoType DEF StoreInv
<1>3. TypeOK'
  BY <1>1, <1>2, AccessType DEF StoreInv, TypeOK, sweeping
<1>4. \A d \in Goroutine \ {g} :
        pc'[d] = pc[d] /\ call'[d] = call[d] /\ local'[d] = local[d]
  BY <1>1 DEF StoreInv, TypeOK, Return, Goto
<1> QED
  BY <1>1, <1>3, <1>4, ReturnPlace, AccessInv

(* GetByRef counts its access to a record.                                 *)
LEMMA SetRefInv ==
  ASSUME StoreInv, NEW g \in Goroutine, SetRef(g)
  PROVE  StoreInv'
<1>1. /\ At(g, "setRef") /\ SetActive(g, 2) /\ KeyOf(g)' = KeyOf(g)
      /\ answer' = [answer EXCEPT ![g] = @ \cup {records[KeyOf(g)]}]
      /\ UNCHANGED <<records, heap, tainted, deleted, refs, rlWriter, call, sweeping>>
  BY BumpedIsTwo DEF SetRef, At, Setting, KeyOf
<1>2. answer' \in [Goroutine -> SUBSET (Map \cup {NoMap})]
  BY <1>1, Basics DEF StoreInv, TypeOK
<1>3. CASE local[g].todo = {}
  <2>1. Return(g) /\ rlReaders' = rlReaders \ {g}
    BY <1>3 DEF SetRef
  <2>2. local' \in [Goroutine -> Locals] /\ pc' \in [Goroutine -> Point]
    BY <2>1, GotoType DEF StoreInv
  <2>3. TypeOK'
    BY <1>1, <1>2, <2>1, <2>2, AccessType DEF StoreInv, TypeOK, sweeping
  <2>4. \A d \in Goroutine \ {g} :
          pc'[d] = pc[d] /\ call'[d] = call[d] /\ local'[d] = local[d]
    BY <1>1, <2>1 DEF StoreInv, TypeOK, Return, Goto
  <2> QED
    BY <1>1, <2>1, <2>3, <2>4, ReturnPlace, AccessInv
<1>4. CASE local[g].todo # {}
  <2>1. Goto(g, "collect") /\ UNCHANGED <<local, rlReaders>>
    BY <1>4 DEF SetRef
  <2>2. pc' \in [Goroutine -> Point]
    BY <2>1, GotoType DEF StoreInv, Point
  <2>3. TypeOK'
    BY <1>1, <1>2, <2>1, <2>2, AccessType DEF StoreInv, TypeOK, sweeping
  <2>4. pc'[g] = "collect" /\ \A d \in Goroutine \ {g} :
          pc'[d] = pc[d] /\ call'[d] = call[d] /\ local'[d] = local[d]
    BY <1>1, <2>1 DEF StoreInv, TypeOK, Goto
  <2>5. local[g].todo \subseteq Key
    BY Basics DEF Locals
  <2>6. Place(g)'
    BY <1>1, <2>1, <2>4, <2>5, Basics, AccessType DEF Place, Adding, Holding, Using, Setting
  <2> QED
    BY <1>1, <2>3, <2>4, <2>6, AccessInv
<1> QED
  BY <1>3, <1>4

(* Add stores its map, and holds rl until the map has a counter.           *)
LEMMA InsertInv ==
  ASSUME StoreInv, NEW g \in Goroutine, Insert(g)
  PROVE  StoreInv'
<1>1. /\ At(g, "insert") /\ CanWrite /\ rlWriter' = g /\ Goto(g, "countNew")
      /\ records' = [records EXCEPT ![KeyOf(g)] = local[g].rec] /\ KeyOf(g)' = KeyOf(g)
      /\ UNCHANGED <<heap, tainted, deleted, refs, active, rlReaders, call, local, answer,
                     sweeping, touched>>
  BY DEF Insert, KeyOf
<1>2. local[g].rec \in 1..Len(heap) /\ local[g].rec \in Map
  <2>1. local[g].rec \in 1..Len(heap)
    BY <1>1, Basics DEF Place, At, Adding
  <2> QED
    BY <2>1, Basics DEF Locals, NoMap
<1>3. pc'[g] = "countNew" /\ pc' \in [Goroutine -> Point]
      /\ \A d \in Goroutine \ {g} :
           pc'[d] = pc[d] /\ call'[d] = call[d] /\ local'[d] = local[d]
  BY <1>1, GotoType DEF StoreInv, TypeOK, Goto, Point
<1>4. TypeOK'
  BY <1>1, <1>2, <1>3, Basics DEF StoreInv, TypeOK, sweeping
<1>5. \A k \in Key : Counted(k) => active[k] > 0
  BY <1>1, CountedNow DEF CanRead, CanWrite
<1>6. Growing
  BY <1>1, <1>5, Basics DEF Growing, Counted
<1>7. RecordsInv'
  <2>1. \A k \in Key : records'[k] = IF k = KeyOf(g) THEN local[g].rec ELSE records[k]
    BY <1>1 DEF StoreInv, TypeOK
  <2>2. \A k \in Key : k = KeyOf(g) => Counted(k)'
    BY <1>1, <1>3 DEF Counted, At
  <2>3. ASSUME NEW k \in Key, records'[k] # NoMap PROVE Counted(k)'
    <3>1. k # KeyOf(g) => Counted(k)
      BY <2>1, <2>3 DEF StoreInv, RecordsInv
    <3> QED
      BY <1>6, <2>2, <3>1 DEF Growing
  <2> QED
    BY <1>1, <1>2, <2>1, <2>3, Basics DEF StoreInv, TypeOK, RecordsInv, TaintedAreRecords, NoMap
<1>8. RefsInv' /\ CleanInv'
  BY <1>1 DEF StoreInv, RefsInv, CleanInv, SurvivesAccess, sweeping
<1>9. Place(g)'
  BY <1>1, <1>2, <1>3, Basics DEF Place, Adding, Holding, Using, Setting, At
<1>10. rlWriter = NoOne
  BY <1>1 DEF CanWrite
<1> QED
  BY <1>1, <1>3, <1>4, <1>6, <1>7, <1>8, <1>9, <1>10, NoOneIsNone, StepInv

(* MergeMaps writes into the map that was found.                           *)
LEMMA MergeInv ==
  ASSUME StoreInv, NEW g \in Goroutine, Merge(g)
  PROVE  StoreInv'
<1>1. /\ At(g, "merge") /\ Goto(g, "store") /\ KeyOf(g)' = KeyOf(g)
      /\ heap' = [heap EXCEPT ![local[g].inrec] = MergeMaps(@, heap[local[g].rec])]
      /\ UNCHANGED <<records, tainted, deleted, refs, active, locks, call, local, answer,
                     sweeping, touched>>
  BY DEF Merge, KeyOf
<1>2. local[g].inrec \in 1..Len(heap) /\ local[g].rec \in 1..Len(heap)
  BY <1>1, Basics DEF Place, At, Adding
<1>3. MergeMaps(heap[local[g].inrec], heap[local[g].rec]) \in Contents
  <2>1. heap[local[g].inrec] \in Contents /\ heap[local[g].rec] \in Contents
    BY <1>2, ElementOfSeq DEF StoreInv, TypeOK
  <2> QED
    BY <2>1 DEF MergeMaps, Contents
<1>4. heap' \in Seq(Contents) /\ Len(heap') = Len(heap)
  BY <1>1, <1>2, <1>3, ExceptSeq DEF StoreInv, TypeOK
<1>5. pc'[g] = "store" /\ pc' \in [Goroutine -> Point]
      /\ \A d \in Goroutine \ {g} :
           pc'[d] = pc[d] /\ call'[d] = call[d] /\ local'[d] = local[d]
  BY <1>1, GotoType DEF StoreInv, TypeOK, Goto, Point
<1>6. TypeOK'
  BY <1>1, <1>4, <1>5 DEF StoreInv, TypeOK, locks, sweeping
<1>7. \A k \in Key : Counted(k) => Counted(k)'
  BY <1>1, <1>5 DEF Counted, At, KeyOf
<1>8. Growing
  BY <1>1, <1>4, <1>7, Basics DEF Growing
<1>9. RecordsInv'
  BY <1>1, <1>4, <1>7 DEF StoreInv, RecordsInv, TaintedAreRecords
<1>10. RefsInv' /\ CleanInv'
  BY <1>1 DEF StoreInv, RefsInv, CleanInv, SurvivesAccess, sweeping
<1>11. Place(g)'
  BY <1>1, <1>2, <1>4, <1>5, Basics DEF Place, Adding, Holding, Using, Setting, At
<1> QED
  BY <1>1, <1>5, <1>6, <1>8, <1>9, <1>10, <1>11, StepInv DEF locks

(* RemoveByKey and RemoveByValue write into the map they found.            *)
LEMMA StripInv ==
  ASSUME StoreInv, NEW g \in Goroutine, Strip(g)
  PROVE  StoreInv'
<1> DEFINE left == Stripped(heap[local[g].inrec], call[g].with, call[g].op = "RemoveByValue")
<1>1. /\ At(g, "strip") /\ Return(g) /\ KeyOf(g)' = KeyOf(g)
      /\ heap' = IF local[g].inrec = NoMap THEN heap
                 ELSE [heap EXCEPT ![local[g].inrec] = left]
      /\ UNCHANGED <<records, tainted, deleted, refs, active, locks, call, answer, sweeping,
                     touched>>
  BY DEF Strip, KeyOf
<1>2. heap' \in Seq(Contents) /\ Len(heap') = Len(heap)
  <2>1. CASE local[g].inrec = NoMap
    BY <1>1, <2>1 DEF StoreInv, TypeOK
  <2>2. CASE local[g].inrec # NoMap
    <3>1. local[g].inrec \in 1..Len(heap)
      BY <2>2, Basics DEF Place, NoMap
    <3>2. heap[local[g].inrec] \in Contents
      BY <3>1, ElementOfSeq DEF StoreInv, TypeOK
    <3>3. left \in Contents
      BY <3>2 DEF Stripped, Contents
    <3> QED
      BY <1>1, <2>2, <3>1, <3>3, ExceptSeq DEF StoreInv, TypeOK
  <2> QED
    BY <2>1, <2>2
<1>3. local' \in [Goroutine -> Locals] /\ pc' \in [Goroutine -> Point]
      /\ \A d \in Goroutine \ {g} :
           pc'[d] = pc[d] /\ call'[d] = call[d] /\ local'[d] = local[d]
  BY <1>1, GotoType DEF StoreInv, TypeOK, Return, Goto
<1>4. TypeOK'
  BY <1>1, <1>2, <1>3 DEF StoreInv, TypeOK, locks, sweeping
<1>5. \A k \in Key : Counted(k) => Counted(k)'
  BY <1>1, <1>3 DEF Counted, At, KeyOf
<1>6. Growing
  BY <1>1, <1>2, <1>5, Basics DEF Growing
<1>7. RecordsInv'
  BY <1>1, <1>2, <1>5 DEF StoreInv, RecordsInv, TaintedAreRecords
<1>8. RefsInv' /\ CleanInv'
  BY <1>1 DEF StoreInv, RefsInv, CleanInv, SurvivesAccess, sweeping
<1> QED
  BY <1>1, <1>3, <1>4, <1>6, <1>7, <1>8, ReturnPlace, StepInv DEF locks

(* Add stores the map it merged into, which may have been removed          *)
(* meanwhile, and taints the key.                                          *)
LEMMA StoreMergedInv ==
  ASSUME StoreInv, NEW g \in Goroutine, StoreMerged(g)
  PROVE  StoreInv'
<1>1. /\ At(g, "store") /\ CanWrite /\ rlWriter' = g /\ Goto(g, "countOld")
      /\ records' = [records EXCEPT ![KeyOf(g)] = local[g].inrec] /\ KeyOf(g)' = KeyOf(g)
      /\ tainted' = tainted \cup {KeyOf(g)}
      /\ UNCHANGED <<heap, deleted, refs, active, rlReaders, call, local, answer, sweeping,
                     touched>>
  BY DEF StoreMerged, KeyOf
<1>2. local[g].inrec \in 1..Len(heap) /\ local[g].inrec \in Map /\ active[KeyOf(g)] > 0
  <2>1. local[g].inrec \in 1..Len(heap) /\ active[KeyOf(g)] > 0
    BY <1>1, Basics DEF Place, At, Using
  <2> QED
    BY <2>1, Basics DEF Locals, NoMap
<1>3. pc'[g] = "countOld" /\ pc' \in [Goroutine -> Point]
      /\ \A d \in Goroutine \ {g} :
           pc'[d] = pc[d] /\ call'[d] = call[d] /\ local'[d] = local[d]
  BY <1>1, GotoType DEF StoreInv, TypeOK, Goto, Point
<1>4. TypeOK'
  BY <1>1, <1>2, <1>3, Basics DEF StoreInv, TypeOK, sweeping
<1>5. \A k \in Key : Counted(k) => Counted(k)'
  BY <1>1, <1>3 DEF Counted, At, KeyOf
<1>6. Growing
  BY <1>1, <1>5, Basics DEF Growing
<1>7. RecordsInv'
  <2>1. \A k \in Key : records'[k] = IF k = KeyOf(g) THEN local[g].inrec ELSE records[k]
    BY <1>1 DEF StoreInv, TypeOK
  <2>2. \A k \in Key : k = KeyOf(g) => Counted(k)'
    BY <1>1, <1>2 DEF Counted
  <2>3. ASSUME NEW k \in Key, records'[k] # NoMap PROVE Counted(k)'
    <3>1. k # KeyOf(g) => Counted(k)
      BY <2>1, <2>3 DEF StoreInv, RecordsInv
    <3> QED
      BY <1>5, <2>2, <3>1
  <2> QED
    BY <1>1, <1>2, <2>1, <2>3, Basics DEF StoreInv, TypeOK, RecordsInv, TaintedAreRecords, NoMap
<1>8. RefsInv' /\ CleanInv'
  BY <1>1 DEF StoreInv, RefsInv, CleanInv, SurvivesAccess, sweeping
<1>9. local[g].rec \in 1..Len(heap)
  BY <1>1, Basics DEF Place, At, Adding
<1>10. Place(g)'
  BY <1>1, <1>2, <1>3, <1>9, Basics DEF Place, Adding, Holding, Using, Setting, At
<1>11. rlWriter = NoOne
  BY <1>1 DEF CanWrite
<1> QED
  BY <1>1, <1>3, <1>4, <1>6, <1>7, <1>8, <1>10, <1>11, NoOneIsNone, StepInv

(* ModRefBy links every record that has the value.                         *)
LEMMA LinkInv ==
  ASSUME StoreInv, NEW g \in Goroutine, Link(g)
  PROVE  StoreInv'
<1> DEFINE want == local[g].want
           linked == [k \in Key |-> IF k \in Referring(want) THEN "true" ELSE refs[want][k]]
<1>1. /\ At(g, "link") /\ CanRead /\ Goto(g, "countMod") /\ KeyOf(g)' = KeyOf(g)
      /\ rlReaders' = rlReaders \cup {g}
      /\ refs' = [refs EXCEPT ![want] = linked]
      /\ UNCHANGED <<records, heap, tainted, deleted, active, rlWriter, call, local, answer,
                     sweeping, touched>>
  BY DEF Link, KeyOf
<1>2. want \in RefValue /\ active[KeyOf(g)] > 0
  BY <1>1, Basics DEF Place, At, Using
<1>3. \A k \in Referring(want) : k \in Key /\ active[k] > 0
  BY <1>1, CountedNow DEF Referring, StoreInv, RecordsInv
<1>4. refs' \in [RefValue -> [Key -> {"none", "true", "false"}]]
      /\ \A v \in RefValue, k \in Key :
           refs'[v][k] # "none" => refs[v][k] # "none" \/ k \in Referring(want)
  BY <1>1, <1>2 DEF StoreInv, TypeOK
<1>5. pc'[g] = "countMod" /\ pc' \in [Goroutine -> Point]
      /\ \A d \in Goroutine \ {g} :
           pc'[d] = pc[d] /\ call'[d] = call[d] /\ local'[d] = local[d]
  BY <1>1, GotoType DEF StoreInv, TypeOK, Goto, Point
<1>6. TypeOK'
  BY <1>1, <1>4, <1>5 DEF StoreInv, TypeOK, sweeping
<1>7. \A k \in Key : Counted(k) => Counted(k)'
  BY <1>1, <1>5 DEF Counted, At, KeyOf
<1>8. Growing
  BY <1>1, <1>7, Basics DEF Growing
<1>9. RecordsInv'
  BY <1>1, <1>7 DEF StoreInv, RecordsInv, TaintedAreRecords
<1>10. RefsInv'
  BY <1>1, <1>3, <1>4 DEF StoreInv, RefsInv
<1>11. CleanInv'
  BY <1>1 DEF StoreInv, CleanInv, SurvivesAccess, sweeping
<1>12. Place(g)'
  BY <1>1, <1>2, <1>5, Basics DEF Place, Adding, Holding, Using, Setting, At
<1> QED
  BY <1>1, <1>5, <1>6, <1>8, <1>9, <1>10, <1>11, <1>12, StepInv

(* A call that erases has rl to itself, and returns.                       *)
LEMMA ErasesFacts ==
  ASSUME StoreInv, NEW g \in Goroutine, NEW op, Erases(g, op)
  PROVE  /\ At(g, "erase") /\ call[g].op = op /\ CanRead /\ Return(g) /\ KeyOf(g) \in Key
         /\ UNCHANGED <<heap, active, locks, call, answer, sweeping, touched>>
         /\ local' \in [Goroutine -> Locals] /\ pc' \in [Goroutine -> Point]
         /\ \A d \in Goroutine \ {g} :
              pc'[d] = pc[d] /\ call'[d] = call[d] /\ local'[d] = local[d]
         /\ \A k \in Key : Counted(k) => Counted(k)'
         /\ Growing
<1>1. /\ At(g, "erase") /\ call[g].op = op /\ CanRead /\ Return(g)
      /\ UNCHANGED <<heap, active, locks, call, answer, sweeping, touched>>
  BY DEF Erases, CanRead, CanWrite
<1>2. /\ local' \in [Goroutine -> Locals] /\ pc' \in [Goroutine -> Point]
      /\ \A d \in Goroutine \ {g} :
           pc'[d] = pc[d] /\ call'[d] = call[d] /\ local'[d] = local[d]
  BY <1>1, GotoType DEF StoreInv, TypeOK, Return, Goto
<1>3. \A k \in Key : Counted(k) => Counted(k)'
  BY <1>1, <1>2 DEF Counted, At, KeyOf
<1>4. Growing
  BY <1>1, <1>3, Basics DEF Growing
<1> QED
  BY <1>1, <1>2, <1>3, <1>4, Basics

(* What Delete and Remove do to the records, clean's Delete included.      *)
LEMMA ForgetInv ==
  ASSUME StoreInv, NEW k \in Key, Forget(k), UNCHANGED heap,
         \A j \in Key : Counted(j) => Counted(j)'
  PROVE  /\ records' \in [Key -> Map \cup {NoMap}] /\ tainted' \subseteq Key
         /\ deleted' \subseteq Key /\ RecordsInv'
<1>1. /\ records' = [records EXCEPT ![k] = NoMap]
      /\ tainted' = tainted \ {k} /\ deleted' = deleted \cup {k}
  BY DEF Forget
<1>2. Len(heap) \in Nat
  BY LenProperties DEF StoreInv, TypeOK
<1>3. \A j \in Key : records'[j] = IF j = k THEN NoMap ELSE records[j]
  BY <1>1 DEF StoreInv, TypeOK
<1> QED
  BY <1>1, <1>2, <1>3 DEF StoreInv, TypeOK, RecordsInv, TaintedAreRecords, NoMap

(* UnSet lists a key under values only if it has a counter.                *)
LEMMA UnSetInv ==
  ASSUME StoreInv, NEW k \in Key, UnSet(k), active[k] > 0, UNCHANGED active
  PROVE  refs' \in [RefValue -> [Key -> {"none", "true", "false"}]] /\ RefsInv'
<1>1. /\ refs' \in [RefValue -> [Key -> {"none", "true", "false"}]]
      /\ \A v \in RefValue, j \in Key : refs'[v][j] # "none" => refs[v][j] # "none" \/ j = k
  BY DEF StoreInv, TypeOK, UnSet
<1> QED
  BY <1>1 DEF StoreInv, RefsInv

(* Delete.                                                                 *)
LEMMA DeleteInv ==
  ASSUME StoreInv, NEW g \in Goroutine, Delete(g)
  PROVE  StoreInv'
<1>1. Erases(g, "Delete") /\ Forget(KeyOf(g)) /\ UnSet(KeyOf(g))
  BY DEF Delete
<1>2. active[KeyOf(g)] > 0
  BY <1>1, ErasesFacts, Basics, CountedNow DEF Place, At
<1>3. /\ records' \in [Key -> Map \cup {NoMap}] /\ tainted' \subseteq Key
      /\ deleted' \subseteq Key /\ RecordsInv'
  BY <1>1, ErasesFacts, ForgetInv
<1>4. refs' \in [RefValue -> [Key -> {"none", "true", "false"}]] /\ RefsInv'
  BY <1>1, <1>2, ErasesFacts, UnSetInv
<1>5. TypeOK'
  BY <1>1, <1>3, <1>4, ErasesFacts DEF StoreInv, TypeOK, locks, sweeping
<1>6. CleanInv'
  BY <1>1, ErasesFacts DEF StoreInv, CleanInv, SurvivesAccess, sweeping
<1> QED
  BY <1>1, <1>3, <1>4, <1>5, <1>6, ErasesFacts, ReturnPlace, StepInv DEF locks

(* Remove.                                                                 *)
LEMMA RemoveInv ==
  ASSUME StoreInv, NEW g \in Goroutine, Remove(g)
  PROVE  StoreInv'
<1>1. Erases(g, "Remove") /\ Forget(KeyOf(g)) /\ refs' = refs
  BY DEF Remove
<1>2. /\ records' \in [Key -> Map \cup {NoMap}] /\ tainted' \subseteq Key
      /\ deleted' \subseteq Key /\ RecordsInv'
  BY <1>1, ErasesFacts, ForgetInv
<1>3. TypeOK'
  BY <1>1, <1>2, ErasesFacts DEF StoreInv, TypeOK, locks, sweeping
<1>4. RefsInv' /\ CleanInv'
  BY <1>1, ErasesFacts DEF StoreInv, RefsInv, CleanInv, SurvivesAccess, sweeping
<1> QED
  BY <1>1, <1>2, <1>3, <1>4, ErasesFacts, ReturnPlace, StepInv DEF locks

(* ClearTainted.                                                           *)
LEMMA ClearTaintedInv ==
  ASSUME StoreInv, NEW g \in Goroutine, ClearTainted(g)
  PROVE  StoreInv'
<1>1. Erases(g, "ClearTainted") /\ tainted' = {} /\ UNCHANGED <<records, deleted, refs>>
  BY DEF ClearTainted
<1>2. TypeOK'
  BY <1>1, ErasesFacts DEF StoreInv, TypeOK, locks, sweeping
<1>3. RecordsInv'
  BY <1>1, ErasesFacts DEF StoreInv, RecordsInv, TaintedAreRecords
<1>4. RefsInv' /\ CleanInv'
  BY <1>1, ErasesFacts DEF StoreInv, RefsInv, CleanInv, SurvivesAccess, sweeping
<1> QED
  BY <1>1, <1>2, <1>3, <1>4, ErasesFacts, ReturnPlace, StepInv DEF locks

(* A call begins.                                                          *)
LEMMA InvokeInv ==
  ASSUME StoreInv, NEW g \in Goroutine, NEW i \in Workload, Invoke(g, i)
  PROVE  StoreInv'
<1>1. /\ At(g, "done") /\ Goto(g, FirstStep(i.op)) /\ i \in Invocation
      /\ call' = [call EXCEPT ![g] = i] /\ answer' = [answer EXCEPT ![g] = {}]
      /\ UNCHANGED <<records, tainted, deleted, refs, active, locks, sweeping, touched>>
  BY WorkloadIsCalls DEF Invoke
<1>2. i.op \in Operation /\ i.with \in Contents /\ FirstStep(i.op) \in Point
  BY <1>1 DEF Invocation, Operation, PassesMap, FirstStep, Point
<1>3. /\ pc'[g] = FirstStep(i.op) /\ pc' \in [Goroutine -> Point]
      /\ call'[g] = i /\ call' \in [Goroutine -> Invocation]
      /\ \A d \in Goroutine \ {g} : pc'[d] = pc[d] /\ call'[d] = call[d]
  BY <1>1, <1>2, GotoType DEF StoreInv, TypeOK, Goto
<1>4. /\ heap' \in Seq(Contents) /\ Len(heap') <= MaxMaps /\ Len(heap) <= Len(heap')
      /\ local' \in [Goroutine -> Locals] /\ local'[g].inrec = local[g].inrec
      /\ local'[g].todo = local[g].todo
      /\ \A d \in Goroutine \ {g} : local'[d] = local[d]
      /\ i.op \in PassesMap => local'[g].rec \in 1..Len(heap')
  <2>1. CASE i.op \notin PassesMap
    BY <2>1, Basics DEF Invoke, StoreInv, TypeOK
  <2>2. CASE i.op \in PassesMap
    <3>1. Len(heap) < MaxMaps /\ heap' = Append(heap, i.with) /\ Keep(g, "rec", Len(heap) + 1)
      BY <2>2 DEF Invoke
    <3>2. heap' \in Seq(Contents) /\ Len(heap') = Len(heap) + 1
      BY <1>2, <3>1, AppendProperties DEF StoreInv, TypeOK
    <3>3. Len(heap) + 1 \in Map
      BY <3>1, Basics, MaxMapsIsNumber DEF Map
    <3>4. /\ local' \in [Goroutine -> Locals] /\ local'[g].inrec = local[g].inrec
          /\ local'[g].todo = local[g].todo /\ local'[g].rec = Len(heap) + 1
          /\ \A d \in Goroutine \ {g} : local'[d] = local[d]
      BY <3>1, <3>3 DEF StoreInv, TypeOK, Keep, Locals
    <3> QED
      BY <3>1, <3>2, <3>4, Basics, MaxMapsIsNumber
  <2> QED
    BY <2>1, <2>2
<1>5. TypeOK'
  BY <1>1, <1>3, <1>4 DEF StoreInv, TypeOK, locks, sweeping
<1>6. \A k \in Key : Counted(k) => Counted(k)'
  BY <1>1, <1>3 DEF Counted, At, KeyOf
<1>7. Growing
  BY <1>1, <1>4, <1>6 DEF Growing
<1>8. RecordsInv'
  <2>1. \A k \in Key : records[k] \in Nat
    BY DEF StoreInv, TypeOK, Map, NoMap
  <2>2. Len(heap') \in Nat
    BY <1>4, LenProperties
  <2> QED
    BY <1>1, <1>4, <1>6, <2>1, <2>2, Basics DEF StoreInv, RecordsInv, TaintedAreRecords
<1>9. RefsInv' /\ CleanInv'
  BY <1>1 DEF StoreInv, RefsInv, CleanInv, SurvivesAccess, sweeping
<1>10. Place(g)'
  <2>1. pc'[g] \in {"find", "hasRef", "has", "refs", "check", "peek", "erase"}
        /\ (pc'[g] = "find" => i.op \in PassesMap)
        /\ (pc'[g] = "refs" => i.op = "GetByRef") /\ (pc'[g] = "erase" => i.op # "Delete")
    BY <1>2, <1>3 DEF FirstStep, PassesMap, Operation
  <2>2. i.op = "GetByRef" => i.with.ref \in RefValue
    BY <1>2, LookupsAreOfValues DEF Contents
  <2>3. local'[g].inrec <= Len(heap') /\ Len(heap') \in Nat
    BY <1>4, Basics, LenProperties DEF Place
  <2>4. i.op = "AddRef" => i.op \in PassesMap
    BY DEF PassesMap
  <2> QED
    BY <1>1, <1>3, <1>4, <2>1, <2>2, <2>3, <2>4, Basics
       DEF Place, Adding, Holding, Using, Setting
<1> QED
  BY <1>1, <1>3, <1>4, <1>5, <1>7, <1>8, <1>9, <1>10, StepInv DEF locks

-----------------------------------------------------------------------------
(* Steps of clean.                                                         *)

(* A step of clean, put together.                                          *)
LEMMA SweepInv ==
  ASSUME StoreInv, TypeOK', UNCHANGED <<heap, locks, pc, call, local>>,
         \A k \in Key : active[k] > 0 => active'[k] > 0,
         (\A k \in Key : Counted(k) => Counted(k)') => RecordsInv', RefsInv', CleanInv'
  PROVE  StoreInv'
<1>1. \A k \in Key : Counted(k) => Counted(k)'
  BY DEF Counted, At, KeyOf
<1>2. Len(heap) \in Nat
  BY LenProperties DEF StoreInv, TypeOK
<1>3. Growing
  BY <1>1, <1>2 DEF Growing
<1>4. \A d \in Goroutine : Place(d)'
  BY <1>3, OthersPlace DEF locks
<1> QED
  BY <1>1, <1>4 DEF StoreInv

(* clean begins.                                                           *)
LEMMA StartCleanInv ==
  ASSUME StoreInv, StartClean
  PROVE  StoreInv'
<1>1. /\ cleaner = "asleep" /\ cleaner' = "sweep" /\ dirty' = {k \in Key : active[k] > 0}
      /\ UNCHANGED <<records, heap, tainted, deleted, refs, active, locks, pc, call, local,
                     answer, victim, touched>>
  BY DEF StartClean
<1>2. TypeOK'
  BY <1>1 DEF StoreInv, TypeOK, locks
<1>3. RecordsInv' /\ RefsInv'
  BY <1>1 DEF StoreInv, RecordsInv, TaintedAreRecords, RefsInv, Counted, At, KeyOf
<1>4. CleanInv'
  BY <1>1 DEF StoreInv, CleanInv, SurvivesAccess
<1> QED
  BY <1>1, <1>2, <1>3, <1>4, SweepInv

(* clean spares a key that was used.                                       *)
LEMMA SpareInv ==
  ASSUME StoreInv, NEW k \in Key, Spare(k)
  PROVE  StoreInv'
<1>1. /\ k \in dirty /\ victim = {} /\ dirty' = dirty \ {k} /\ touched' = touched \ {k}
      /\ active' = [active EXCEPT ![k] = 1]
      /\ UNCHANGED <<records, heap, tainted, deleted, refs, locks, pc, call, local, answer,
                     cleaner, victim>>
  BY DEF Spare
<1>2. \A j \in Key : active'[j] = IF j = k THEN 1 ELSE active[j]
  BY <1>1 DEF StoreInv, TypeOK
<1>3. TypeOK'
  BY <1>1 DEF StoreInv, TypeOK, locks
<1>4. (\A j \in Key : Counted(j) => Counted(j)') => RecordsInv'
  BY <1>1 DEF StoreInv, RecordsInv, TaintedAreRecords
<1>5. RefsInv'
  BY <1>1, <1>2 DEF StoreInv, RefsInv
<1>6. CleanInv'
  BY <1>1, <1>2 DEF StoreInv, TypeOK, CleanInv, SurvivesAccess
<1>7. \A j \in Key : active[j] > 0 => active'[j] > 0
  BY <1>2
<1> QED
  BY <1>1, <1>3, <1>4, <1>5, <1>6, <1>7, SweepInv

(* clean decides on a key that nobody used.                                *)
LEMMA DoomInv ==
  ASSUME StoreInv, NEW k \in Key, Doom(k)
  PROVE  StoreInv'
<1>1. /\ k \in dirty /\ victim = {} /\ dirty' = dirty \ {k} /\ victim' \subseteq {k}
      /\ active[k] <= 1
      /\ UNCHANGED <<records, heap, tainted, deleted, refs, active, locks, pc, call, local,
                     answer, cleaner, touched>>
  BY DEF Doom
<1>2. TypeOK'
  BY <1>1 DEF StoreInv, TypeOK, locks
<1>3. RecordsInv' /\ RefsInv'
  BY <1>1 DEF StoreInv, RecordsInv, TaintedAreRecords, RefsInv, Counted, At, KeyOf
<1>4. k \notin touched
  BY <1>1 DEF StoreInv, CleanInv
<1>5. CleanInv'
  BY <1>1, <1>4 DEF StoreInv, CleanInv, SurvivesAccess
<1> QED
  BY <1>1, <1>2, <1>3, <1>5, SweepInv

(* clean deletes it.                                                       *)
LEMMA CleanDeleteInv ==
  ASSUME StoreInv, NEW k \in Key, CleanDelete(k)
  PROVE  StoreInv'
<1>1. /\ k \in victim /\ victim' = {} /\ Forget(k) /\ UnSet(k)
      /\ UNCHANGED <<heap, active, locks, pc, call, local, answer, cleaner, dirty, touched>>
  BY DEF CleanDelete
<1>2. \A j \in Key : Counted(j) => Counted(j)'
  BY <1>1 DEF Counted, At, KeyOf
<1>3. /\ records' \in [Key -> Map \cup {NoMap}] /\ tainted' \subseteq Key
      /\ deleted' \subseteq Key /\ RecordsInv'
  BY <1>1, <1>2, ForgetInv
<1>4. active[k] > 0
  BY <1>1 DEF StoreInv, CleanInv
<1>5. refs' \in [RefValue -> [Key -> {"none", "true", "false"}]] /\ RefsInv'
  BY <1>1, <1>4, UnSetInv
<1>6. TypeOK'
  BY <1>1, <1>3, <1>5 DEF StoreInv, TypeOK, locks
<1>7. CleanInv'
  BY <1>1 DEF StoreInv, CleanInv, SurvivesAccess
<1> QED
  BY <1>1, <1>3, <1>5, <1>6, <1>7, SweepInv

(* clean is done.                                                          *)
LEMMA EndCleanInv ==
  ASSUME StoreInv, EndClean
  PROVE  StoreInv'
<1>1. /\ dirty = {} /\ victim = {} /\ cleaner' = "asleep"
      /\ UNCHANGED <<records, heap, tainted, deleted, refs, active, locks, pc, call, local,
                     answer, dirty, victim, touched>>
  BY DEF EndClean
<1>2. TypeOK'
  BY <1>1 DEF StoreInv, TypeOK, locks
<1>3. RecordsInv' /\ RefsInv'
  BY <1>1 DEF StoreInv, RecordsInv, TaintedAreRecords, RefsInv, Counted, At, KeyOf
<1>4. CleanInv'
  BY <1>1 DEF StoreInv, CleanInv, SurvivesAccess
<1> QED
  BY <1>1, <1>2, <1>3, <1>4, SweepInv

-----------------------------------------------------------------------------
(* The invariant.                                                          *)

(* An empty store.                                                         *)
LEMMA InitInv == Init => StoreInv
<1> SUFFICES ASSUME Init PROVE StoreInv
  OBVIOUS
<1> DEFINE idle == CHOOSE i \in Invocation : i.op = "ClearTainted"
<1>1. idle \in Invocation
  <2>1. PICK k \in Key : TRUE
    BY KeysExist
  <2>2. [op |-> "ClearTainted", key |-> k, with |-> [props |-> {}, ref |-> NoRef]]
          \in Invocation
    BY DEF Invocation, Operation, PassesMap, Contents
  <2> QED
    BY <2>2
<1>2. call \in [Goroutine -> Invocation]
  BY <1>1 DEF Init
<1>3. heap = <<>> /\ heap \in Seq(Contents) /\ Len(heap) = 0
  BY EmptySeq DEF Init
<1>4. Blank \in Locals
  BY DEF Blank, Locals
<1>5. TypeOK
  BY <1>2, <1>3, <1>4, MaxMapsIsNumber DEF Init, TypeOK, Point
<1>6. \A g \in Goroutine : Place(g)
  BY <1>3 DEF Init, Place, Blank, NoMap, Adding, Holding, Using, Setting
<1>7. RecordsInv /\ RefsInv /\ CleanInv
  BY <1>3 DEF Init, RecordsInv, RefsInv, CleanInv, TaintedAreRecords, SurvivesAccess, NoMap
<1> QED
  BY <1>5, <1>6, <1>7 DEF StoreInv

(* Every step keeps the invariant.                                         *)
LEMMA NextInv == StoreInv /\ [Next]_vars => StoreInv'
<1> SUFFICES ASSUME StoreInv, [Next]_vars PROVE StoreInv'
  OBVIOUS
<1>1. ASSUME NEW g \in Goroutine, Step(g) PROVE StoreInv'
  BY <1>1, FindInv, InsertInv, CountNewInv, MergeInv, StoreMergedInv, CountOldInv, SetOldInv,
     HasInv, ReadInv, CountGetInv, SetGetInv, RefsLoopInv, CollectInv, SetRefInv,
     HasRefInv, PullInv, LinkInv, CountModInv, SetModInv,
     CheckInv, DeleteInv, RemoveInv, ClearTaintedInv, ClearDeletedInv, PeekInv, StripInv
     DEF Step
<1>2. ASSUME NEW g \in Goroutine, NEW i \in Workload, Invoke(g, i) PROVE StoreInv'
  BY <1>2, InvokeInv
<1>3. ASSUME Sweep PROVE StoreInv'
  BY <1>3, EndCleanInv, SpareInv, DoomInv, CleanDeleteInv DEF Sweep
<1>4. CASE StartClean
  BY <1>4, StartCleanInv
<1>5. CASE UNCHANGED vars
  <2>1. UNCHANGED <<heap, locks, pc, call, local, active>>
    BY <1>5 DEF vars
  <2>2. TypeOK'
    BY <1>5 DEF StoreInv, TypeOK, vars, locks, sweeping
  <2>3. RecordsInv' /\ RefsInv' /\ CleanInv'
    BY <1>5 DEF StoreInv, RecordsInv, TaintedAreRecords, RefsInv, CleanInv, SurvivesAccess,
                Counted, At, KeyOf, vars, sweeping
  <2> QED
    BY <2>1, <2>2, <2>3, SweepInv
<1> QED
  BY <1>1, <1>2, <1>3, <1>4, <1>5 DEF Next

(* The invariant holds always.                                             *)
THEOREM StoreInvariant == SafeSpec => []StoreInv
<1>1. Init => StoreInv
  BY InitInv
<1>2. StoreInv /\ [Next]_vars => StoreInv'
  BY NextInv
<1> QED
  BY <1>1, <1>2, PTL DEF SafeSpec

(* Every variable of the store has its type.                               *)
THEOREM TypeCorrect == SafeSpec => []TypeOK
<1>1. StoreInv => TypeOK
  BY DEF StoreInv
<1> QED
  BY <1>1, StoreInvariant, PTL

(* TaintedRecords names only keys the store has: whoever takes a key out   *)
(* of records takes it out of tainted under the same lock, and Add, which  *)
(* looked long before, stores its map again in the step that taints.       *)
THEOREM TaintedHolds == SafeSpec => []TaintedAreRecords
<1>1. StoreInv => TaintedAreRecords
  BY DEF StoreInv, RecordsInv
<1> QED
  BY <1>1, StoreInvariant, PTL

(* clean never deletes a record that was accessed since it last visited    *)
(* it: the counter an access read was not zero, so what it stores is two,  *)
(* however many increments other accesses lost.                            *)
THEOREM SurvivesHolds == SafeSpec => []SurvivesAccess
<1>1. StoreInv => SurvivesAccess
  BY DEF StoreInv, CleanInv
<1> QED
  BY <1>1, StoreInvariant, PTL
=============================================================================
