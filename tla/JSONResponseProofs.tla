------------------------- MODULE JSONResponseProofs -------------------------
(***************************************************************************)
(* NoDeltaSkipped, TagsAdvance and FirstWatchCollectsAll for all clients,  *)
(* watch lists, records and bounds, when the delta store does not expire   *)
(* its deltas.  That the writer keeps to the delta store holds either way. *)
(***************************************************************************)
EXTENDS JSONResponse, DiffStoreProofs

WStoreInv == StoreInv /\ OrderInv /\ IndexMatchesList /\ NeverExpires

(* Which call a goroutine in Write has made, and that one outside of Write *)
(* has made none that is not over.                                         *)
CallInv ==
  \A g \in Goroutine :
    /\ ~Idle(g) => at[g] \in Writing
    /\ at[g] = "put" => call[g].op = "Put"
    /\ at[g] = "keys" => call[g].op = "Keys"
    /\ at[g] = "has" => call[g].op = "Has"
    /\ at[g] = "pull" =>
         \/ /\ call[g].op \in {"PullFrom", "AnalyzeWith"}
            /\ call[g].id = tag[g]
            /\ call[g].recs = Watch[g]
            /\ call[g].op = "PullFrom" <=> Watch[g] = {}
         \/ call[g].op \in {"Get", "Analyze"}

(* The newest delta the writer saw is in the store. *)
Stored(index, id) == id \in Uuid => index[id] # 0

KnownInv ==
  \A g \in Goroutine :
    /\ Returned(g, "keys") => Stored(keys, Newest(reply[g].tags))
    /\ at[g] \in {"has", "pull"} => Stored(keys, last[g])

WriterInv == WStoreInv /\ WriterTypeOK /\ CallInv /\ KnownInv /\ NoDeltaSkipped

(* A goroutine is in a body only for one of the calls Write makes. *)
LEMMA BodyOp ==
  ASSUME CallInv, NEW g \in Goroutine, pc[g] = "body"
  PROVE  /\ at[g] \in Writing
         /\ call[g].op # "Clear"
BY DEF CallInv, Idle, Writing

(* The newest of a list of tags is a tag, or none. *)
LEMMA NewestTag ==
  ASSUME NEW T \in Seq(Tag)
  PROVE  Newest(T) \in Tag
<1>1. CASE T = <<>>
  BY <1>1 DEF Newest, Tag
<1>2. CASE T # <<>>
  BY <1>2 DEF Newest, Last
<1> QED
  BY <1>1, <1>2

(* The call that fetches the deltas is a request to the store. *)
LEMMA DeltaCallType ==
  ASSUME WriterTypeOK, NEW g \in Goroutine, NEW known \in BOOLEAN
  PROVE  DeltaCall(g, known) \in Request
BY WatchAssumption DEF DeltaCall, Request, Operation, WriterTypeOK

(* Every step of the writer is a step of the delta store, or none. *)
LEMMA WriterIsStore ==
  ASSUME WriterTypeOK, [WriterNext]_wvars
  PROVE  [Next]_vars
<1>1. ASSUME NEW g \in Goroutine, NEW request \in Request, Call(g, request)
      PROVE  Next
  BY <1>1, WriterWorkloadAssumption DEF Next
<1>2. ASSUME NEW g \in Goroutine, PutTainted(g)
      PROVE  Next
  <2>1. [op |-> "Put", recs |-> tainted, id |-> NoTag] \in Request
    BY DEF WriterTypeOK, Request, Operation, Tag
  <2> QED
    BY <1>1, <1>2, <2>1 DEF PutTainted
<1>3. ASSUME NEW g \in Goroutine, AskKeys(g)
      PROVE  Next
  <2>1. [op |-> "Keys", recs |-> {}, id |-> NoTag] \in Request
    BY DEF Request, Operation, Tag
  <2> QED
    BY <1>1, <1>3, <2>1 DEF AskKeys
<1>4. ASSUME NEW g \in Goroutine, AskHas(g)
      PROVE  Next
  <2>1. [op |-> "Has", recs |-> {}, id |-> tag[g]] \in Request
    BY DEF WriterTypeOK, Request, Operation
  <2> QED
    BY <1>1, <1>4, <2>1 DEF AskHas
<1>5. ASSUME NEW g \in Goroutine, AskDeltas(g)
      PROVE  Next
  <2>1. DeltaCall(g, reply[g].tags # <<>>) \in Request
    BY DeltaCallType
  <2> QED
    BY <1>1, <1>5, <2>1 DEF AskDeltas
<1>6. ASSUME NEW g \in Goroutine,
             AnswerPlain(g) \/ AnswerDeltas(g) \/ Swallow(g) \/ PassError(g)
      PROVE  UNCHANGED vars
  BY <1>6 DEF AnswerPlain, AnswerDeltas, Swallow, PassError
<1>7. ASSUME NEW r \in Record, Taint(r)
      PROVE  UNCHANGED vars
  BY <1>7 DEF Taint
<1>8. ASSUME Tick \/ \E g \in Goroutine : Step(g)
      PROVE  Next
  BY <1>8 DEF Next
<1>9. CASE UNCHANGED wvars
  BY <1>9 DEF wvars
<1> QED
  BY <1>2, <1>3, <1>4, <1>5, <1>6, <1>7, <1>8, <1>9 DEF WriterNext, Write

(* What the proofs of the store show of it holds under the writer. *)
LEMMA WriterStoreInv ==
  ASSUME WStoreInv, WriterTypeOK, [WriterNext]_wvars
  PROVE  WStoreInv'
BY WriterIsStore, NextStoreInv, NextOrderInv, NextIndexMatches, NextNeverExpires
   DEF WStoreInv
-----------------------------------------------------------------------------
(* What a step leaves alone.                                               *)

(* A step that is not g's leaves what the invariants say of g as it is. *)
Same(g) ==
  /\ pc'[g] = pc[g] /\ call'[g] = call[g] /\ reply'[g] = reply[g]
  /\ at'[g] = at[g] /\ tag'[g] = tag[g] /\ last'[g] = last[g]

Acts(h) ==
  Write(h) \/ PutTainted(h) \/ PassError(h) \/ (UNCHANGED writer /\ Step(h))

(* A step of one client leaves the others where they were. *)
LEMMA OthersSame ==
  ASSUME WStoreInv, WriterTypeOK, NEW h \in Goroutine, Acts(h),
         NEW g \in Goroutine, g # h
  PROVE  Same(g)
<1>1. /\ pc \in [Goroutine -> Point] /\ call \in [Goroutine -> Request]
      /\ reply \in [Goroutine -> Reply]
      /\ at \in [Goroutine -> Resting \cup Writing]
      /\ tag \in [Goroutine -> Tag] /\ last \in [Goroutine -> Tag]
  BY DEF WStoreInv, StoreInv, TypeOK, WriterTypeOK
<1>2. CASE Write(h) \/ PutTainted(h) \/ PassError(h)
  BY <1>1, <1>2 DEF Write, PutTainted, PassError, AnswerPlain, AskKeys, AskHas, AskDeltas,
     AnswerDeltas, Swallow, Call, vars, store, Same
<1>3. ASSUME UNCHANGED writer, Body(h)
      PROVE  Same(g)
  BY <1>1, <1>3 DEF Body, Return, PutNothing, Put, Get, GetPanics, PullFrom, Has, Keys,
     Diffs, Clear, Analyze, AnalyzeWith, writer, Same
<1>4. ASSUME UNCHANGED writer, Clean(h)
      PROVE  Same(g)
  BY <1>1, <1>4 DEF Clean, SkipClean, ReadClock, LockForClean, EndSweep, Sweep, SweepPanics,
     AfterClean, writer, Same
<1> QED
  BY <1>2, <1>3, <1>4 DEF Acts, Step

(* A step of no client leaves each client where it was. *)
LEMMA QuietSame ==
  ASSUME \/ UNCHANGED wvars
         \/ \E r \in Record : Taint(r)
         \/ UNCHANGED writer /\ Tick,
         NEW g \in Goroutine
  PROVE  Same(g)
BY DEF wvars, vars, writer, Taint, Tick, Same

(* Every step is one client's, the change of a record, or the clock's. *)
LEMMA WhoActs ==
  ASSUME [WriterNext]_wvars
  PROVE  \/ \E h \in Goroutine : Acts(h)
         \/ UNCHANGED wvars \/ (\E r \in Record : Taint(r)) \/ (UNCHANGED writer /\ Tick)
BY DEF WriterNext, Acts

(* The store only grows: the writer never clears it. *)
LEMMA StoreGrows ==
  ASSUME WStoreInv, WriterTypeOK, CallInv, [WriterNext]_wvars
  PROVE  /\ \A k \in Uuid : keys[k] # 0 => keys'[k] = keys[k]
         /\ Len(diffs) \in Nat /\ Len(diffs') \in Nat /\ Len(diffs') >= Len(diffs)
         /\ \A i \in 1..Len(diffs) : diffs'[i] = diffs[i]
<1>1. /\ diffs \in Seq(Diff) /\ Len(diffs) \in Nat /\ minted \in Nat
      /\ keys \in [Uuid -> 0..MaxPuts]
  BY MaxPutsAssumption DEF WStoreInv, StoreInv, TypeOK
<1>2. CASE UNCHANGED store
  BY <1>1, <1>2 DEF store
<1>3. ASSUME NEW g \in Goroutine, Put(g)
      PROVE  /\ \A k \in Uuid : keys[k] # 0 => keys'[k] = keys[k]
             /\ Len(diffs') = Len(diffs) + 1
             /\ \A i \in 1..Len(diffs) : diffs'[i] = diffs[i]
  <2>1. \A k \in Uuid : keys[k] # 0 => k <= minted
    BY DEF WStoreInv, OrderInv, PastInv
  <2>2. minted' = minted + 1
    BY <1>3 DEF Put
  <2>3. keys' = [keys EXCEPT ![minted + 1] = Len(diffs) + 1]
    BY <1>3, <2>2 DEF Put
  <2>4. \A k \in Uuid : keys[k] # 0 => k # minted + 1
    BY <1>1, <2>1, MaxPutsAssumption DEF Uuid
  <2>5. \A k \in Uuid : keys[k] # 0 => keys'[k] = keys[k]
    BY <1>1, <2>3, <2>4
  <2>6. diffs' = Append(diffs, [key |-> minted', recs |-> call[g].recs, time |-> now])
    BY <1>3 DEF Put
  <2> QED
    BY <1>1, <2>5, <2>6
<1>4. ASSUME NEW g \in Goroutine, Clear(g)
      PROVE  FALSE
  BY <1>4, BodyOp DEF Clear, Return
<1>5. ASSUME NEW g \in Goroutine, NEW k \in Uuid, Sweep(g, k)
      PROVE  FALSE
  BY <1>5 DEF Sweep, WStoreInv, NeverExpires
<1>6. ASSUME NEW g \in Goroutine, Write(g) \/ PutTainted(g) \/ PassError(g)
      PROVE  UNCHANGED store
  BY <1>6 DEF Write, PutTainted, PassError, AnswerPlain, AskKeys, AskHas, AskDeltas,
     AnswerDeltas, Swallow, Call, vars
<1>7. UNCHANGED wvars \/ (\E r \in Record : Taint(r)) \/ (UNCHANGED writer /\ Tick)
        => UNCHANGED store
  BY DEF wvars, vars, Taint, Tick
<1>8. ASSUME NEW g \in Goroutine, Acts(g)
      PROVE  UNCHANGED store \/ Put(g)
  BY <1>4, <1>5, <1>6, <1>8, StoreChanges DEF Acts
<1> QED
  BY <1>1, <1>2, <1>3, <1>7, <1>8, WhoActs

-----------------------------------------------------------------------------
(* The parts of the invariant, one by one.                                 *)

(* Every step keeps the types of the writer. *)
LEMMA WriterTypeNext ==
  ASSUME StoreInv, WriterTypeOK, [WriterNext]_wvars
  PROVE  WriterTypeOK'
<1> USE DEF WriterTypeOK
<1>1. ASSUME NEW g \in Goroutine, PutTainted(g) \/ PassError(g)
      PROVE  WriterTypeOK'
  BY <1>1 DEF PutTainted, PassError, Resting, Writing
<1>2. ASSUME NEW g \in Goroutine, AskHas(g)
      PROVE  WriterTypeOK'
  <2>1. reply[g].tags \in Seq(Tag)
    BY DEF StoreInv, TypeOK, Reply
  <2>2. Newest(reply[g].tags) \in Tag
    BY <2>1, NewestTag
  <2> QED
    BY <1>2, <2>2 DEF AskHas, Writing
<1>3. ASSUME NEW g \in Goroutine,
             AnswerPlain(g) \/ AskKeys(g) \/ AskDeltas(g) \/ AnswerDeltas(g) \/ Swallow(g)
      PROVE  WriterTypeOK'
  BY <1>3 DEF AnswerPlain, AskKeys, AskDeltas, AnswerDeltas, Swallow, Resting, Writing
<1>4. ASSUME NEW r \in Record, Taint(r)
      PROVE  WriterTypeOK'
  BY <1>4 DEF Taint
<1>5. UNCHANGED writer \/ UNCHANGED wvars => WriterTypeOK'
  BY DEF writer, wvars
<1> QED
  BY <1>1, <1>2, <1>3, <1>4, <1>5 DEF WriterNext, Write

(* What a step of g inside the delta store does to g. *)
LEMMA StoreStepOfG ==
  ASSUME WStoreInv, WriterTypeOK, NEW g \in Goroutine, Step(g)
  PROVE  /\ call' = call
         /\ ~Idle(g)
         /\ pc'[g] = "done" => pc[g] = "body"
<1>1. pc \in [Goroutine -> Point]
  BY DEF WStoreInv, StoreInv, TypeOK
<1>2. CASE Body(g)
  BY <1>1, <1>2 DEF Body, Return, PutNothing, Put, Get, GetPanics, PullFrom, Has, Keys, Diffs,
     Clear, Analyze, AnalyzeWith, Idle
<1>3. CASE Clean(g)
  BY <1>1, <1>3 DEF Clean, SkipClean, ReadClock, LockForClean, EndSweep, Sweep, SweepPanics,
     AfterClean, Idle
<1> QED
  BY <1>2, <1>3 DEF Step

(* The effect of a step of the writer on its own goroutine. *)
LEMMA WriterStepOfG ==
  ASSUME WStoreInv, WriterTypeOK, NEW g \in Goroutine,
         Write(g) \/ PutTainted(g) \/ PassError(g)
  PROVE  \/ /\ at'[g] = "put" /\ call'[g].op = "Put"
         \/ /\ at'[g] = "keys" /\ call'[g].op = "Keys" /\ pc'[g] # "done"
         \/ /\ at'[g] = "has" /\ call'[g].op = "Has" /\ pc'[g] # "done"
            /\ at[g] = "keys" /\ pc[g] = "done" /\ last'[g] = Newest(reply[g].tags)
         \/ /\ at'[g] = "pull" /\ call'[g] = DeltaCall(g, reply[g].tags # <<>>)
            /\ pc'[g] # "done" /\ at[g] = "has"
            /\ tag'[g] = tag[g] /\ last'[g] = last[g]
         \/ /\ at'[g] \in Resting
            /\ pc'[g] = pc[g]
<1>1. /\ pc \in [Goroutine -> Point] /\ call \in [Goroutine -> Request]
      /\ at \in [Goroutine -> Resting \cup Writing]
      /\ tag \in [Goroutine -> Tag] /\ last \in [Goroutine -> Tag]
  BY DEF WStoreInv, StoreInv, TypeOK, WriterTypeOK
<1>2. ASSUME NEW request, Call(g, request)
      PROVE  call'[g] = request /\ pc'[g] # "done"
  BY <1>1, <1>2 DEF Call
<1>3. CASE PutTainted(g)
  BY <1>1, <1>2, <1>3 DEF PutTainted
<1>4. CASE AskKeys(g)
  BY <1>1, <1>2, <1>4 DEF AskKeys
<1>5. CASE AskHas(g)
  BY <1>1, <1>2, <1>5 DEF AskHas, Returned
<1>6. CASE AskDeltas(g)
  BY <1>1, <1>2, <1>6 DEF AskDeltas, Returned
<1>7. CASE AnswerPlain(g) \/ AnswerDeltas(g) \/ Swallow(g) \/ PassError(g)
  BY <1>1, <1>7 DEF AnswerPlain, AnswerDeltas, Swallow, PassError, vars, Resting
<1> QED
  BY <1>3, <1>4, <1>5, <1>6, <1>7 DEF Write

(* Every step keeps each goroutine in the call its place in Write stands for. *)
LEMMA CallNext ==
  ASSUME WStoreInv, WriterTypeOK, CallInv, [WriterNext]_wvars
  PROVE  CallInv'
<1> SUFFICES ASSUME NEW g \in Goroutine
             PROVE  /\ ~Idle(g)' => at'[g] \in Writing
                    /\ at'[g] = "put" => call'[g].op = "Put"
                    /\ at'[g] = "keys" => call'[g].op = "Keys"
                    /\ at'[g] = "has" => call'[g].op = "Has"
                    /\ at'[g] = "pull" =>
                         \/ /\ call'[g].op \in {"PullFrom", "AnalyzeWith"}
                            /\ call'[g].id = tag'[g]
                            /\ call'[g].recs = Watch[g]
                            /\ call'[g].op = "PullFrom" <=> Watch[g] = {}
                         \/ call'[g].op \in {"Get", "Analyze"}
  BY DEF CallInv
<1>1. CASE Same(g)
  BY <1>1 DEF Same, CallInv, Idle
<1>2. CASE UNCHANGED writer /\ Step(g)
  BY <1>2, StoreStepOfG DEF CallInv, writer
<1>3. CASE Write(g) \/ PutTainted(g) \/ PassError(g)
  <2>1. at'[g] \in Resting => Idle(g)'
    <3>1. CASE Write(g) \/ PutTainted(g)
      BY <3>1 DEF Write, PutTainted, AnswerPlain, AskKeys, AskHas, AskDeltas,
         AnswerDeltas, Swallow, Returned, Resting, WriterTypeOK, vars, Idle
    <3>2. CASE PassError(g)
      BY <3>2 DEF PassError, CallInv, Resting, Writing, vars, Idle
    <3> QED
      BY <1>3, <3>1, <3>2
  <2>2. at'[g] = "pull" =>
          \/ /\ call'[g].op \in {"PullFrom", "AnalyzeWith"}
             /\ call'[g].id = tag'[g]
             /\ call'[g].recs = Watch[g]
             /\ call'[g].op = "PullFrom" <=> Watch[g] = {}
          \/ call'[g].op \in {"Get", "Analyze"}
    <3>1. ASSUME at'[g] = "pull"
          PROVE  call'[g] = DeltaCall(g, reply[g].tags # <<>>) /\ tag'[g] = tag[g]
      BY <1>3, <3>1, WriterStepOfG DEF Resting
    <3>2. CASE reply[g].tags # <<>>
      BY <3>1, <3>2 DEF DeltaCall
    <3>3. CASE reply[g].tags = <<>>
      BY <3>1, <3>3 DEF DeltaCall
    <3> QED
      BY <3>2, <3>3
  <2>3. at'[g] \in Resting \cup Writing
    BY WriterTypeNext DEF WriterTypeOK, WStoreInv
  <2>4. /\ at'[g] = "put" => call'[g].op = "Put"
        /\ at'[g] = "keys" => call'[g].op = "Keys"
        /\ at'[g] = "has" => call'[g].op = "Has"
    BY <1>3, WriterStepOfG DEF Resting
  <2> QED
    BY <2>1, <2>2, <2>3, <2>4
<1> QED
  BY <1>1, <1>2, <1>3, OthersSame, QuietSame, WhoActs DEF Acts

(* What Keys answers names deltas of the list. *)
LEMMA KeysAnswer ==
  ASSUME WStoreInv, NEW g \in Goroutine, Keys(g)
  PROVE  Stored(keys', Newest(reply'[g].tags))
<1> DEFINE T == [i \in 1..Len(diffs) |-> diffs[i].key]
<1>1. /\ diffs \in Seq(Diff) /\ Len(diffs) \in Nat /\ reply \in [Goroutine -> Reply]
      /\ UNCHANGED keys
  BY DEF WStoreInv, StoreInv, TypeOK, Keys, store
<1>2. reply'[g] = Tags(T)
  BY <1>1 DEF Keys, Return
<1>3. T \in Seq(Tag) /\ Len(T) = Len(diffs)
  BY <1>1, AnswerTypes DEF WStoreInv, StoreInv
<1>4. CASE T = <<>>
  BY <1>2, <1>4 DEF Tags, Newest, Stored, Uuid, NoTag
<1>5. CASE T # <<>>
  <2>1. Len(diffs) \in 1..Len(diffs)
    BY <1>1, <1>3, <1>5
  <2>2. Newest(T) = diffs[Len(diffs)].key
    BY <1>3, <1>5, <2>1 DEF Newest, Last
  <2>3. keys[diffs[Len(diffs)].key] = Len(diffs)
    BY <2>1 DEF WStoreInv, IndexMatchesList, NeverExpires
  <2> QED
    BY <1>1, <1>2, <2>1, <2>2, <2>3 DEF Tags, Stored
<1> QED
  BY <1>4, <1>5

(* A tag the writer saw as newest stays in the store. *)
LEMMA KnownNext ==
  ASSUME WStoreInv, WriterTypeOK, CallInv, KnownInv, [WriterNext]_wvars
  PROVE  KnownInv'
<1>1. ASSUME NEW id, Stored(keys, id)
      PROVE  Stored(keys', id)
  BY <1>1, StoreGrows DEF Stored
<1> SUFFICES ASSUME NEW g \in Goroutine
             PROVE  /\ Returned(g, "keys")' => Stored(keys', Newest(reply'[g].tags))
                    /\ at'[g] \in {"has", "pull"} => Stored(keys', last'[g])
  BY DEF KnownInv
<1>2. CASE Same(g)
  BY <1>1, <1>2 DEF Same, KnownInv, Returned
<1>3. CASE UNCHANGED writer /\ Step(g)
  <2>1. at'[g] \in {"has", "pull"} => Stored(keys', last'[g])
    BY <1>1, <1>3 DEF KnownInv, writer
  <2>2. ASSUME Returned(g, "keys")'
        PROVE  Stored(keys', Newest(reply'[g].tags))
    <3>1. at[g] = "keys" /\ pc[g] = "body" /\ call[g].op = "Keys" /\ pc'[g] = "done"
      BY <1>3, <2>2, StoreStepOfG DEF CallInv, Returned, writer
    <3>2. ~Clean(g)
      BY <3>1 DEF Clean, SkipClean, ReadClock, LockForClean, EndSweep, Sweep, SweepPanics
    <3>3. Keys(g)
      BY <1>3, <3>1, <3>2 DEF Step, Body, Return, PutNothing, Put, Get, GetPanics, PullFrom,
         Has, Diffs, Clear, Analyze, AnalyzeWith
    <3> QED
      BY <3>3, KeysAnswer
  <2> QED
    BY <2>1, <2>2
<1>4. CASE Write(g) \/ PutTainted(g) \/ PassError(g)
  <2>1. KnownInv
    OBVIOUS
  <2> QED
    BY <1>1, <1>4, <2>1, WriterStepOfG DEF KnownInv, Returned, Resting
<1> QED
  BY <1>2, <1>3, <1>4, OthersSame, QuietSame, WhoActs DEF Acts

-----------------------------------------------------------------------------
(* Nothing is skipped.                                                     *)

(* The deltas after the tag are all in what PullFrom and AnalyzeWith       *)
(* answer, at the moment they do.                                          *)
LEMMA PullIsComplete ==
  ASSUME WStoreInv, CallInv, NEW g \in Goroutine, at[g] = "pull",
         PullFrom(g) \/ AnalyzeWith(g)
  PROVE  \A i, j \in 1..Len(diffs) :
           i < j /\ diffs[i].key = tag[g] =>
             diffs[j].recs \cap Watched(g) \subseteq reply'[g].recs
<1> SUFFICES ASSUME NEW i \in 1..Len(diffs), NEW j \in 1..Len(diffs), i < j,
                    diffs[i].key = tag[g]
             PROVE  diffs[j].recs \cap Watched(g) \subseteq reply'[g].recs
  OBVIOUS
<1>1. /\ diffs \in Seq(Diff) /\ Len(diffs) \in Nat /\ reply \in [Goroutine -> Reply]
      /\ diffs[i] \in Diff /\ diffs[j] \in Diff
  BY DEF WStoreInv, StoreInv, TypeOK
<1>2. keys[diffs[i].key] = i /\ diffs[i].key \in Uuid
  BY <1>1 DEF WStoreInv, IndexMatchesList, NeverExpires, Diff
<1>3. call[g].id = tag[g] /\ call[g].recs = Watch[g] /\ (call[g].op = "PullFrom" <=> Watch[g] = {})
  BY DEF CallInv, PullFrom, AnalyzeWith, Return
<1>4. diffs[j].recs \subseteq PulledFrom(call[g].id)
  <2>1. PulledFrom(call[g].id) = RecordsFrom(i + 1)
    BY <1>2, <1>3 DEF PulledFrom, HasKey
  <2>2. diffs[j].recs \subseteq Record
    BY <1>1 DEF Diff
  <2>3. j \in (i + 1)..Len(diffs)
    BY <1>1
  <2> QED
    BY <2>1, <2>2, <2>3 DEF RecordsFrom
<1>5. CASE PullFrom(g)
  BY <1>1, <1>3, <1>4, <1>5 DEF PullFrom, Return, Records
<1>6. CASE AnalyzeWith(g)
  <2>1. Watch[g] # {}
    BY <1>3, <1>6 DEF AnalyzeWith, Return
  <2>2. reply'[g].recs = Watch[g] \cap PulledFrom(call[g].id)
    BY <1>1, <1>3, <1>6 DEF AnalyzeWith, Return, Records
  <2> QED
    BY <1>4, <2>1, <2>2 DEF Watched
<1> QED
  BY <1>5, <1>6

(* The newest delta a writer saw was there already when it saw it.         *)
LEMMA LastIsOld ==
  ASSUME WriterInv, [WriterNext]_wvars, NEW g \in Goroutine, last'[g] = last[g], at[g] = "pull",
         NEW k \in 1..Len(diffs'), diffs'[k].key = last'[g]
  PROVE  k \in 1..Len(diffs)
<1> USE DEF WriterInv
<1>1. WStoreInv'
  BY WriterStoreInv
<1>2. /\ Len(diffs) \in Nat /\ Len(diffs') \in Nat
      /\ \A n \in Uuid : keys[n] # 0 => keys'[n] = keys[n]
  BY StoreGrows
<1>3. diffs'[k] \in Diff
  BY <1>1 DEF WStoreInv, StoreInv, TypeOK
<1>4. keys'[diffs'[k].key] = k /\ diffs'[k].key \in Uuid
  BY <1>1, <1>3 DEF WStoreInv, IndexMatchesList, NeverExpires, Diff
<1>5. keys[last[g]] # 0
  BY <1>4 DEF KnownInv, Stored
<1>6. keys[last[g]] = k
  BY <1>2, <1>4, <1>5
<1> QED
  BY <1>2, <1>4, <1>5, <1>6 DEF WStoreInv, IndexMatchesList, NeverExpires

(* DeltaCall is made when Has has answered.                                *)
LEMMA PullFollowsHas ==
  ASSUME WriterTypeOK, NEW g \in Goroutine, Write(g) \/ PutTainted(g) \/ PassError(g),
         at'[g] = "pull"
  PROVE  Returned(g, "has")
BY DEF Write, PutTainted, PassError, AnswerPlain, AskKeys, AskHas, AskDeltas, AnswerDeltas,
       Swallow, Resting, WriterTypeOK

(* Every step keeps answers complete. *)
LEMMA SkippedNext ==
  ASSUME WriterInv, [WriterNext]_wvars
  PROVE  NoDeltaSkipped'
<1> USE DEF WriterInv
<1>1. WStoreInv' /\ KnownInv' /\ CallInv'
  BY WriterStoreInv, KnownNext, CallNext
<1> SUFFICES ASSUME NEW g \in Goroutine, Returned(g, "pull")',
                    call'[g].op \in {"PullFrom", "AnalyzeWith"},
                    NEW i \in 1..Len(diffs'), NEW j \in 1..Len(diffs'), NEW k \in 1..Len(diffs'),
                    i < j, j <= k, diffs'[i].key = tag'[g], diffs'[k].key = last'[g]
             PROVE  diffs'[j].recs \cap Watched(g) \subseteq reply'[g].recs
  BY DEF NoDeltaSkipped, Watched
<1>2. /\ Len(diffs) \in Nat /\ Len(diffs') \in Nat /\ Len(diffs') >= Len(diffs)
      /\ \A n \in 1..Len(diffs) : diffs'[n] = diffs[n]
      /\ \A n \in Uuid : keys[n] # 0 => keys'[n] = keys[n]
  BY StoreGrows
<1>3. ASSUME last'[g] = last[g], at[g] = "pull"
      PROVE  k <= Len(diffs)
  BY <1>2, <1>3, LastIsOld
<1>4. CASE Same(g)
  <2>1. at[g] = "pull" /\ pc[g] = "done" /\ last'[g] = last[g] /\ tag'[g] = tag[g]
        /\ reply'[g] = reply[g] /\ call'[g] = call[g]
    BY <1>4 DEF Same, Returned
  <2>2. k <= Len(diffs)
    BY <1>3, <2>1
  <2>3. i \in 1..Len(diffs) /\ j \in 1..Len(diffs) /\ k \in 1..Len(diffs)
    BY <1>2, <2>2
  <2> QED
    BY <1>2, <2>1, <2>3 DEF NoDeltaSkipped, Returned
<1>5. CASE UNCHANGED writer /\ Step(g)
  <2>1. /\ at[g] = "pull" /\ pc[g] = "body" /\ call[g].op \in {"PullFrom", "AnalyzeWith"}
        /\ tag'[g] = tag[g] /\ last'[g] = last[g] /\ pc'[g] = "done"
    BY <1>5, StoreStepOfG DEF Returned, writer
  <2>2. PullFrom(g) \/ AnalyzeWith(g)
    <3>1. ~Clean(g)
      BY <2>1 DEF Clean, SkipClean, ReadClock, LockForClean, EndSweep, Sweep, SweepPanics
    <3> QED
      BY <1>5, <2>1, <3>1 DEF Step, Body, Return, PutNothing, Put, Get, GetPanics, Has, Keys,
         Diffs, Clear, Analyze
  <2>3. k <= Len(diffs)
    BY <1>3, <2>1
  <2>4. i \in 1..Len(diffs) /\ j \in 1..Len(diffs)
    BY <1>2, <2>3
  <2> QED
    BY <1>2, <2>1, <2>2, <2>4, PullIsComplete
<1>6. CASE Write(g) \/ PutTainted(g) \/ PassError(g)
  <2>1. at'[g] = "pull" /\ pc'[g] = "done"
    BY DEF Returned
  <2> QED
    BY <1>6, <2>1, WriterStepOfG DEF Resting
<1> QED
  BY <1>4, <1>5, <1>6, OthersSame, QuietSame, WhoActs DEF Acts

(* The invariant holds initially. *)
LEMMA WriterInvInit == ASSUME MaxAge = 0 PROVE WriterInit => WriterInv
<1> SUFFICES ASSUME WriterInit PROVE WriterInv
  OBVIOUS
<1>1. WStoreInv
  BY InitStoreInv, InitOrderInv DEF WriterInit, WStoreInv, Init, IndexMatchesList, NeverExpires
<1>2. WriterTypeOK
  BY DEF WriterInit, WriterTypeOK, Resting, Tag
<1>3. CallInv /\ KnownInv /\ NoDeltaSkipped
  BY DEF WriterInit, Init, CallInv, KnownInv, NoDeltaSkipped, Returned, Idle
<1> QED
  BY <1>1, <1>2, <1>3 DEF WriterInv

(* Every step keeps the invariant. *)
LEMMA WriterInvNext == WriterInv /\ [WriterNext]_wvars => WriterInv'
BY WriterStoreInv, WriterTypeNext, CallNext, KnownNext, SkippedNext DEF WriterInv, WStoreInv

(* The invariant, for the whole behaviour. *)
LEMMA WriterInvariant == ASSUME MaxAge = 0 PROVE WriterSafeSpec => []WriterInv
BY WriterInvInit, WriterInvNext, PTL DEF WriterSafeSpec

(* With a store that never expires, an answer to a known tag names every   *)
(* watched record of every delta after that tag up to the delta_id it      *)
(* carries, however many clients write at once (writers.go:117-171).       *)
THEOREM NoDeltaSkippedHolds == ASSUME MaxAge = 0 PROVE WriterSafeSpec => []NoDeltaSkipped
BY WriterInvariant, PTL DEF WriterInv

(* The writer's use of the delta store is a behaviour of DiffStore,        *)
(* whether deltas expire or not (writers.go:85-168).                       *)
THEOREM WriterUsesStore == WriterSafeSpec => SafeSpec
<1>1. WriterInit => Init /\ StoreInv /\ WriterTypeOK
  BY InitStoreInv DEF WriterInit, WriterTypeOK, Resting, Tag
<1>2. WriterTypeOK /\ [WriterNext]_wvars => [Next]_vars
  BY WriterIsStore
<1>3. StoreInv /\ WriterTypeOK /\ [WriterNext]_wvars => StoreInv' /\ WriterTypeOK'
  BY <1>2, NextStoreInv, WriterTypeNext
<1> QED
  BY <1>1, <1>2, <1>3, PTL DEF WriterSafeSpec, SafeSpec

(* What clean does while requests are written costs no live delta, and no  *)
(* index lags behind its delta (diff.go:297-312, writers.go:85-168).       *)
THEOREM WriterKeepsFresh == WriterSafeSpec => KeepsFresh /\ []IndexNeverLags
BY WriterUsesStore, KeepsFreshHolds, IndexNeverLagsHolds, PTL

-----------------------------------------------------------------------------
(* Tags go forward, and a first watch is given everything.                 *)

(* A client's tag names a delta, and what the writer takes for the newest  *)
(* one is no older.                                                        *)
TagInv ==
  \A g \in Goroutine :
    /\ Stored(keys, tag[g])
    /\ Returned(g, "keys") => Newest(reply[g].tags) >= tag[g]
    /\ at[g] \in {"has", "pull"} => last[g] >= tag[g]

(* A client whose tag the store does not know has Analyze called for it.   *)
FirstInv ==
  \A g \in Goroutine :
    /\ at[g] = "has" => call[g].id = tag[g]
    /\ Returned(g, "has") /\ reply[g].tags # <<>> => HasKey(tag[g])
    /\ at[g] = "pull" /\ Watch[g] # {} /\ ~HasKey(tag[g]) =>
         call[g].op = "Analyze" /\ call[g].recs = Watch[g]

(* What a step of the writer does to the tag, and what it asks Has for.    *)
LEMMA WriterTagOfG ==
  ASSUME WriterTypeOK, WStoreInv, NEW g \in Goroutine,
         Write(g) \/ PutTainted(g) \/ PassError(g)
  PROVE  /\ \/ tag'[g] = tag[g]
            \/ at'[g] \in Resting /\ at[g] = "pull" /\ tag'[g] = last[g]
         /\ at'[g] = "has" => call'[g].id = tag[g]
<1>1. /\ pc \in [Goroutine -> Point] /\ call \in [Goroutine -> Request]
      /\ at \in [Goroutine -> Resting \cup Writing]
      /\ tag \in [Goroutine -> Tag]
  BY DEF WStoreInv, StoreInv, TypeOK, WriterTypeOK
<1>2. CASE AskHas(g)
  BY <1>1, <1>2 DEF AskHas, Call
<1>3. CASE PutTainted(g) \/ AskKeys(g) \/ AskDeltas(g)
  BY <1>1, <1>3 DEF PutTainted, AskKeys, AskDeltas
<1>4. CASE AnswerDeltas(g)
  BY <1>1, <1>4 DEF AnswerDeltas, Returned, Resting
<1>5. CASE AnswerPlain(g) \/ Swallow(g) \/ PassError(g)
  BY <1>1, <1>5 DEF AnswerPlain, Swallow, PassError
<1> QED
  BY <1>2, <1>3, <1>4, <1>5 DEF Write

(* A goroutine that is done with a call has just made the answer of it.    *)
LEMMA BodyOfCall ==
  ASSUME WStoreInv, WriterTypeOK, CallInv, NEW g \in Goroutine, UNCHANGED writer, Step(g),
         pc'[g] = "done"
  PROVE  /\ at[g] = "keys" => Keys(g)
         /\ at[g] = "has" => Has(g)
         /\ at[g] = "pull" /\ call[g].op = "Analyze" => Analyze(g)
<1>1. pc[g] = "body"
  BY StoreStepOfG
<1>2. ~Clean(g)
  BY <1>1 DEF Clean, SkipClean, ReadClock, LockForClean, EndSweep, Sweep, SweepPanics
<1>3. Body(g)
  BY <1>2 DEF Step
<1>4. /\ at[g] = "keys" => call[g].op = "Keys"
      /\ at[g] = "has" => call[g].op = "Has"
  BY DEF CallInv
<1> QED
  BY <1>3, <1>4 DEF Body, Return, PutNothing, Put, Get, GetPanics, PullFrom, Has, Keys,
     Diffs, Clear, Analyze, AnalyzeWith

(* The newest key that Keys answers is no older than a stored tag.         *)
LEMMA NewestIsLate ==
  ASSUME WStoreInv, NEW g \in Goroutine, Keys(g), NEW id \in Tag, Stored(keys, id)
  PROVE  Newest(reply'[g].tags) >= id
<1> DEFINE T == [i \in 1..Len(diffs) |-> diffs[i].key]
<1>1. /\ diffs \in Seq(Diff) /\ Len(diffs) \in Nat /\ reply \in [Goroutine -> Reply]
      /\ \A i \in 1..Len(diffs) : diffs[i] \in Diff
  BY DEF WStoreInv, StoreInv, TypeOK
<1>2. reply'[g].tags = T
  BY <1>1 DEF Keys, Return, Tags
<1>3. T \in Seq(Tag) /\ Len(T) = Len(diffs)
  BY <1>1, AnswerTypes DEF WStoreInv, StoreInv
<1>4. CASE id = NoTag
  <2>1. Newest(T) \in Tag
    BY <1>3, NewestTag
  <2> QED
    BY <1>2, <1>4, <2>1 DEF Tag, Uuid, NoTag
<1>5. CASE id # NoTag
  <2>1. id \in Uuid /\ keys[id] \in 1..Len(diffs) /\ diffs[keys[id]].key = id
    BY <1>1, <1>5, MaxPutsAssumption
       DEF Tag, Stored, WStoreInv, StoreInv, TypeOK, IndexMatchesList, NeverExpires
  <2>2. T # <<>> /\ Newest(T) = diffs[Len(diffs)].key
    BY <1>1, <1>3, <2>1 DEF Newest, Last
  <2>3. Len(diffs) \in keys[id]..Len(diffs)
    BY <1>1, <2>1
  <2> QED
    BY <1>2, <2>1, <2>2, <2>3 DEF WStoreInv, OrderInv, IndexNeverLags
<1> QED
  BY <1>4, <1>5

(* Every step keeps tags in the store and behind the newest.               *)
LEMMA TagNext ==
  ASSUME WriterInv, TagInv, [WriterNext]_wvars
  PROVE  TagInv'
<1> USE DEF WriterInv
<1>1. ASSUME NEW id, Stored(keys, id)
      PROVE  Stored(keys', id)
  BY <1>1, StoreGrows DEF Stored
<1> SUFFICES ASSUME NEW g \in Goroutine
             PROVE  /\ Stored(keys', tag'[g])
                    /\ Returned(g, "keys")' => Newest(reply'[g].tags) >= tag'[g]
                    /\ at'[g] \in {"has", "pull"} => last'[g] >= tag'[g]
  BY DEF TagInv
<1>2. CASE Same(g)
  BY <1>1, <1>2 DEF Same, TagInv, Returned
<1>3. CASE UNCHANGED writer /\ Step(g)
  <2>1. tag'[g] = tag[g] /\ at'[g] = at[g] /\ last'[g] = last[g]
    BY <1>3 DEF writer
  <2>2. Stored(keys, tag[g]) /\ tag[g] \in Tag
    BY DEF TagInv, WriterTypeOK
  <2>3. Returned(g, "keys")' => Newest(reply'[g].tags) >= tag[g]
    BY <1>3, <2>1, <2>2, BodyOfCall, NewestIsLate DEF Returned
  <2> QED
    BY <1>1, <2>1, <2>2, <2>3 DEF TagInv
<1>4. CASE Write(g) \/ PutTainted(g) \/ PassError(g)
  <2>1. Stored(keys, tag'[g])
    BY <1>4, WriterTagOfG DEF TagInv, KnownInv
  <2>2. ~Returned(g, "keys")'
    BY <1>4, WriterStepOfG DEF Returned, Resting
  <2>3. ASSUME at'[g] \in {"has", "pull"} PROVE last'[g] >= tag'[g]
    <3>1. tag'[g] = tag[g]
      BY <1>4, <2>3, WriterTagOfG DEF Resting
    <3> QED
      BY <1>4, <2>3, <3>1, WriterStepOfG DEF TagInv, Returned, Resting
  <2> QED
    BY <1>1, <2>1, <2>2, <2>3
<1> QED
  BY <1>2, <1>3, <1>4, OthersSame, QuietSame, WhoActs DEF Acts

(* Every step keeps the call for an unknown tag an Analyze.                *)
LEMMA FirstNext ==
  ASSUME WriterInv, FirstInv, [WriterNext]_wvars
  PROVE  FirstInv'
<1> USE DEF WriterInv
<1>1. ASSUME NEW id, HasKey(id)
      PROVE  HasKey(id)'
  BY <1>1, StoreGrows DEF HasKey
<1> SUFFICES ASSUME NEW g \in Goroutine
             PROVE  /\ at'[g] = "has" => call'[g].id = tag'[g]
                    /\ Returned(g, "has")' /\ reply'[g].tags # <<>> => HasKey(tag[g])'
                    /\ at'[g] = "pull" /\ Watch[g] # {} /\ ~HasKey(tag[g])' =>
                         call'[g].op = "Analyze" /\ call'[g].recs = Watch[g]
  BY DEF FirstInv
<1>2. ASSUME tag'[g] = tag[g], HasKey(tag[g])
      PROVE  HasKey(tag[g])'
  BY <1>1, <1>2 DEF HasKey
<1>3. CASE Same(g)
  BY <1>2, <1>3 DEF Same, FirstInv, Returned
<1>4. CASE UNCHANGED writer /\ Step(g)
  <2>1. tag'[g] = tag[g] /\ at'[g] = at[g] /\ call'[g] = call[g]
    BY <1>4, StoreStepOfG DEF writer
  <2>2. ASSUME Returned(g, "has")', reply'[g].tags # <<>> PROVE HasKey(tag[g])
    <3>1. Has(g) /\ call[g].id = tag[g]
      BY <1>4, <2>1, <2>2, BodyOfCall DEF FirstInv, Returned
    <3>2. reply \in [Goroutine -> Reply]
      BY DEF WStoreInv, StoreInv, TypeOK
    <3> QED
      BY <2>2, <3>1, <3>2 DEF Has, Return, Tags
  <2> QED
    BY <1>2, <2>1, <2>2 DEF FirstInv
<1>5. CASE Write(g) \/ PutTainted(g) \/ PassError(g)
  <2>1. ~Returned(g, "has")'
    BY <1>5, WriterStepOfG DEF Returned, Resting
  <2>2. at'[g] = "has" => call'[g].id = tag'[g]
    BY <1>5, WriterTagOfG DEF Resting
  <2>3. ASSUME at'[g] = "pull", Watch[g] # {}, ~HasKey(tag[g])'
        PROVE  call'[g].op = "Analyze" /\ call'[g].recs = Watch[g]
    <3>1. tag'[g] = tag[g] /\ call'[g] = DeltaCall(g, reply[g].tags # <<>>)
      BY <1>5, <2>3, WriterStepOfG, WriterTagOfG DEF Resting
    <3>2. Returned(g, "has")
      BY <1>5, <2>3, PullFollowsHas
    <3>3. reply[g].tags = <<>>
      BY <1>2, <2>3, <3>1, <3>2 DEF FirstInv
    <3> QED
      BY <2>3, <3>1, <3>3 DEF DeltaCall
  <2> QED
    BY <2>1, <2>2, <2>3
<1> QED
  BY <1>3, <1>4, <1>5, OthersSame, QuietSame, WhoActs DEF Acts

(* Every step keeps the answers to first watches complete.                 *)
LEMMA FirstWatchNext ==
  ASSUME WriterInv, FirstInv, FirstWatchCollectsAll, [WriterNext]_wvars
  PROVE  FirstWatchCollectsAll'
<1> USE DEF WriterInv
<1> SUFFICES ASSUME NEW g \in Goroutine, Returned(g, "pull")', Watch[g] # {}, ~HasKey(tag[g])',
                    NEW j \in 1..Len(diffs'), NEW k \in 1..Len(diffs'),
                    j <= k, diffs'[k].key = last'[g]
             PROVE  diffs'[j].recs \cap Watch[g] \subseteq reply'[g].recs
  BY DEF FirstWatchCollectsAll
<1>1. /\ Len(diffs) \in Nat /\ Len(diffs') \in Nat /\ Len(diffs') >= Len(diffs)
      /\ \A n \in 1..Len(diffs) : diffs'[n] = diffs[n]
  BY StoreGrows
<1>2. tag'[g] = tag[g] => ~HasKey(tag[g])
  BY StoreGrows DEF HasKey
<1>3. CASE Same(g)
  <2>1. Returned(g, "pull") /\ last'[g] = last[g] /\ tag'[g] = tag[g] /\ reply'[g] = reply[g]
    BY <1>3 DEF Same, Returned
  <2>2. k \in 1..Len(diffs) /\ j \in 1..Len(diffs)
    BY <1>1, <2>1, LastIsOld DEF Returned
  <2> QED
    BY <1>1, <1>2, <2>1, <2>2 DEF FirstWatchCollectsAll
<1>4. CASE UNCHANGED writer /\ Step(g)
  <2>1. at[g] = "pull" /\ tag'[g] = tag[g] /\ last'[g] = last[g] /\ pc'[g] = "done"
    BY <1>4 DEF Returned, writer
  <2>2. Analyze(g) /\ call[g].recs = Watch[g]
    BY <1>2, <1>4, <2>1, BodyOfCall DEF FirstInv
  <2>3. j \in 1..Len(diffs)
    BY <1>1, <2>1, LastIsOld
  <2>4. /\ diffs[j] \in Diff /\ reply \in [Goroutine -> Reply]
    BY <2>3 DEF WStoreInv, StoreInv, TypeOK
  <2>5. reply'[g].recs = Watch[g] \cap RecordsFrom(1)
    BY <2>2, <2>4 DEF Analyze, Return, Records
  <2>6. diffs[j].recs \subseteq RecordsFrom(1)
    BY <2>3, <2>4 DEF RecordsFrom, Diff
  <2> QED
    BY <1>1, <2>3, <2>5, <2>6
<1>5. CASE Write(g) \/ PutTainted(g) \/ PassError(g)
  BY <1>5, WriterStepOfG DEF Returned, Resting
<1> QED
  BY <1>3, <1>4, <1>5, OthersSame, QuietSame, WhoActs DEF Acts

(* The invariant of tags and first watches, for the whole behaviour.       *)
LEMMA ReportInvariant ==
  ASSUME MaxAge = 0
  PROVE  WriterSafeSpec => [](WriterInv /\ TagInv /\ FirstInv /\ FirstWatchCollectsAll)
<1>1. WriterInit => TagInv /\ FirstInv /\ FirstWatchCollectsAll
  BY DEF WriterInit, Init, TagInv, FirstInv, FirstWatchCollectsAll, Stored, Returned, Uuid, NoTag
<1>2. WriterInv /\ TagInv /\ FirstInv /\ FirstWatchCollectsAll /\ [WriterNext]_wvars
        => TagInv' /\ FirstInv' /\ FirstWatchCollectsAll'
  BY TagNext, FirstNext, FirstWatchNext
<1> QED
  BY <1>1, <1>2, WriterInvariant, PTL DEF WriterSafeSpec

(* With a store that never expires, a client that watches records and      *)
(* comes without a tag is given every one that changed (writers.go:125).   *)
THEOREM FirstWatchHolds == ASSUME MaxAge = 0 PROVE WriterSafeSpec => []FirstWatchCollectsAll
BY ReportInvariant, PTL

(* With a store that never expires, the delta_id of an answer is no older  *)
(* than the tag that was sent, and names a delta (writers.go:117-123).     *)
THEOREM TagsAdvanceHolds == ASSUME MaxAge = 0 PROVE WriterSafeSpec => TagsAdvance
<1>1. ASSUME WriterInv, TagInv, [WriterNext]_wvars
      PROVE  [\A g \in Goroutine : AnswerDeltas(g) /\ MaxAge = 0 =>
               /\ tag[g] # NoTag => tag'[g] # NoTag
               /\ tag'[g] # NoTag => HasKey(tag'[g]) /\ tag'[g] >= tag[g]]_wvars
  <2> SUFFICES ASSUME NEW g \in Goroutine, AnswerDeltas(g)
               PROVE  /\ tag[g] # NoTag => tag'[g] # NoTag
                      /\ tag'[g] # NoTag => HasKey(tag'[g]) /\ tag'[g] >= tag[g]
    OBVIOUS
  <2>1. at[g] = "pull" /\ tag'[g] = last[g] /\ tag[g] \in Tag /\ last[g] \in Tag
    BY <1>1 DEF AnswerDeltas, Returned, WriterInv, WriterTypeOK
  <2>2. Stored(keys, last[g]) /\ last[g] >= tag[g]
    BY <1>1, <2>1 DEF WriterInv, KnownInv, TagInv
  <2> QED
    BY <2>1, <2>2, MaxPutsAssumption DEF Stored, HasKey, Tag, Uuid, NoTag
<1> QED
  BY <1>1, ReportInvariant, PTL DEF WriterSafeSpec, TagsAdvance
=============================================================================
