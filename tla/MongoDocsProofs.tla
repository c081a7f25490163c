-------------------------- MODULE MongoDocsProofs ---------------------------
(***************************************************************************)
(* Theorems about MongoDocs, for all clients, chains and records.          *)
(***************************************************************************)
EXTENDS MongoDocs, SequenceTheorems, FiniteSetTheorems, TLAPS

(* Places at one record of the response.                                   *)
Working == {"has", "look", "insert", "merge", "taint", "link"}

(* Which records of its response a client has seen to have a key.          *)
Checked(c) ==
  IF pc[c] \in {"marshal", "upsert"} \/ (pc[c] \in Working /\ Now(c).op # "mutate")
  THEN 1..Len(data[c])
  ELSE IF pc[c] \in Working THEN 1..item[c]
  ELSE IF pc[c] = "step" THEN 1..(item[c] - 1) ELSE {}

(* Where a client is in its chain and in its response.                     *)
PlaceInv(c) ==
  /\ pc[c] = "idle" => at[c] = 1 /\ data[c] = NoResponse /\ item[c] = 1 /\ inrec[c] = NoMap
  /\ pc[c] # "idle" => chain[c] \in Chains /\ at[c] \in 1..Len(chain[c])
  /\ pc[c] = "step" => (at[c] = 1 <=> data[c] = NoResponse)
  /\ pc[c] = "answered" => data[c] # NoResponse
  /\ pc[c] \in {"read", "has", "link"} => Now(c).op = "find"
  /\ pc[c] \in {"length", "select", "readAll"} => at[c] = 1 /\ Now(c).op = "all"
  /\ pc[c] \in Working => /\ Now(c).op # "collect"
                          /\ Now(c).op = "find" => item[c] = 1
                          /\ Now(c).op = "mutate" => at[c] > 1
  /\ pc[c] \in Working \cup {"marshal", "upsert"} =>
       data[c] # NoResponse /\ item[c] \in 1..Len(data[c])
  /\ pc[c] = "step" =>
       item[c] = 1 \/ (data[c] # NoResponse /\ item[c] \in 1..Len(data[c]) /\ Now(c).op = "mutate")
  /\ pc[c] \in {"read", "length", "select", "readAll"} => item[c] = 1

(* What it knows of the keys of the maps it has.                           *)
MapsInv(c) ==
  /\ data[c] # NoResponse => \A i \in Checked(c) : heap[data[c][i]].key \in Record
  /\ pc[c] = "upsert" => sent[c] \in Map /\ sent[c].key \in Record
  /\ IF pc[c] \in {"merge", "taint"}
     THEN inrec[c] # NoMap /\ heap[inrec[c]].key = heap[Current(c)].key
     ELSE inrec[c] = NoMap
  /\ pc[c] = "link" => heap[Current(c)].key \in Stored

(* A stored map has the key it is stored under.                            *)
StoredInv ==
  (\A k \in Stored : heap[records[k]].key = k) /\ linked \subseteq Stored /\ tainted \subseteq Stored

(* A map without a key belongs to one client alone.                        *)
ApartInv ==
  \A c, d \in Client : c # d /\ data[c] # NoResponse /\ data[d] # NoResponse =>
    \A r \in Range(data[c]) \cap Range(data[d]) : heap[r].key \in Record

(* A change no writer has read is tainted, or a client is about to do it.  *)
ReportsInv ==
  /\ unread \subseteq tainted
  /\ \A k \in Stored \ (replaced \cup missed) :
       heap[records[k]] = reported[k] \/ k \in unread \/ \E c \in Client : Adding(c, k)

MongoInv == /\ TypeOK /\ \A c \in Client : PlaceInv(c) /\ MapsInv(c)
            /\ StoredInv /\ ApartInv /\ ReportsInv

(* The maps of a client, and that a step leaves their keys alone.          *)
Mine(d) == {r \in DOMAIN heap : r = inrec[d] \/ (data[d] # NoResponse /\ r \in Range(data[d]))}
KeysKept(d) == \A r \in Mine(d) : r \in DOMAIN heap' /\ heap'[r].key = heap[r].key

OthersSame(c) ==
  \A d \in Client \ {c} :
    /\ pc'[d] = pc[d] /\ chain'[d] = chain[d] /\ at'[d] = at[d] /\ data'[d] = data[d]
    /\ item'[d] = item[d] /\ inrec'[d] = inrec[d] /\ sent'[d] = sent[d]
-----------------------------------------------------------------------------
(* A list of what is in a set.                                             *)
LEMMA ListOf ==
  ASSUME NEW A, NEW s \in Seq(A)
  PROVE  /\ Len(s) \in Nat /\ DOMAIN s = 1..Len(s) /\ \A i \in 1..Len(s) : s[i] \in A
         /\ Range(s) = {s[i] : i \in 1..Len(s)}
         /\ \A B : Range(s) \subseteq B => s \in Seq(B)
<1>1. Len(s) \in Nat /\ DOMAIN s = 1..Len(s) /\ \A i \in 1..Len(s) : s[i] \in A
  BY LenProperties, ElementOfSeq
<1>2. Range(s) = {s[i] : i \in 1..Len(s)}
  BY <1>1 DEF Range
<1>3. ASSUME NEW B, Range(s) \subseteq B PROVE s \in Seq(B)
  <2>1. s = [i \in 1..Len(s) |-> s[i]]
    BY <1>1
  <2>2. \A i \in 1..Len(s) : s[i] \in B
    BY <1>2, <1>3
  <2> QED
    BY <1>1, <2>1, <2>2, IsASeq
<1> QED
  BY <1>1, <1>2, <1>3

(* What the types say of a client.                                         *)
LEMMA Facts ==
  ASSUME TypeOK, NEW c \in Client
  PROVE  /\ pc[c] \in Points /\ at[c] \in Nat \ {0} /\ item[c] \in Nat \ {0}
         /\ inrec[c] \in DOMAIN heap \cup {NoMap}
         /\ data[c] # NoResponse =>
              /\ data[c] \in Seq(DOMAIN heap) /\ Len(data[c]) \in Nat
              /\ DOMAIN data[c] = 1..Len(data[c])
              /\ \A i \in 1..Len(data[c]) :
                   /\ data[c][i] \in Mine(c) /\ data[c][i] \in DOMAIN heap
                   /\ heap[data[c][i]] \in Map
                   /\ heap[data[c][i]].key \in Record \cup {NoRecord}
              /\ Range(data[c]) = {data[c][i] : i \in 1..Len(data[c])}
              /\ Range(data[c]) \subseteq Mine(c)
         /\ inrec[c] # NoMap => inrec[c] \in Mine(c) /\ heap[inrec[c]] \in Map
<1>1. /\ pc[c] \in Points /\ at[c] \in Nat \ {0} /\ item[c] \in Nat \ {0}
      /\ inrec[c] \in DOMAIN heap \cup {NoMap}
      /\ data[c] # NoResponse => data[c] \in Seq(DOMAIN heap)
      /\ \A r \in DOMAIN heap : heap[r] \in Map
  BY DEF TypeOK
<1>2. ASSUME data[c] # NoResponse
      PROVE  /\ Len(data[c]) \in Nat /\ DOMAIN data[c] = 1..Len(data[c])
             /\ \A i \in 1..Len(data[c]) : data[c][i] \in DOMAIN heap
             /\ Range(data[c]) = {data[c][i] : i \in 1..Len(data[c])}
  <2> HIDE DEF TypeOK
  <2> QED
    BY <1>1, <1>2, ListOf
<1>3. \A r \in DOMAIN heap : heap[r].key \in Record \cup {NoRecord}
  BY <1>1 DEF Map
<1> QED
  BY <1>1, <1>2, <1>3 DEF Mine

(* A client in its chain has a step to run.                                *)
LEMMA StepNow ==
  ASSUME MongoInv, NEW c \in Client, pc[c] # "idle"
  PROVE  /\ chain[c] \in Chains /\ chain[c] \in Seq(Step) /\ at[c] \in 1..Len(chain[c])
         /\ Len(chain[c]) \in Nat /\ DOMAIN chain[c] = 1..Len(chain[c])
         /\ Now(c) \in Step /\ Now(c).key \in Record \cup {NoRecord}
         /\ Now(c).op = "find" => Now(c).key \in Record
<1>1. chain[c] \in Chains /\ at[c] \in 1..Len(chain[c])
  BY DEF MongoInv, PlaceInv
<1>2. chain[c] \in Seq(Step)
  BY <1>1, ChainsAreSteps
<1>3. /\ Len(chain[c]) \in Nat /\ DOMAIN chain[c] = 1..Len(chain[c])
      /\ Now(c) \in Step
  <2> HIDE DEF Step
  <2> QED
    BY <1>1, <1>2, ListOf DEF Now
<1>4. Now(c).key \in Record \cup {NoRecord}
  BY <1>3 DEF Step
<1>5. Now(c).op = "find" => Now(c).key # NoRecord
  BY <1>1, <1>3, FindsHaveKeys DEF Now
<1> QED
  BY <1>1, <1>2, <1>3, <1>4, <1>5

-----------------------------------------------------------------------------
(* What another client has and knows stays, if the step leaves its place   *)
(* and the keys of its maps alone and the store loses no record.           *)
LEMMA OtherStays ==
  ASSUME MongoInv, NEW c \in Client, NEW d \in Client \ {c}, OthersSame(c), KeysKept(d),
         Stored \subseteq Stored'
  PROVE  PlaceInv(d)' /\ MapsInv(d)'
<1>1. /\ pc'[d] = pc[d] /\ chain'[d] = chain[d] /\ at'[d] = at[d] /\ data'[d] = data[d]
      /\ item'[d] = item[d] /\ inrec'[d] = inrec[d] /\ sent'[d] = sent[d]
  BY DEF OthersSame
<1>2. TypeOK /\ PlaceInv(d) /\ MapsInv(d)
  BY DEF MongoInv
<1>3. PlaceInv(d)'
  BY <1>1, <1>2 DEF PlaceInv, Now
<1>4. data[d] # NoResponse => \A i \in 1..Len(data[d]) : heap'[data[d][i]].key = heap[data[d][i]].key
  BY <1>2, Facts DEF KeysKept
<1>5. inrec[d] # NoMap => heap'[inrec[d]].key = heap[inrec[d]].key
  BY <1>2, Facts DEF KeysKept
<1>6. pc[d] \in Working \cup {"marshal", "upsert"} =>
        data[d] # NoResponse /\ Current(d)' = Current(d) /\ heap'[Current(d)].key = heap[Current(d)].key
  BY <1>1, <1>2, <1>4 DEF PlaceInv, Current
<1>7. data[d] # NoResponse => Checked(d)' = Checked(d) /\ Checked(d) \subseteq 1..Len(data[d])
  <2>1. Checked(d)' = Checked(d)
    BY <1>1 DEF Checked, Now
  <2>2. /\ pc[d] \in Working => item[d] \in 1..Len(data[d])
        /\ pc[d] = "step" => item[d] = 1 \/ item[d] \in 1..Len(data[d])
    BY <1>2 DEF PlaceInv
  <2>3. data[d] # NoResponse => Len(data[d]) \in Nat
    BY <1>2, Facts
  <2>4. data[d] # NoResponse => Checked(d) \subseteq 1..Len(data[d])
    BY <2>2, <2>3 DEF Checked
  <2> QED
    BY <2>1, <2>4
<1>8. MapsInv(d)'
  <2>1. (data[d] # NoResponse => \A i \in Checked(d) : heap[data[d][i]].key \in Record)'
    BY <1>1, <1>2, <1>4, <1>7 DEF MapsInv
  <2>2. (pc[d] = "upsert" => sent[d] \in Map /\ sent[d].key \in Record)'
    BY <1>1, <1>2 DEF MapsInv, Map
  <2>3. (IF pc[d] \in {"merge", "taint"}
         THEN inrec[d] # NoMap /\ heap[inrec[d]].key = heap[Current(d)].key
         ELSE inrec[d] = NoMap)'
    BY <1>1, <1>2, <1>5, <1>6 DEF MapsInv, Working
  <2>4. (pc[d] = "link" => heap[Current(d)].key \in Stored)'
    BY <1>1, <1>2, <1>6 DEF MapsInv, Working
  <2> QED
    BY <2>1, <2>2, <2>3, <2>4 DEF MapsInv
<1> QED
  BY <1>3, <1>8

(* What is left to show of the step of a client.                           *)
LEMMA StepInv ==
  ASSUME MongoInv, TypeOK', NEW c \in Client, OthersSame(c),
         \A d \in Client \ {c} : KeysKept(d), Stored \subseteq Stored',
         StoredInv', PlaceInv(c)', MapsInv(c)',
         data'[c] # NoResponse =>
           \A d \in Client \ {c} : data[d] # NoResponse =>
             \A r \in Range(data'[c]) \cap Range(data[d]) : heap'[r].key \in Record,
         unread' \subseteq tainted',
         \A k \in Stored' \ (replaced' \cup missed') :
           \/ heap'[records'[k]] = reported'[k] \/ k \in unread' \/ Adding(c, k)'
           \/ /\ k \in Stored \ (replaced \cup missed) /\ ~ Adding(c, k)
              /\ k \in unread => k \in unread'
              /\ heap'[records'[k]] = heap[records[k]] /\ reported'[k] = reported[k]
  PROVE  MongoInv'
<1>1. \A d \in Client : (PlaceInv(d) /\ MapsInv(d))'
  BY OtherStays
<1>2. \A d \in Client \ {c} : \A r \in Range(data[d]) :
        data[d] # NoResponse => r \in Mine(d) /\ heap'[r].key = heap[r].key
  <2> SUFFICES ASSUME NEW d \in Client \ {c}, data[d] # NoResponse, NEW r \in Range(data[d])
               PROVE  r \in Mine(d) /\ heap'[r].key = heap[r].key
    OBVIOUS
  <2>1. r \in Mine(d)
    <3>1. TypeOK
      BY DEF MongoInv
    <3> QED
      BY <3>1, Facts
  <2> QED
    BY <2>1 DEF KeysKept
<1>3. ApartInv'
  <2> SUFFICES ASSUME NEW a \in Client, NEW b \in Client, a # b,
                      data'[a] # NoResponse, data'[b] # NoResponse,
                      NEW r \in Range(data'[a]) \cap Range(data'[b])
               PROVE  heap'[r].key \in Record
    BY DEF ApartInv, Range
  <2>1. CASE a = c
    BY <2>1 DEF OthersSame
  <2>2. CASE b = c
    BY <2>2 DEF OthersSame
  <2>3. CASE a # c /\ b # c
    BY <1>2, <2>3 DEF OthersSame, MongoInv, ApartInv
  <2> QED
    BY <2>1, <2>2, <2>3
<1>4. ASSUME NEW d \in Client \ {c}, NEW k, Adding(d, k)
      PROVE  Adding(d, k)'
  <2>1. pc'[d] = pc[d] /\ data'[d] = data[d] /\ item'[d] = item[d]
    BY DEF OthersSame
  <2>2. pc[d] \in Working
    BY <1>4 DEF Adding, Working
  <2>3. Current(d) \in Mine(d)
    BY <2>2, Facts DEF MongoInv, PlaceInv, Current
  <2> QED
    BY <1>4, <2>1, <2>3 DEF Adding, Current, KeysKept
<1>5. ReportsInv'
  <2> SUFFICES ASSUME NEW k \in Stored' \ (replaced' \cup missed')
               PROVE  \/ heap'[records'[k]] = reported'[k] \/ k \in unread'
                      \/ \E d \in Client : Adding(d, k)'
    BY DEF ReportsInv
  <2>1. CASE /\ k \in Stored \ (replaced \cup missed) /\ ~ Adding(c, k)
             /\ k \in unread => k \in unread'
             /\ heap'[records'[k]] = heap[records[k]] /\ reported'[k] = reported[k]
    <3>1. heap[records[k]] = reported[k] \/ k \in unread \/ \E d \in Client : Adding(d, k)
      BY <2>1 DEF MongoInv, ReportsInv
    <3> QED
      BY <1>4, <2>1, <3>1
  <2> QED
    BY <2>1
<1> QED
  BY <1>1, <1>3, <1>5 DEF MongoInv

(* Of a step that leaves the maps and the records of the store alone.      *)
LEMMA QuietInv ==
  ASSUME MongoInv, TypeOK', NEW c \in Client, OthersSame(c),
         UNCHANGED <<heap, records, tainted, reports, replaced>>,
         linked' \subseteq Stored, PlaceInv(c)', MapsInv(c)',
         data'[c] # NoResponse /\ data'[c] # data[c] =>
           \A r \in Range(data'[c]) :
             heap[r].key \in Record \/ (data[c] # NoResponse /\ r \in Range(data[c])),
         \A k \in Stored : Adding(c, k) => Adding(c, k)'
  PROVE  MongoInv'
<1>1. \A d \in Client \ {c} : KeysKept(d)
  BY DEF KeysKept, Mine
<1>2. Stored' = Stored
  BY DEF Stored
<1>3. StoredInv'
  BY <1>2 DEF MongoInv, StoredInv
<1>4. data'[c] # NoResponse =>
        \A d \in Client \ {c} : data[d] # NoResponse =>
          \A r \in Range(data'[c]) \cap Range(data[d]) : heap'[r].key \in Record
  BY DEF MongoInv, ApartInv
<1>5. unread' \subseteq tainted'
  BY DEF MongoInv, ReportsInv, reports
<1>6. \A k \in Stored' \ (replaced' \cup missed') :
        \/ Adding(c, k)'
        \/ /\ k \in Stored \ (replaced \cup missed) /\ ~ Adding(c, k)
           /\ k \in unread => k \in unread'
           /\ heap'[records'[k]] = heap[records[k]] /\ reported'[k] = reported[k]
  BY <1>2 DEF reports
<1> QED
  BY <1>1, <1>2, <1>3, <1>4, <1>5, <1>6, StepInv

-----------------------------------------------------------------------------
(* What the store and the other clients have is held.                      *)
LEMMA HeldMaps ==
  ASSUME TypeOK, NEW c \in Client
  PROVE  /\ \A k \in Stored : records[k] \in DOMAIN heap \cap Held(c)
         /\ \A d \in Client \ {c} : \A r \in Mine(d) : r \in DOMAIN heap \cap Held(c)
<1>1. \A k \in Stored : records[k] \in DOMAIN heap \cap Held(c)
  BY DEF TypeOK, Stored, Held
<1>2. ASSUME NEW d \in Client \ {c}, NEW r \in Mine(d)
      PROVE  r \in DOMAIN heap \cap Held(c)
  <2>1. r = inrec[d] => r \in Held(c)
    <3>1. {inrec[b] : b \in Client \ {c}} \subseteq Held(c)
      BY DEF Held
    <3> QED
      BY <3>1
  <2>2. data[d] # NoResponse /\ r \in Range(data[d]) => r \in Held(c)
    <3>1. data[d] # NoResponse =>
            Range(data[d]) \in {IF data[b] = NoResponse THEN {} ELSE Range(data[b]) : b \in Client \ {c}}
      OBVIOUS
    <3> QED
      BY <3>1 DEF Held
  <2> QED
    BY <2>1, <2>2 DEF Mine
<1> QED
  BY <1>1, <1>2

(* What a response of new maps is, and what it leaves.                     *)
LEMMA Responded ==
  ASSUME MongoInv, NEW c \in Client, NEW maps \in Seq(Map), Respond(c, maps), inrec[c] = NoMap
  PROVE  /\ data'[c] \in Seq(DOMAIN heap') /\ data'[c] # NoResponse
         /\ Len(data'[c]) = Len(maps) /\ Len(maps) \in Nat
         /\ \A i \in 1..Len(maps) : heap'[data'[c][i]] = maps[i]
         /\ \A d \in Client \ {c} : data'[d] = data[d]
         /\ data' \in [Client -> {NoResponse} \cup Seq(DOMAIN heap')]
         /\ DOMAIN heap' \subseteq Ref /\ \A r \in DOMAIN heap' : heap'[r] \in Map
         /\ \A k \in Stored : records[k] \in DOMAIN heap' /\ heap'[records[k]] = heap[records[k]]
         /\ \A d \in Client \ {c} : \A r \in Mine(d) : r \in DOMAIN heap' /\ heap'[r] = heap[r]
         /\ \A d \in Client \ {c} : data[d] # NoResponse => Range(data'[c]) \cap Range(data[d]) = {}
<1> DEFINE refs == Fresh(Len(maps))
           held == DOMAIN heap \cap Held(c)
<1>1. Len(maps) \in Nat /\ \A i \in 1..Len(maps) : maps[i] \in Map
  <2> HIDE DEF Map
  <2> QED
    BY ListOf
<1>2. refs \in [1..Len(maps) -> Ref \ DOMAIN heap] /\ Ascending(refs)
  BY DEF Fresh, Room, Respond
<1>3. refs \in Seq(Ref) /\ Len(refs) = Len(maps) /\ Range(refs) = {refs[i] : i \in 1..Len(maps)}
  <2> HIDE DEF refs
  <2> QED
    BY <1>1, <1>2, LenProperties, IsASeq DEF Range
<1>4. /\ data' = [data EXCEPT ![c] = refs]
      /\ heap' = [r \in held \cup Range(refs) |->
                    IF r \in Range(refs) THEN maps[CHOOSE i \in 1..Len(maps) : refs[i] = r]
                    ELSE heap[r]]
  BY DEF Respond
<1>5. TypeOK
  BY DEF MongoInv
<1> HIDE DEF refs, held
<1>6. Range(refs) \subseteq Ref \ DOMAIN heap
  BY <1>2, <1>3
<1>7. \A i \in 1..Len(maps) : refs[i] \in Range(refs) /\ heap'[refs[i]] = maps[i]
  <2> SUFFICES ASSUME NEW i \in 1..Len(maps) PROVE refs[i] \in Range(refs) /\ heap'[refs[i]] = maps[i]
    OBVIOUS
  <2>1. \A j \in 1..Len(maps) : j # i => refs[j] # refs[i]
    <3>1. \A j \in 1..Len(maps) : refs[j] \in Nat
      BY <1>2, RefsAreNumbers
    <3>2. DOMAIN refs = 1..Len(maps)
      BY <1>2
    <3> QED
      BY <1>1, <1>2, <3>1, <3>2 DEF Ascending
  <2>2. (CHOOSE j \in 1..Len(maps) : refs[j] = refs[i]) = i
    BY <2>1
  <2>3. refs[i] \in Range(refs)
    BY <1>3
  <2> QED
    BY <1>4, <2>2, <2>3
<1>8. \A r \in held : r \in DOMAIN heap' /\ heap'[r] = heap[r]
  BY <1>4, <1>6 DEF held
<1>9. \A k \in Stored : records[k] \in held
  BY <1>5, HeldMaps DEF held
<1>10. ASSUME NEW d \in Client \ {c}, NEW r \in Mine(d) PROVE r \in held
  BY <1>5, HeldMaps DEF held
<1>11. DOMAIN heap' = held \cup Range(refs)
  BY <1>4
<1>12. DOMAIN heap' \subseteq Ref /\ \A r \in DOMAIN heap' : heap'[r] \in Map
  <2> HIDE DEF Map
  <2>1. \A r \in Range(refs) : heap'[r] \in Map
    BY <1>1, <1>3, <1>7
  <2> QED
    BY <1>5, <1>6, <1>8, <1>11, <2>1 DEF TypeOK, held
<1>13. data'[c] = refs /\ refs \in Seq(DOMAIN heap') /\ refs # NoResponse
  <2>1. data'[c] = refs
    BY <1>4, <1>5 DEF TypeOK
  <2>2. Range(refs) \subseteq DOMAIN heap'
    BY <1>11
  <2>3. refs \in Seq(DOMAIN heap')
    BY <1>3, <2>2, ListOf
  <2> QED
    BY <1>3, <2>1, <2>3, NothingIsNone
<1>14. ASSUME NEW d \in Client \ {c}
       PROVE  /\ data'[d] = data[d] /\ data'[d] \in {NoResponse} \cup Seq(DOMAIN heap')
              /\ data[d] # NoResponse => Range(data'[c]) \cap Range(data[d]) = {}
  <2>1. data'[d] = data[d]
    BY <1>4
  <2>2. data[d] # NoResponse => data[d] \in Seq(DOMAIN heap) /\ Range(data[d]) = {data[d][i] : i \in 1..Len(data[d])}
    BY <1>5, Facts
  <2>3. data[d] # NoResponse => Range(data[d]) \subseteq DOMAIN heap /\ Range(data[d]) \subseteq held
    BY <1>5, <1>10, <2>2, Facts
  <2>4. data[d] # NoResponse => data[d] \in Seq(DOMAIN heap')
    BY <1>11, <2>2, <2>3, ListOf
  <2> QED
    BY <1>6, <1>13, <2>1, <2>3, <2>4
<1>15. data' \in [Client -> {NoResponse} \cup Seq(DOMAIN heap')]
  <2>1. data' \in [Client -> {data'[d] : d \in Client}]
    BY <1>4, <1>5 DEF TypeOK
  <2> QED
    BY <1>13, <1>14, <2>1
<1>16. \A i \in 1..Len(maps) : data'[c][i] \in Range(refs)
  BY <1>3, <1>13
<1> QED
  BY <1>1, <1>3, <1>7, <1>8, <1>9, <1>10, <1>12, <1>13, <1>14, <1>15, <1>16

(* Of a step that responds with new maps and does no more to the store.    *)
LEMMA RespondInv ==
  ASSUME MongoInv, NEW c \in Client, NEW maps \in Seq(Map), Respond(c, maps), inrec[c] = NoMap,
         UNCHANGED <<db, store, request, inrec, amount, reports, replaced, rekeyed>>,
         suspect' \subseteq Record, pc' \in [Client -> Points], at' \in [Client -> Nat \ {0}],
         item' \in [Client -> Nat \ {0}], sent' \in [Client -> Map \cup {NoMap}],
         \A d \in Client \ {c} :
           pc'[d] = pc[d] /\ at'[d] = at[d] /\ item'[d] = item[d] /\ sent'[d] = sent[d],
         PlaceInv(c)', MapsInv(c)', \A k \in Record : ~ Adding(c, k)
  PROVE  MongoInv'
<1>1. /\ \A k \in Stored : records[k] \in DOMAIN heap' /\ heap'[records[k]] = heap[records[k]]
      /\ \A d \in Client \ {c} : \A r \in Mine(d) : r \in DOMAIN heap' /\ heap'[r] = heap[r]
      /\ \A d \in Client \ {c} : data[d] # NoResponse => Range(data'[c]) \cap Range(data[d]) = {}
      /\ \A d \in Client \ {c} : data'[d] = data[d]
      /\ data' \in [Client -> {NoResponse} \cup Seq(DOMAIN heap')]
      /\ DOMAIN heap' \subseteq Ref /\ \A r \in DOMAIN heap' : heap'[r] \in Map
  BY Responded
<1>2. TypeOK /\ StoredInv
  BY DEF MongoInv
<1>3. \A d \in Client \ {c} : KeysKept(d)
  BY <1>1 DEF KeysKept
<1>4. Stored' = Stored /\ Stored \subseteq Record /\ UNCHANGED <<records, tainted, linked>>
  BY DEF Stored, store
<1>5. inrec' \in [Client -> DOMAIN heap' \cup {NoMap}]
  <2>1. \A d \in Client : inrec[d] \in DOMAIN heap' \cup {NoMap}
    BY <1>1, <1>2, Facts
  <2> QED
    BY <1>2, <2>1 DEF TypeOK
<1>6. TypeOK'
  <2> HIDE DEF Map
  <2> QED
    BY <1>1, <1>2, <1>4, <1>5 DEF TypeOK, request, reports, Stored
<1>7. OthersSame(c)
  BY <1>1 DEF OthersSame, request
<1>8. StoredInv'
  BY <1>1, <1>2, <1>4 DEF StoredInv
<1>9. \A k \in Stored' \ (replaced' \cup missed') :
        /\ k \in Stored \ (replaced \cup missed) /\ ~ Adding(c, k)
        /\ k \in unread => k \in unread'
        /\ heap'[records'[k]] = heap[records[k]] /\ reported'[k] = reported[k]
  BY <1>1, <1>4 DEF reports
<1>10. unread' \subseteq tainted'
  BY <1>4 DEF MongoInv, ReportsInv, reports
<1> QED
  BY <1>1, <1>3, <1>4, <1>6, <1>7, <1>8, <1>9, <1>10, StepInv

-----------------------------------------------------------------------------
(* A processor that returns a response is at its next place.               *)
LEMMA AdvanceKeeps ==
  ASSUME MongoInv, NEW c \in Client, pc[c] # "idle", Advance(c), chain' = chain,
         data'[c] # NoResponse, item'[c] = 1, inrec'[c] = NoMap
  PROVE  /\ PlaceInv(c)' /\ MapsInv(c)'
         /\ pc' \in [Client -> Points] /\ at' \in [Client -> Nat \ {0}]
         /\ \A d \in Client \ {c} : pc'[d] = pc[d] /\ at'[d] = at[d]
<1>1. /\ TypeOK /\ pc \in [Client -> Points] /\ at \in [Client -> Nat \ {0}]
      /\ PlaceInv(c) /\ MapsInv(c)
  BY DEF MongoInv, TypeOK
<1>2. /\ chain[c] \in Chains /\ chain[c] \in Seq(Step) /\ at[c] \in 1..Len(chain[c])
      /\ Len(chain[c]) \in Nat
  BY StepNow
<1>3. /\ pc' \in [Client -> Points] /\ at' \in [Client -> Nat \ {0}]
      /\ \A d \in Client \ {c} : pc'[d] = pc[d] /\ at'[d] = at[d]
  BY <1>1 DEF Advance, Goto, Points
<1>4. \/ at[c] < Len(chain[c]) /\ pc'[c] = "step" /\ at'[c] = at[c] + 1
      \/ pc'[c] = "answered" /\ at'[c] = at[c]
  BY <1>1 DEF Advance, Goto
<1>5. PlaceInv(c)'
  BY <1>2, <1>4 DEF PlaceInv, Working
<1>6. Checked(c)' = {}
  BY <1>4 DEF Checked, Working
<1>7. MapsInv(c)'
  BY <1>4, <1>6 DEF MapsInv
<1> QED
  BY <1>3, <1>5, <1>7

(* So is one that returns an error.                                        *)
LEMMA FailsKeeps ==
  ASSUME MongoInv, NEW c \in Client, pc[c] # "idle", Fails(c), UNCHANGED <<chain, data, inrec>>,
         inrec[c] = NoMap
  PROVE  /\ PlaceInv(c)' /\ MapsInv(c)'
         /\ pc' \in [Client -> Points] /\ at' = at /\ pc'[c] = "failed"
         /\ \A d \in Client \ {c} : pc'[d] = pc[d]
<1>1. pc \in [Client -> Points] /\ PlaceInv(c) /\ MapsInv(c)
  BY DEF MongoInv, TypeOK
<1>2. /\ pc' \in [Client -> Points] /\ at' = at /\ pc'[c] = "failed"
      /\ \A d \in Client \ {c} : pc'[d] = pc[d]
  BY <1>1 DEF Fails, Goto, Points
<1>3. PlaceInv(c)'
  BY <1>1, <1>2 DEF PlaceInv, Working
<1>4. Checked(c)' = {}
  BY <1>2 DEF Checked, Working
<1>5. MapsInv(c)'
  BY <1>2, <1>4 DEF MapsInv
<1> QED
  BY <1>2, <1>3, <1>5

-----------------------------------------------------------------------------
(* Each step keeps the invariant.  An error leaves the maps as they are.   *)
LEMMA ReadFailsInv ==
  ASSUME MongoInv, NEW c \in Client, ReadFails(c) PROVE MongoInv'
<1>1. TypeOK /\ MapsInv(c)
  BY DEF MongoInv
<1>2. /\ pc[c] \in {"read", "readAll", "step"} /\ Fails(c)
      /\ UNCHANGED <<db, store, heap, request, data, locals, history>>
  BY DEF ReadFails
<1>3. /\ PlaceInv(c)' /\ MapsInv(c)' /\ pc' \in [Client -> Points] /\ at' = at
      /\ \A d \in Client \ {c} : pc'[d] = pc[d]
  <2>1. inrec[c] = NoMap
    BY <1>1, <1>2 DEF MapsInv
  <2> QED
    BY <1>1, <1>2, <2>1, FailsKeeps DEF MapsInv, request, locals
<1>4. TypeOK'
  BY <1>1, <1>2, <1>3 DEF TypeOK, store, request, locals, history, reports
<1>5. OthersSame(c)
  BY <1>2, <1>3 DEF OthersSame, request, locals
<1>6. \A k \in Stored : ~ Adding(c, k)
  BY <1>2 DEF Adding
<1> QED
  BY <1>2, <1>3, <1>4, <1>5, <1>6, QuietInv DEF store, history, MongoInv, StoredInv

(* Find of a record with a reference.                                      *)
LEMMA GetByRefInv ==
  ASSUME MongoInv, NEW c \in Client, GetByRef(c) PROVE MongoInv'
<1> DEFINE k == Now(c).key
<1>1. TypeOK /\ MapsInv(c) /\ PlaceInv(c) /\ StoredInv
  BY DEF MongoInv
<1>2. /\ pc[c] = "step" /\ Now(c).op = "find"
      /\ UNCHANGED <<db, store, heap, request, locals, history>>
  BY DEF GetByRef
<1>3. inrec[c] = NoMap /\ item[c] = 1
  BY <1>1, <1>2 DEF MapsInv, PlaceInv
<1>4. CASE k \in linked
  <2>1. data' = [data EXCEPT ![c] = <<records[k]>>] /\ Advance(c)
    BY <1>2, <1>4 DEF GetByRef
  <2>2. k \in Stored /\ heap[records[k]].key = k /\ k \in Record /\ records[k] \in DOMAIN heap
    BY <1>1, <1>4 DEF StoredInv, Stored, TypeOK
  <2>3. /\ data' \in [Client -> {NoResponse} \cup Seq(DOMAIN heap)] /\ data'[c] = <<records[k]>>
        /\ \A d \in Client \ {c} : data'[d] = data[d]
    BY <1>1, <2>1, <2>2 DEF TypeOK
  <2>4. data'[c] # NoResponse
    <3>1. <<records[k]>> \in Seq(Ref)
      BY <1>1, <2>2 DEF TypeOK
    <3> QED
      BY <2>3, <3>1, NothingIsNone
  <2>6. /\ PlaceInv(c)' /\ MapsInv(c)' /\ pc' \in [Client -> Points]
        /\ at' \in [Client -> Nat \ {0}]
        /\ \A d \in Client \ {c} : pc'[d] = pc[d] /\ at'[d] = at[d]
    BY <1>2, <1>3, <2>1, <2>2, <2>3, <2>4, AdvanceKeeps DEF request, locals
  <2>7. TypeOK'
    BY <1>1, <1>2, <2>3, <2>6 DEF TypeOK, store, request, locals, history, reports
  <2>8. OthersSame(c)
    BY <1>2, <2>3, <2>6 DEF OthersSame, request, locals
  <2>9. \A r \in Range(data'[c]) : heap[r].key \in Record
    BY <2>2, <2>3 DEF Range
  <2>10. \A w \in Stored : ~ Adding(c, w)
    BY <1>2 DEF Adding
  <2> QED
    BY <1>1, <1>2, <2>6, <2>7, <2>8, <2>9, <2>10, QuietInv DEF store, history, StoredInv
<1>5. CASE k \notin linked
  <2>1. Goto(c, "read") /\ UNCHANGED <<at, data>>
    BY <1>2, <1>5 DEF GetByRef
  <2>2. pc' = [pc EXCEPT ![c] = "read"] /\ pc \in [Client -> Points]
    BY <1>1, <2>1 DEF Goto, TypeOK
  <2>3. TypeOK'
    BY <1>1, <1>2, <2>1, <2>2 DEF TypeOK, store, request, locals, history, reports, Points
  <2>4. OthersSame(c)
    BY <1>2, <2>1, <2>2 DEF OthersSame, request, locals
  <2>5. PlaceInv(c)'
    BY <1>1, <1>2, <1>3, <2>1, <2>2 DEF PlaceInv, Now, request, locals, Working
  <2>6. MapsInv(c)'
    <3>1. Checked(c)' = {}
      BY <1>2, <2>1, <2>2 DEF Checked, request, Working
    <3> QED
      BY <1>1, <1>2, <1>3, <2>1, <2>2, <3>1 DEF MapsInv, request, locals
  <2>7. \A w \in Stored : ~ Adding(c, w)
    BY <1>2 DEF Adding
  <2> QED
    BY <1>1, <1>2, <2>1, <2>3, <2>4, <2>5, <2>6, <2>7, QuietInv DEF store, history, StoredInv
<1> QED
  BY <1>4, <1>5

(* The record a client is at has a key.                                    *)
LEMMA CurrentRecord ==
  ASSUME MongoInv, NEW c \in Client, pc[c] \in Working \cup {"marshal", "upsert"}
  PROVE  /\ Current(c) \in DOMAIN heap /\ Current(c) \in Mine(c) /\ Current(c) \in Range(data[c])
         /\ heap[Current(c)] \in Map /\ heap[Current(c)].key \in Record
         /\ data[c] # NoResponse /\ item[c] \in 1..Len(data[c]) /\ Len(data[c]) \in Nat
<1>1. TypeOK /\ PlaceInv(c) /\ MapsInv(c)
  BY DEF MongoInv
<1>2. data[c] # NoResponse /\ item[c] \in 1..Len(data[c])
  BY <1>1 DEF PlaceInv
<1>3. /\ Len(data[c]) \in Nat
      /\ \A i \in 1..Len(data[c]) : /\ data[c][i] \in Mine(c) /\ data[c][i] \in DOMAIN heap
                                    /\ heap[data[c][i]] \in Map
      /\ Range(data[c]) = {data[c][i] : i \in 1..Len(data[c])}
  BY <1>1, <1>2, Facts
<1>4. item[c] \in Checked(c)
  BY <1>2, <1>3 DEF Checked
<1> QED
  BY <1>1, <1>2, <1>3, <1>4 DEF MapsInv, Current

(* Does the store have the record that was found?                          *)
LEMMA HasRefInv ==
  ASSUME MongoInv, NEW c \in Client, HasRef(c) PROVE MongoInv'
<1>1. TypeOK /\ MapsInv(c) /\ PlaceInv(c) /\ StoredInv
  BY DEF MongoInv
<1>2. /\ pc[c] = "has" /\ pc' = [pc EXCEPT ![c] = IF heap[Current(c)].key \in Stored THEN "link" ELSE "look"]
      /\ UNCHANGED <<db, store, heap, request, at, data, locals, history>>
  BY DEF HasRef, Goto
<1>3. /\ pc' \in [Client -> Points] /\ \A d \in Client \ {c} : pc'[d] = pc[d]
      /\ pc'[c] \in {"link", "look"} /\ pc'[c] = "link" => heap[Current(c)].key \in Stored
  BY <1>1, <1>2 DEF TypeOK, Points
<1>4. TypeOK'
  BY <1>1, <1>2, <1>3 DEF TypeOK, store, request, locals, history, reports
<1>5. OthersSame(c)
  BY <1>2, <1>3 DEF OthersSame, request, locals
<1>6. PlaceInv(c)'
  BY <1>1, <1>2, <1>3 DEF PlaceInv, Now, request, locals, Working
<1>7. MapsInv(c)'
  <2>1. Checked(c)' = Checked(c)
    BY <1>2, <1>3 DEF Checked, request, Working, Now, locals
  <2> QED
    BY <1>1, <1>2, <1>3, <2>1 DEF MapsInv, request, locals, Current, Stored, store
<1>8. \A w \in Stored : ~ Adding(c, w)
  BY <1>2 DEF Adding
<1> QED
  BY <1>1, <1>2, <1>4, <1>5, <1>6, <1>7, <1>8, QuietInv DEF store, history, StoredInv

(* The reference of a record the store has.                                *)
LEMMA LinkInv ==
  ASSUME MongoInv, NEW c \in Client, Link(c) PROVE MongoInv'
<1>1. TypeOK /\ MapsInv(c) /\ PlaceInv(c) /\ StoredInv
  BY DEF MongoInv
<1>2. /\ pc[c] = "link" /\ Advance(c)
      /\ linked' = linked \cup {heap[Current(c)].key}
      /\ UNCHANGED <<db, records, tainted, heap, request, data, locals, history>>
  BY DEF Link
<1>3. linked' \subseteq Stored /\ Stored \subseteq Record
  BY <1>1, <1>2 DEF MapsInv, StoredInv, Stored
<1>4. inrec[c] = NoMap /\ item[c] = 1 /\ data[c] # NoResponse
  BY <1>1, <1>2 DEF MapsInv, PlaceInv, Working
<1>5. /\ PlaceInv(c)' /\ MapsInv(c)' /\ pc' \in [Client -> Points]
      /\ at' \in [Client -> Nat \ {0}]
      /\ \A d \in Client \ {c} : pc'[d] = pc[d] /\ at'[d] = at[d]
  BY <1>1, <1>2, <1>4, AdvanceKeeps DEF request, locals, MapsInv
<1>6. TypeOK'
  BY <1>1, <1>2, <1>3, <1>5 DEF TypeOK, request, locals, history, reports
<1>7. OthersSame(c)
  BY <1>2, <1>5 DEF OthersSame, request, locals
<1>8. \A w \in Stored : ~ Adding(c, w)
  BY <1>2 DEF Adding
<1> QED
  BY <1>1, <1>2, <1>3, <1>5, <1>6, <1>7, <1>8, QuietInv DEF history

(* The first lock section of Add.                                          *)
LEMMA LookInv ==
  ASSUME MongoInv, NEW c \in Client, Look(c) PROVE MongoInv'
<1> DEFINE k == heap[Current(c)].key
<1>1. TypeOK /\ MapsInv(c) /\ PlaceInv(c) /\ StoredInv
  BY DEF MongoInv
<1>2. /\ pc[c] = "look" /\ pc' = [pc EXCEPT ![c] = IF k \in Stored THEN "merge" ELSE "insert"]
      /\ inrec' = [inrec EXCEPT ![c] = records[k]]
      /\ UNCHANGED <<db, store, heap, request, at, data, item, amount, sent, history>>
  BY DEF Look, Goto
<1>3. k \in Record
  BY <1>2, CurrentRecord DEF Working
<1>4. /\ pc' \in [Client -> Points] /\ \A d \in Client \ {c} : pc'[d] = pc[d] /\ inrec'[d] = inrec[d]
      /\ pc'[c] = IF k \in Stored THEN "merge" ELSE "insert"
      /\ inrec'[c] = records[k] /\ inrec' \in [Client -> DOMAIN heap \cup {NoMap}]
  BY <1>1, <1>2, <1>3 DEF TypeOK, Points
<1>5. TypeOK'
  BY <1>1, <1>2, <1>4 DEF TypeOK, store, request, history, reports
<1>6. OthersSame(c)
  BY <1>2, <1>4 DEF OthersSame, request
<1>7. PlaceInv(c)'
  BY <1>1, <1>2, <1>4 DEF PlaceInv, Now, request, Working
<1>8. MapsInv(c)'
  <2>1. Checked(c)' = Checked(c)
    BY <1>2, <1>4 DEF Checked, request, Working, Now
  <2>2. IF k \in Stored THEN inrec'[c] # NoMap /\ heap[inrec'[c]].key = k ELSE inrec'[c] = NoMap
    BY <1>1, <1>3, <1>4 DEF Stored, StoredInv
  <2>3. Current(c)' = Current(c)
    BY <1>2 DEF Current
  <2> QED
    BY <1>1, <1>2, <1>4, <2>1, <2>2, <2>3 DEF MapsInv, request
<1>9. \A w \in Stored : Adding(c, w) => Adding(c, w)'
  BY <1>2, <1>4 DEF Adding, Current
<1> QED
  BY <1>1, <1>2, <1>5, <1>6, <1>7, <1>8, <1>9, QuietInv DEF store, history, StoredInv

(* The first records of a response.                                        *)
LEMMA FirstOnes ==
  ASSUME MongoInv, NEW c \in Client, AllOfLast(c), Now(c).amount <= Len(data[c])
  PROVE  /\ data' \in [Client -> {NoResponse} \cup Seq(DOMAIN heap)] /\ data'[c] # NoResponse
         /\ \A d \in Client \ {c} : data'[d] = data[d]
         /\ data'[c] \in Seq(DOMAIN heap) /\ Len(data'[c]) \in 0..Len(data[c])
         /\ \A i \in 1..Len(data'[c]) : data'[c][i] = data[c][i]
         /\ Now(c).amount < 0 => data'[c] = data[c]
         /\ ~ Now(c).amount < 0 => Len(data'[c]) = 1
<1> DEFINE first == IF Now(c).amount < 0 THEN data[c] ELSE SubSeq(data[c], 1, Now(c).amount)
<1>1. TypeOK /\ pc[c] = "step" /\ data[c] # NoResponse /\ data' = [data EXCEPT ![c] = first]
  BY DEF AllOfLast, MongoInv
<1>2. data[c] \in Seq(DOMAIN heap) /\ Len(data[c]) \in Nat
  BY <1>1, Facts
<1>3. Now(c).amount \in {-1, 1}
  BY <1>1, StepNow DEF Step
<1>4. CASE Now(c).amount < 0
  <2>1. first = data[c]
    BY <1>4
  <2> HIDE DEF first
  <2> QED
    BY <1>1, <1>2, <1>4, <2>1 DEF TypeOK
<1>5. CASE ~ Now(c).amount < 0
  <2>1. Now(c).amount = 1 /\ first = SubSeq(data[c], 1, 1) /\ 1 <= Len(data[c])
    BY <1>3, <1>5
  <2>2. /\ SubSeq(data[c], 1, 1) \in Seq(DOMAIN heap) /\ Len(SubSeq(data[c], 1, 1)) = 1
        /\ SubSeq(data[c], 1, 1)[1] = data[c][1]
    BY <1>2, <2>1, SubSeqProperties
  <2> HIDE DEF first
  <2>3. /\ first \in Seq(DOMAIN heap) /\ Len(first) = 1 /\ first[1] = data[c][1]
    BY <2>1, <2>2
  <2>4. /\ data' \in [Client -> {NoResponse} \cup Seq(DOMAIN heap)] /\ data'[c] = first
        /\ \A d \in Client \ {c} : data'[d] = data[d]
    BY <1>1, <2>3 DEF TypeOK
  <2>5. first # NoResponse
    <3>1. \A i \in 1..Len(first) : first[i] \in Ref
      BY <1>1, <2>3, ListOf DEF TypeOK
    <3>2. Range(first) \subseteq Ref
      BY <2>3, <3>1, ListOf
    <3>3. first \in Seq(Ref)
      BY <2>3, <3>2, ListOf
    <3> QED
      BY <3>3, NothingIsNone
  <2> QED
    BY <1>2, <1>5, <2>1, <2>3, <2>4, <2>5
<1> QED
  BY <1>4, <1>5

LEMMA AllOfLastInv ==
  ASSUME MongoInv, NEW c \in Client, AllOfLast(c) PROVE MongoInv'
<1>1. TypeOK /\ MapsInv(c) /\ PlaceInv(c) /\ StoredInv
  BY DEF MongoInv
<1>2. /\ pc[c] = "step" /\ Now(c).op = "all" /\ data[c] # NoResponse
      /\ UNCHANGED <<db, store, heap, request, locals, history>>
  BY DEF AllOfLast
<1>3. inrec[c] = NoMap /\ item[c] = 1
  BY <1>1, <1>2 DEF MapsInv, PlaceInv
<1>4. \A w \in Stored : ~ Adding(c, w)
  BY <1>2 DEF Adding
<1>5. /\ data[c] \in Seq(DOMAIN heap) /\ Len(data[c]) \in Nat
      /\ Range(data[c]) = {data[c][i] : i \in 1..Len(data[c])}
  BY <1>1, <1>2, Facts
<1>6. CASE Now(c).amount <= Len(data[c])
  <2>1. Advance(c)
    BY <1>2, <1>6 DEF AllOfLast
  <2>2. /\ data' \in [Client -> {NoResponse} \cup Seq(DOMAIN heap)] /\ data'[c] # NoResponse
        /\ \A d \in Client \ {c} : data'[d] = data[d]
        /\ data'[c] \in Seq(DOMAIN heap) /\ Len(data'[c]) \in 0..Len(data[c])
        /\ \A i \in 1..Len(data'[c]) : data'[c][i] = data[c][i]
    BY <1>6, FirstOnes
  <2>4. /\ PlaceInv(c)' /\ MapsInv(c)' /\ pc' \in [Client -> Points]
        /\ at' \in [Client -> Nat \ {0}]
        /\ \A d \in Client \ {c} : pc'[d] = pc[d] /\ at'[d] = at[d]
    BY <1>2, <1>3, <2>1, <2>2, AdvanceKeeps DEF request, locals
  <2>5. TypeOK'
    BY <1>1, <1>2, <2>2, <2>4 DEF TypeOK, store, request, locals, history, reports
  <2>6. OthersSame(c)
    BY <1>2, <2>2, <2>4 DEF OthersSame, request, locals
  <2>7. Range(data'[c]) \subseteq Range(data[c])
    <3>1. Range(data'[c]) = {data'[c][i] : i \in 1..Len(data'[c])}
      BY <2>2, ListOf
    <3> QED
      BY <1>5, <2>2, <3>1
  <2> QED
    BY <1>1, <1>2, <1>4, <2>4, <2>5, <2>6, <2>7, QuietInv DEF store, history, StoredInv
<1>7. CASE ~ Now(c).amount <= Len(data[c])
  <2>1. Fails(c) /\ UNCHANGED data
    BY <1>2, <1>7 DEF AllOfLast
  <2>2. /\ PlaceInv(c)' /\ MapsInv(c)' /\ pc' \in [Client -> Points] /\ at' = at
        /\ \A d \in Client \ {c} : pc'[d] = pc[d]
    BY <1>1, <1>2, <1>3, <2>1, FailsKeeps DEF MapsInv, request, locals
  <2>3. TypeOK'
    BY <1>1, <1>2, <2>1, <2>2 DEF TypeOK, store, request, locals, history, reports
  <2>4. OthersSame(c)
    BY <1>2, <2>1, <2>2 DEF OthersSame, request, locals
  <2> QED
    BY <1>1, <1>2, <1>4, <2>1, <2>2, <2>3, <2>4, QuietInv DEF store, history, StoredInv
<1> QED
  BY <1>6, <1>7

(* How many records are asked for.                                         *)
LEMMA CountInv ==
  ASSUME MongoInv, NEW c \in Client, Count(c) PROVE MongoInv'
<1> DEFINE n == IF Now(c).amount < 0 THEN Cardinality(InDb) ELSE Now(c).amount
<1>1. TypeOK /\ MapsInv(c) /\ PlaceInv(c) /\ StoredInv
  BY DEF MongoInv
<1>2. /\ pc[c] = "step" /\ Now(c).op = "all" /\ data[c] = NoResponse
      /\ amount' = [amount EXCEPT ![c] = n] /\ pc' = [pc EXCEPT ![c] = "length"]
      /\ UNCHANGED <<db, store, heap, request, at, data, item, inrec, sent, history>>
  BY DEF Count, FirstAll, Goto
<1>3. n \in Nat
  <2>1. Now(c).amount \in {-1, 1}
    BY <1>2, StepNow DEF Step
  <2>2. Cardinality(InDb) \in Nat
    <3>1. IsFiniteSet(InDb)
      BY RecordsAreFinite, FS_Subset DEF InDb
    <3> QED
      BY <3>1, FS_CardinalityType
  <2> QED
    BY <2>1, <2>2
<1> HIDE DEF n
<1>4. /\ pc' \in [Client -> Points] /\ \A d \in Client \ {c} : pc'[d] = pc[d]
      /\ pc'[c] = "length" /\ amount' \in [Client -> Nat]
  BY <1>1, <1>2, <1>3 DEF TypeOK, Points
<1>5. TypeOK'
  BY <1>1, <1>2, <1>4 DEF TypeOK, store, request, history, reports
<1>6. OthersSame(c)
  BY <1>2, <1>4 DEF OthersSame, request
<1>7. PlaceInv(c)'
  BY <1>1, <1>2, <1>4 DEF PlaceInv, Now, request, Working
<1>8. MapsInv(c)'
  BY <1>1, <1>2, <1>4 DEF MapsInv, request
<1>9. \A w \in Stored : ~ Adding(c, w)
  BY <1>2 DEF Adding
<1> QED
  BY <1>1, <1>2, <1>5, <1>6, <1>7, <1>8, <1>9, QuietInv DEF store, history, StoredInv

(* Has the store as many?                                                  *)
LEMMA LengthInv ==
  ASSUME MongoInv, NEW c \in Client, Length(c) PROVE MongoInv'
<1>1. TypeOK /\ MapsInv(c) /\ PlaceInv(c) /\ StoredInv
  BY DEF MongoInv
<1>2. /\ pc[c] = "length"
      /\ \/ pc' = [pc EXCEPT ![c] = "select"]
         \/ pc' = [pc EXCEPT ![c] = "readAll"]
      /\ UNCHANGED <<db, store, heap, request, at, data, locals, history>>
  BY DEF Length, Goto
<1>3. /\ pc' \in [Client -> Points] /\ \A d \in Client \ {c} : pc'[d] = pc[d]
      /\ pc'[c] \in {"select", "readAll"}
  BY <1>1, <1>2 DEF TypeOK, Points
<1>4. TypeOK'
  BY <1>1, <1>2, <1>3 DEF TypeOK, store, request, locals, history, reports
<1>5. OthersSame(c)
  BY <1>2, <1>3 DEF OthersSame, request, locals
<1>6. PlaceInv(c)'
  BY <1>1, <1>2, <1>3 DEF PlaceInv, Now, request, locals, Working
<1>7. MapsInv(c)'
  <2>1. Checked(c)' = {}
    BY <1>2, <1>3 DEF Checked, request, Working
  <2> QED
    BY <1>1, <1>2, <1>3, <2>1 DEF MapsInv, request, locals
<1>8. \A w \in Stored : ~ Adding(c, w)
  BY <1>2 DEF Adding
<1> QED
  BY <1>1, <1>2, <1>4, <1>5, <1>6, <1>7, <1>8, QuietInv DEF store, history, StoredInv

(* A Mutate that fails or panics.                                          *)
LEMMA MutateFailsInv ==
  ASSUME MongoInv, NEW c \in Client, MutateFails(c) PROVE MongoInv'
<1>1. TypeOK /\ MapsInv(c) /\ StoredInv
  BY DEF MongoInv
<1>2. /\ pc[c] = "step" /\ Fails(c)
      /\ UNCHANGED <<db, store, heap, request, data, locals, history>>
  BY DEF MutateFails
<1>3. /\ PlaceInv(c)' /\ MapsInv(c)' /\ pc' \in [Client -> Points] /\ at' = at
      /\ \A d \in Client \ {c} : pc'[d] = pc[d]
  BY <1>1, <1>2, FailsKeeps DEF MapsInv, request, locals
<1>4. TypeOK'
  BY <1>1, <1>2, <1>3 DEF TypeOK, store, request, locals, history, reports
<1>5. OthersSame(c)
  BY <1>2, <1>3 DEF OthersSame, request, locals
<1>6. \A k \in Stored : ~ Adding(c, k)
  BY <1>2 DEF Adding
<1> QED
  BY <1>1, <1>2, <1>3, <1>4, <1>5, <1>6, QuietInv DEF store, history, StoredInv

(* A map is encoded.                                                       *)
LEMMA MarshalInv ==
  ASSUME MongoInv, NEW c \in Client, Marshal(c) PROVE MongoInv'
<1>1. TypeOK /\ MapsInv(c) /\ PlaceInv(c) /\ StoredInv
  BY DEF MongoInv
<1>2. /\ pc[c] = "marshal" /\ pc' = [pc EXCEPT ![c] = "upsert"]
      /\ sent' = [sent EXCEPT ![c] = heap[Current(c)]]
      /\ UNCHANGED <<db, store, heap, request, at, data, item, inrec, amount, history>>
  BY DEF Marshal, Goto
<1>3. heap[Current(c)] \in Map /\ heap[Current(c)].key \in Record
  BY <1>2, CurrentRecord
<1>4. /\ pc' \in [Client -> Points] /\ pc'[c] = "upsert"
      /\ \A d \in Client \ {c} : pc'[d] = pc[d] /\ sent'[d] = sent[d]
      /\ sent' \in [Client -> Map \cup {NoMap}] /\ sent'[c] = heap[Current(c)]
  <2> HIDE DEF Map
  <2> QED
    BY <1>1, <1>2, <1>3 DEF TypeOK, Points
<1>5. TypeOK'
  BY <1>1, <1>2, <1>4 DEF TypeOK, store, request, history, reports
<1>6. OthersSame(c)
  BY <1>2, <1>4 DEF OthersSame, request
<1>7. PlaceInv(c)'
  BY <1>1, <1>2, <1>4 DEF PlaceInv, Now, request, Working
<1>8. MapsInv(c)'
  <2>1. Checked(c)' = Checked(c)
    BY <1>2, <1>4 DEF Checked, request
  <2> QED
    BY <1>1, <1>2, <1>3, <1>4, <2>1 DEF MapsInv, request
<1>9. \A w \in Stored : ~ Adding(c, w)
  BY <1>2 DEF Adding
<1> QED
  BY <1>1, <1>2, <1>5, <1>6, <1>7, <1>8, <1>9, QuietInv DEF store, history, StoredInv

(* A document is written with what was sent.                               *)
LEMMA Written ==
  ASSUME MongoInv, NEW c \in Client, pc[c] = "upsert"
  PROVE  /\ sent[c].key \in Record
         /\ [db EXCEPT ![sent[c].key] = DocOf(sent[c])] \in [Record -> Doc \cup {NoDoc}]
<1>1. sent[c] \in Map /\ sent[c].key \in Record /\ db \in [Record -> Doc \cup {NoDoc}]
  BY DEF MongoInv, MapsInv, TypeOK
<1>2. DocOf(sent[c]) \in Doc
  BY <1>1 DEF DocOf, Map, Doc
<1> QED
  BY <1>1, <1>2

(* The document is written.                                                *)
LEMMA UpsertInv ==
  ASSUME MongoInv, NEW c \in Client, Upsert(c) PROVE MongoInv'
<1>1. TypeOK /\ MapsInv(c) /\ PlaceInv(c) /\ StoredInv
  BY DEF MongoInv
<1>2. /\ pc[c] = "upsert" /\ sent' = [sent EXCEPT ![c] = NoMap]
      /\ UNCHANGED <<store, heap, request, data, inrec, amount, reports, replaced, rekeyed>>
  BY DEF Upsert
<1>3. inrec[c] = NoMap /\ data[c] # NoResponse /\ item[c] \in 1..Len(data[c]) /\ Len(data[c]) \in Nat
  BY <1>1, <1>2, CurrentRecord DEF MapsInv, Working
<1>4. /\ sent' \in [Client -> Map \cup {NoMap}] /\ \A d \in Client \ {c} : sent'[d] = sent[d]
      /\ db' \in [Record -> Doc \cup {NoDoc}] /\ suspect' \subseteq Record
  <2>1. sent' \in [Client -> Map \cup {NoMap}] /\ \A d \in Client \ {c} : sent'[d] = sent[d]
    <3> HIDE DEF Map
    <3> QED
      BY <1>1, <1>2 DEF TypeOK
  <2>2. sent[c].key \in Record /\ db' \in [Record -> Doc \cup {NoDoc}]
    BY <1>2, Written DEF Upsert
  <2>3. suspect' \subseteq Record
    BY <1>1, <2>2 DEF Upsert, TypeOK
  <2> QED
    BY <2>1, <2>2, <2>3
<1>5. /\ item' \in [Client -> Nat \ {0}] /\ \A d \in Client \ {c} : item'[d] = item[d]
  <2>1. item' = [item EXCEPT ![c] = item[c] + 1] \/ item' = [item EXCEPT ![c] = 1]
    BY DEF Upsert
  <2>2. item \in [Client -> Nat \ {0}]
    BY <1>1 DEF TypeOK
  <2> QED
    BY <2>1, <2>2
<1>6. /\ PlaceInv(c)' /\ MapsInv(c)' /\ pc' \in [Client -> Points]
      /\ at' \in [Client -> Nat \ {0}]
      /\ \A d \in Client \ {c} : pc'[d] = pc[d] /\ at'[d] = at[d]
  <2>1. CASE item[c] < Len(data[c])
    <3>1. /\ pc' = [pc EXCEPT ![c] = "marshal"] /\ item' = [item EXCEPT ![c] = @ + 1] /\ at' = at
      BY <2>1 DEF Upsert, Goto
    <3>2. /\ pc' \in [Client -> Points] /\ pc'[c] = "marshal" /\ item'[c] = item[c] + 1
          /\ \A d \in Client \ {c} : pc'[d] = pc[d]
      BY <1>1, <3>1 DEF TypeOK, Points
    <3>3. PlaceInv(c)'
      BY <1>1, <1>2, <1>3, <2>1, <3>1, <3>2 DEF PlaceInv, Now, request, Working
    <3>4. Checked(c)' = Checked(c)
      BY <1>2, <3>1, <3>2 DEF Checked, request
    <3>5. MapsInv(c)'
      BY <1>1, <1>2, <1>3, <3>1, <3>2, <3>4 DEF MapsInv, request
    <3> QED
      BY <1>1, <3>1, <3>2, <3>3, <3>5 DEF TypeOK
  <2>2. CASE ~ item[c] < Len(data[c])
    <3>1. Advance(c) /\ item' = [item EXCEPT ![c] = 1]
      BY <2>2 DEF Upsert
    <3>2. item'[c] = 1
      BY <1>1, <3>1 DEF TypeOK
    <3> QED
      BY <1>1, <1>2, <1>3, <3>1, <3>2, AdvanceKeeps DEF request, MapsInv
  <2> QED
    BY <2>1, <2>2
<1>7. TypeOK'
  BY <1>1, <1>2, <1>4, <1>5, <1>6 DEF TypeOK, store, request, reports
<1>8. OthersSame(c)
  BY <1>2, <1>4, <1>5, <1>6 DEF OthersSame, request
<1>9. \A w \in Stored : ~ Adding(c, w)
  BY <1>2 DEF Adding
<1> QED
  BY <1>1, <1>2, <1>6, <1>7, <1>8, <1>9, QuietInv DEF store, StoredInv

(* The document is written or not, and the step fails.                     *)
LEMMA UpsertFailsInv ==
  ASSUME MongoInv, NEW c \in Client, UpsertFails(c) PROVE MongoInv'
<1>1. TypeOK /\ MapsInv(c) /\ PlaceInv(c) /\ StoredInv
  BY DEF MongoInv
<1>2. /\ pc[c] = "upsert" /\ Fails(c)
      /\ suspect' = suspect \cup {heap[r].key : r \in Range(data[c])}
      /\ UNCHANGED <<store, heap, request, data, locals, reports, replaced, rekeyed>>
  BY DEF UpsertFails
<1>3. inrec[c] = NoMap /\ data[c] # NoResponse
  BY <1>1, <1>2, CurrentRecord DEF MapsInv, Working
<1>4. db' \in [Record -> Doc \cup {NoDoc}] /\ suspect' \subseteq Record
  <2>1. db' \in [Record -> Doc \cup {NoDoc}]
    <3>1. db \in [Record -> Doc \cup {NoDoc}]
      BY <1>1 DEF TypeOK
    <3> QED
      BY <1>2, <3>1, Written DEF UpsertFails
  <2>2. Range(data[c]) = {data[c][i] : i \in 1..Len(data[c])}
    BY <1>1, <1>3, Facts
  <2>3. \A i \in 1..Len(data[c]) : heap[data[c][i]].key \in Record
    BY <1>1, <1>2, <1>3 DEF MapsInv, Checked
  <2> QED
    BY <1>1, <1>2, <2>1, <2>2, <2>3 DEF TypeOK
<1>5. /\ PlaceInv(c)' /\ MapsInv(c)' /\ pc' \in [Client -> Points] /\ at' = at
      /\ \A d \in Client \ {c} : pc'[d] = pc[d]
  BY <1>1, <1>2, <1>3, FailsKeeps DEF MapsInv, request, locals
<1>6. TypeOK'
  BY <1>1, <1>2, <1>4, <1>5 DEF TypeOK, store, request, locals, reports
<1>7. OthersSame(c)
  BY <1>2, <1>5 DEF OthersSame, request, locals
<1>8. \A k \in Stored : ~ Adding(c, k)
  BY <1>2 DEF Adding
<1> QED
  BY <1>1, <1>2, <1>5, <1>6, <1>7, <1>8, QuietInv DEF store, StoredInv

(* A client asks.                                                          *)
LEMMA StartInv ==
  ASSUME MongoInv, NEW c \in Client, NEW steps \in Chains, Start(c, steps) PROVE MongoInv'
<1>1. TypeOK /\ MapsInv(c) /\ PlaceInv(c) /\ StoredInv
  BY DEF MongoInv
<1>2. /\ pc[c] = "idle" /\ started < MaxChains /\ started' = started + 1
      /\ chain' = [chain EXCEPT ![c] = steps] /\ version' = [version EXCEPT ![c] = started + 1]
      /\ pc' = [pc EXCEPT ![c] = "step"]
      /\ suspect' = suspect \cup
           UNION {Footprint(steps) \cap Footprint(chain[d]) : d \in
                    {e \in Client : Running(e) /\ (Writes(steps) \/ Writes(chain[e]))}}
      /\ UNCHANGED <<db, store, heap, at, data, locals, reports, replaced, rekeyed>>
  BY DEF Start, Goto
<1>3. steps \in Seq(Step) /\ 1 \in 1..Len(steps) /\ steps[1] \in Step
  <2>1. steps \in Seq(Step) /\ steps # <<>>
    BY ChainsAreSteps
  <2>2. Len(steps) \in Nat /\ Len(steps) # 0
    <3> HIDE DEF Step
    <3> QED
      BY <2>1, EmptySeq, ListOf
  <2>3. 1 \in 1..Len(steps)
    BY <2>2
  <2>4. steps[1] \in Step
    <3> HIDE DEF Step
    <3> QED
      BY <2>1, <2>3, ListOf
  <2> QED
    BY <2>1, <2>3, <2>4
<1>4. suspect' \subseteq Record
  <2>1. Footprint(steps) \subseteq Record
    BY DEF Footprint
  <2> QED
    BY <1>1, <1>2, <2>1 DEF TypeOK
<1>5. /\ pc' \in [Client -> Points] /\ pc'[c] = "step" /\ chain'[c] = steps
      /\ \A d \in Client \ {c} : pc'[d] = pc[d] /\ chain'[d] = chain[d]
      /\ chain' \in [Client -> Chains \cup {<<>>}]
      /\ started' \in 0..MaxChains /\ version' \in [Client -> Version]
  BY <1>1, <1>2, RecordsAreFinite DEF TypeOK, Points, Version
<1>6. TypeOK'
  BY <1>1, <1>2, <1>4, <1>5 DEF TypeOK, store, locals, reports
<1>7. OthersSame(c)
  BY <1>2, <1>5 DEF OthersSame, locals
<1>8. PlaceInv(c)'
  BY <1>1, <1>2, <1>3, <1>5 DEF PlaceInv, Now, locals, Working
<1>9. MapsInv(c)'
  BY <1>1, <1>2, <1>5 DEF MapsInv, PlaceInv, locals
<1>10. \A w \in Stored : ~ Adding(c, w)
  BY <1>2 DEF Adding
<1> QED
  BY <1>1, <1>2, <1>6, <1>7, <1>8, <1>9, <1>10, QuietInv DEF store, StoredInv

-----------------------------------------------------------------------------
(* Add of a record has returned: the next one, or the next place.          *)
LEMMA AddedKeeps ==
  ASSUME MongoInv, NEW c \in Client, pc[c] \in {"insert", "taint"}, Added(c),
         UNCHANGED <<heap, chain, data, sent>>, inrec'[c] = NoMap,
         heap[Current(c)].key \in Stored'
  PROVE  /\ PlaceInv(c)' /\ MapsInv(c)'
         /\ pc' \in [Client -> Points] /\ at' \in [Client -> Nat \ {0}]
         /\ item' \in [Client -> Nat \ {0}]
         /\ \A d \in Client \ {c} : pc'[d] = pc[d] /\ at'[d] = at[d] /\ item'[d] = item[d]
<1>1. /\ TypeOK /\ MapsInv(c) /\ PlaceInv(c)
      /\ pc \in [Client -> Points] /\ at \in [Client -> Nat \ {0}] /\ item \in [Client -> Nat \ {0}]
  BY DEF MongoInv, TypeOK
<1>2. data[c] # NoResponse /\ item[c] \in 1..Len(data[c]) /\ Len(data[c]) \in Nat
  BY CurrentRecord DEF Working
<1>4. CASE Now(c).op = "find"
  <2>1. pc' = [pc EXCEPT ![c] = "link"] /\ at' = at /\ item' = item
    BY <1>4 DEF Added, Goto
  <2>2. /\ pc' \in [Client -> Points] /\ pc'[c] = "link"
        /\ \A d \in Client \ {c} : pc'[d] = pc[d]
    BY <1>1, <2>1 DEF Points
  <2>3. PlaceInv(c)'
    BY <1>1, <1>2, <1>4, <2>1, <2>2 DEF PlaceInv, Now, Working
  <2>4. Checked(c)' = Checked(c)
    BY <1>4, <2>1, <2>2 DEF Checked, Working, Now
  <2>5. MapsInv(c)'
    BY <1>1, <1>2, <2>1, <2>2, <2>4 DEF MapsInv, Current
  <2> QED
    BY <1>1, <2>1, <2>2, <2>3, <2>5
<1>5. CASE Now(c).op # "find" /\ item[c] < Len(data[c])
  <2>1. /\ item' = [item EXCEPT ![c] = @ + 1] /\ at' = at
        /\ pc' = [pc EXCEPT ![c] = IF Now(c).op = "all" THEN "look" ELSE "step"]
    BY <1>2, <1>5 DEF Added, Goto
  <2>2. /\ pc' \in [Client -> Points] /\ \A d \in Client \ {c} : pc'[d] = pc[d]
        /\ pc'[c] = IF Now(c).op = "all" THEN "look" ELSE "step"
    BY <1>1, <2>1 DEF Points
  <2>3. /\ item' \in [Client -> Nat \ {0}] /\ \A d \in Client \ {c} : item'[d] = item[d]
        /\ item'[c] = item[c] + 1
    BY <1>1, <2>1
  <2>4. Now(c).op \in {"all", "mutate"}
    <3>1. Now(c).op \in {"find", "all", "collect", "mutate"}
      BY StepNow DEF Step
    <3> QED
      BY <1>1, <1>5, <3>1 DEF PlaceInv, Working
  <2>5. PlaceInv(c)'
    BY <1>1, <1>2, <1>5, <2>1, <2>2, <2>3, <2>4 DEF PlaceInv, Now, Working
  <2>7. Checked(c)' = Checked(c)
    <3>1. Now(c).op = "mutate" => Checked(c) = 1..item[c] /\ pc'[c] = "step"
      BY <2>2 DEF Checked, Working
    <3>2. pc'[c] = "step" => Checked(c)' = 1..item[c]
      BY <1>2, <2>3 DEF Checked, Working
    <3>3. Now(c).op = "all" => Checked(c) = 1..Len(data[c]) /\ Checked(c)' = 1..Len(data[c])
      BY <2>1, <2>2 DEF Checked, Working, Now
    <3> QED
      BY <2>4, <3>1, <3>2, <3>3
  <2>8. MapsInv(c)'
    BY <1>1, <1>2, <2>2, <2>7 DEF MapsInv
  <2> QED
    BY <1>1, <2>1, <2>2, <2>3, <2>5, <2>8
<1>6. CASE Now(c).op = "all" /\ item[c] = Len(data[c])
  <2>1. item' = [item EXCEPT ![c] = 1] /\ Advance(c)
    BY <1>2, <1>6 DEF Added
  <2>2. /\ item' \in [Client -> Nat \ {0}] /\ \A d \in Client \ {c} : item'[d] = item[d]
        /\ item'[c] = 1
    BY <1>1, <2>1
  <2> QED
    BY <1>2, <2>1, <2>2, AdvanceKeeps
<1>7. CASE Now(c).op = "mutate" /\ item[c] = Len(data[c])
  <2>1. item' = [item EXCEPT ![c] = 1] /\ pc' = [pc EXCEPT ![c] = "marshal"] /\ at' = at
    BY <1>2, <1>7 DEF Added, Goto
  <2>2. /\ item' \in [Client -> Nat \ {0}] /\ \A d \in Client \ {c} : item'[d] = item[d]
        /\ item'[c] = 1
        /\ pc' \in [Client -> Points] /\ pc'[c] = "marshal"
        /\ \A d \in Client \ {c} : pc'[d] = pc[d]
    BY <1>1, <2>1 DEF Points
  <2>3. PlaceInv(c)'
    BY <1>1, <1>2, <1>7, <2>1, <2>2 DEF PlaceInv, Now, Working
  <2>4. Checked(c) = 1..Len(data[c]) /\ Checked(c)' = 1..Len(data[c])
    BY <1>7, <2>2 DEF Checked, Working
  <2>6. MapsInv(c)'
    BY <1>1, <1>2, <2>2, <2>4 DEF MapsInv
  <2> QED
    BY <1>1, <2>1, <2>2, <2>3, <2>6
<1> QED
  <2>1. ~ (item[c] < Len(data[c])) => item[c] = Len(data[c])
    BY <1>2
  <2> QED
    BY <1>4, <1>5, <1>6, <1>7 DEF Added

(* The second lock section of Add stores its own map.                      *)
LEMMA InsertInv ==
  ASSUME MongoInv, NEW c \in Client, Insert(c) PROVE MongoInv'
<1> DEFINE k == heap[Current(c)].key
<1>1. TypeOK /\ MapsInv(c) /\ PlaceInv(c) /\ StoredInv
  BY DEF MongoInv
<1>2. /\ pc[c] = "insert" /\ Added(c)
      /\ records' = [records EXCEPT ![k] = Current(c)]
      /\ reported' = [reported EXCEPT ![k] = heap[Current(c)]]
      /\ replaced' = IF k \in Stored THEN replaced \cup {k} ELSE replaced
      /\ UNCHANGED <<db, tainted, linked, heap, request, data, inrec, amount, sent, unread, missed,
                     suspect, rekeyed>>
  BY DEF Insert
<1>3. /\ k \in Record /\ Current(c) \in DOMAIN heap /\ heap[Current(c)] \in Map
      /\ data[c] # NoResponse /\ Current(c) \in Ref /\ Current(c) # NoMap
  <2>1. /\ k \in Record /\ Current(c) \in DOMAIN heap /\ heap[Current(c)] \in Map
        /\ data[c] # NoResponse
    BY <1>2, CurrentRecord DEF Working
  <2> QED
    BY <1>1, <2>1, NothingIsNone DEF TypeOK
<1>4. /\ records' \in [Record -> Ref \cup {NoMap}] /\ records'[k] = Current(c)
      /\ \A j \in Record \ {k} : records'[j] = records[j]
      /\ reported' \in [Record -> Map \cup {NoMap}] /\ reported'[k] = heap[Current(c)]
      /\ \A j \in Record \ {k} : reported'[j] = reported[j]
      /\ replaced' \subseteq Record
  <2> HIDE DEF Map
  <2> QED
    BY <1>1, <1>2, <1>3 DEF TypeOK
<1>5. Stored' = Stored \cup {k} /\ Stored \subseteq Record
  BY <1>3, <1>4 DEF Stored
<1>6. inrec[c] = NoMap
  BY <1>1, <1>2 DEF MapsInv
<1>7. /\ PlaceInv(c)' /\ MapsInv(c)'
      /\ pc' \in [Client -> Points] /\ at' \in [Client -> Nat \ {0}]
      /\ item' \in [Client -> Nat \ {0}]
      /\ \A d \in Client \ {c} : pc'[d] = pc[d] /\ at'[d] = at[d] /\ item'[d] = item[d]
  BY <1>2, <1>5, <1>6, AddedKeeps DEF request
<1>8. TypeOK'
  BY <1>1, <1>2, <1>3, <1>4, <1>7 DEF TypeOK, request
<1>9. OthersSame(c)
  BY <1>2, <1>7 DEF OthersSame, request
<1>10. \A d \in Client \ {c} : KeysKept(d)
  BY <1>2 DEF KeysKept, Mine
<1>11. StoredInv'
  BY <1>1, <1>2, <1>4, <1>5 DEF StoredInv
<1>12. data'[c] # NoResponse =>
         \A d \in Client \ {c} : data[d] # NoResponse =>
           \A r \in Range(data'[c]) \cap Range(data[d]) : heap'[r].key \in Record
  BY <1>2 DEF MongoInv, ApartInv
<1>13. ASSUME NEW j \in Stored' \ (replaced' \cup missed')
       PROVE  \/ heap'[records'[j]] = reported'[j]
              \/ /\ j \in Stored \ (replaced \cup missed) /\ ~ Adding(c, j)
                 /\ j \in unread => j \in unread'
                 /\ heap'[records'[j]] = heap[records[j]] /\ reported'[j] = reported[j]
  <2>1. CASE j = k
    BY <1>2, <1>4, <2>1
  <2>2. CASE j # k
    BY <1>2, <1>4, <1>5, <2>2 DEF Adding
  <2> QED
    BY <2>1, <2>2
<1>14. unread' \subseteq tainted'
  BY <1>2 DEF MongoInv, ReportsInv
<1> QED
  BY <1>5, <1>7, <1>8, <1>9, <1>10, <1>11, <1>12, <1>13, <1>14, StepInv

(* It stores the map it merged into, and taints it.                        *)
LEMMA TaintInv ==
  ASSUME MongoInv, NEW c \in Client, Taint(c) PROVE MongoInv'
<1> DEFINE k == heap[Current(c)].key
<1>1. TypeOK /\ MapsInv(c) /\ PlaceInv(c) /\ StoredInv
  BY DEF MongoInv
<1>2. /\ pc[c] = "taint" /\ Added(c)
      /\ records' = [records EXCEPT ![k] = inrec[c]] /\ tainted' = tainted \cup {k}
      /\ unread' = unread \cup {k} /\ inrec' = [inrec EXCEPT ![c] = NoMap]
      /\ UNCHANGED <<db, linked, heap, request, data, amount, sent, reported, missed, suspect,
                     replaced, rekeyed>>
  BY DEF Taint
<1>3. k \in Record /\ data[c] # NoResponse
  BY <1>2, CurrentRecord DEF Working
<1>4. /\ inrec[c] \in DOMAIN heap /\ inrec[c] # NoMap /\ heap[inrec[c]].key = k /\ inrec[c] \in Ref
  BY <1>1, <1>2 DEF MapsInv, TypeOK
<1>5. /\ records' \in [Record -> Ref \cup {NoMap}] /\ records'[k] = inrec[c]
      /\ \A j \in Record \ {k} : records'[j] = records[j]
      /\ inrec' \in [Client -> DOMAIN heap \cup {NoMap}] /\ inrec'[c] = NoMap
      /\ \A d \in Client \ {c} : inrec'[d] = inrec[d]
  BY <1>1, <1>2, <1>3, <1>4 DEF TypeOK
<1>6. Stored' = Stored \cup {k} /\ Stored \subseteq Record
  BY <1>3, <1>4, <1>5 DEF Stored
<1>7. /\ PlaceInv(c)' /\ MapsInv(c)'
      /\ pc' \in [Client -> Points] /\ at' \in [Client -> Nat \ {0}]
      /\ item' \in [Client -> Nat \ {0}]
      /\ \A d \in Client \ {c} : pc'[d] = pc[d] /\ at'[d] = at[d] /\ item'[d] = item[d]
  BY <1>2, <1>5, <1>6, AddedKeeps DEF request
<1>8. TypeOK'
  BY <1>1, <1>2, <1>3, <1>4, <1>5, <1>7 DEF TypeOK, request
<1>9. OthersSame(c)
  BY <1>2, <1>5, <1>7 DEF OthersSame, request
<1>10. \A d \in Client \ {c} : KeysKept(d)
  BY <1>2 DEF KeysKept, Mine
<1>11. StoredInv'
  BY <1>1, <1>2, <1>4, <1>5, <1>6 DEF StoredInv
<1>12. data'[c] # NoResponse =>
         \A d \in Client \ {c} : data[d] # NoResponse =>
           \A r \in Range(data'[c]) \cap Range(data[d]) : heap'[r].key \in Record
  BY <1>2 DEF MongoInv, ApartInv
<1>13. ASSUME NEW j \in Stored' \ (replaced' \cup missed')
       PROVE  \/ j \in unread'
              \/ /\ j \in Stored \ (replaced \cup missed) /\ ~ Adding(c, j)
                 /\ j \in unread => j \in unread'
                 /\ heap'[records'[j]] = heap[records[j]] /\ reported'[j] = reported[j]
  <2>1. CASE j = k
    BY <1>2, <2>1
  <2>2. CASE j # k
    BY <1>2, <1>5, <1>6, <2>2 DEF Adding
  <2> QED
    BY <2>1, <2>2
<1>14. unread' \subseteq tainted'
  BY <1>2 DEF MongoInv, ReportsInv
<1> QED
  BY <1>6, <1>7, <1>8, <1>9, <1>10, <1>11, <1>12, <1>13, <1>14, StepInv

-----------------------------------------------------------------------------
(* Merging keeps a key, or gives the one of the second map.                *)
LEMMA Merged ==
  ASSUME NEW to \in Map, NEW from \in Map
  PROVE  /\ MergeMaps(to, from) \in Map
         /\ MergeMaps(to, from).key = IF from.key = NoRecord THEN to.key ELSE from.key
BY DEF MergeMaps, Map

(* A write into one map.                                                   *)
LEMMA WriteTypes ==
  ASSUME TypeOK, NEW r \in DOMAIN heap, NEW m \in Map, heap' = [heap EXCEPT ![r] = m]
  PROVE  /\ DOMAIN heap' = DOMAIN heap /\ heap'[r] = m
         /\ \A x \in DOMAIN heap : x # r => heap'[x] = heap[x]
         /\ \A x \in DOMAIN heap' : heap'[x] \in Map
<1> HIDE DEF Map
<1> QED
  BY DEF TypeOK

(* The map found in the store is written into.                             *)
LEMMA MergeInv ==
  ASSUME MongoInv, NEW c \in Client, Merge(c) PROVE MongoInv'
<1> DEFINE k == heap[Current(c)].key
           r == inrec[c]
           m == MergeMaps(heap[r], heap[Current(c)])
<1>1. TypeOK /\ MapsInv(c) /\ PlaceInv(c) /\ StoredInv
  BY DEF MongoInv
<1>2. /\ pc[c] = "merge" /\ heap' = [heap EXCEPT ![r] = m] /\ pc' = [pc EXCEPT ![c] = "taint"]
      /\ UNCHANGED <<db, store, request, at, data, locals, history>>
  BY DEF Merge, Goto
<1>3. /\ k \in Record /\ data[c] # NoResponse /\ heap[Current(c)] \in Map
      /\ Current(c) \in DOMAIN heap
  BY <1>2, CurrentRecord DEF Working
<1>4. r \in DOMAIN heap /\ heap[r].key = k /\ heap[r] \in Map
  <2>1. r # NoMap /\ heap[r].key = k
    BY <1>1, <1>2 DEF MapsInv
  <2> QED
    BY <1>1, <2>1, Facts
<1>5. m \in Map /\ m.key = k
  BY <1>3, <1>4, Merged, NothingIsNone
<1> HIDE DEF m
<1>6. /\ DOMAIN heap' = DOMAIN heap /\ heap'[r] = m
      /\ \A x \in DOMAIN heap : x # r => heap'[x] = heap[x]
      /\ \A x \in DOMAIN heap' : heap'[x] \in Map
  BY <1>1, <1>2, <1>4, <1>5, WriteTypes
<1>7. \A x \in DOMAIN heap : x \in DOMAIN heap' /\ heap'[x].key = heap[x].key
  BY <1>4, <1>5, <1>6
<1>8. /\ pc' \in [Client -> Points] /\ pc'[c] = "taint"
      /\ \A d \in Client \ {c} : pc'[d] = pc[d]
  BY <1>1, <1>2 DEF TypeOK, Points
<1>9. TypeOK'
  <2> HIDE DEF Map
  <2> QED
    BY <1>1, <1>2, <1>6, <1>8 DEF TypeOK, store, request, locals, history, reports
<1>10. OthersSame(c)
  BY <1>2, <1>8 DEF OthersSame, request, locals
<1>11. \A d \in Client \ {c} : KeysKept(d)
  BY <1>7 DEF KeysKept, Mine
<1>12. Stored' = Stored /\ Stored \subseteq Record
  BY <1>2 DEF Stored, store
<1>13. StoredInv'
  BY <1>1, <1>2, <1>7, <1>12 DEF StoredInv, TypeOK, Stored, store
<1>14. PlaceInv(c)'
  BY <1>1, <1>2, <1>8 DEF PlaceInv, Now, request, locals, Working
<1>15. \A i \in 1..Len(data[c]) : heap'[data[c][i]].key = heap[data[c][i]].key
  BY <1>1, <1>3, <1>7, Facts
<1>16. MapsInv(c)'
  <2>1. /\ Checked(c)' = Checked(c) /\ Checked(c) \subseteq 1..Len(data[c])
    <3>1. item[c] \in 1..Len(data[c]) /\ Len(data[c]) \in Nat
      BY <1>2, CurrentRecord DEF Working
    <3> QED
      BY <1>2, <1>8, <3>1 DEF Checked, Working, Now, request, locals
  <2>2. heap'[r].key = k /\ heap'[Current(c)].key = k /\ Current(c)' = Current(c) /\ inrec'[c] = r /\ r # NoMap
    BY <1>1, <1>2, <1>3, <1>4, <1>7 DEF Current, locals, MapsInv
  <2> QED
    BY <1>1, <1>2, <1>8, <1>15, <2>1, <2>2 DEF MapsInv, request, locals
<1>17. data'[c] # NoResponse =>
         \A d \in Client \ {c} : data[d] # NoResponse =>
           \A x \in Range(data'[c]) \cap Range(data[d]) : heap'[x].key \in Record
  <2>1. Range(data[c]) \subseteq DOMAIN heap
    BY <1>1, <1>3, Facts DEF Mine
  <2> QED
    BY <1>2, <1>3, <1>7, <2>1 DEF MongoInv, ApartInv
<1>18. ASSUME NEW j \in Stored' \ (replaced' \cup missed')
       PROVE  \/ Adding(c, j)'
              \/ /\ j \in Stored \ (replaced \cup missed) /\ ~ Adding(c, j)
                 /\ j \in unread => j \in unread'
                 /\ heap'[records'[j]] = heap[records[j]] /\ reported'[j] = reported[j]
  <2>1. CASE j = k
    BY <1>2, <1>3, <1>7, <1>8, <2>1 DEF Adding, Current, locals
  <2>2. CASE j # k
    <3>1. records[j] # r /\ records[j] \in DOMAIN heap
      BY <1>1, <1>4, <1>12, <2>2 DEF StoredInv, TypeOK, Stored
    <3> QED
      BY <1>2, <1>6, <1>12, <2>2, <3>1 DEF Adding, history, reports, store
  <2> QED
    BY <2>1, <2>2
<1>19. unread' \subseteq tainted'
  BY <1>2 DEF MongoInv, ReportsInv, history, reports, store
<1> QED
  BY <1>9, <1>10, <1>11, <1>12, <1>13, <1>14, <1>16, <1>17, <1>18, <1>19, StepInv

(* Mutate writes into a map of its response, stored or not.                *)
LEMMA MergeParameterInv ==
  ASSUME MongoInv, NEW c \in Client, MergeParameter(c) PROVE TypeOK' /\ (rekeyed' \/ MongoInv')
<1> DEFINE r == Current(c)
           m == MergeMaps(heap[r], Parameter(c))
<1>1. TypeOK /\ MapsInv(c) /\ PlaceInv(c) /\ StoredInv
  BY DEF MongoInv
<1>2. /\ pc[c] = "step" /\ Now(c).op = "mutate" /\ data[c] # NoResponse /\ data[c] # <<>>
      /\ heap' = [heap EXCEPT ![r] = m]
      /\ IF heap'[r].key = NoRecord THEN Fails(c)
         ELSE pc' = [pc EXCEPT ![c] = "look"] /\ at' = at
      /\ rekeyed' = (heap'[r].key # heap[r].key)
      /\ UNCHANGED <<db, store, request, data, locals, reports, suspect, replaced>>
  BY DEF MergeParameter, Goto
<1>3. /\ data[c] \in Seq(DOMAIN heap) /\ Len(data[c]) \in Nat
      /\ \A i \in 1..Len(data[c]) : data[c][i] \in DOMAIN heap /\ heap[data[c][i]] \in Map
      /\ Range(data[c]) = {data[c][i] : i \in 1..Len(data[c])}
  BY <1>1, <1>2, Facts
<1>4. item[c] \in 1..Len(data[c]) /\ inrec[c] = NoMap /\ at[c] > 1
  <2>1. Len(data[c]) # 0
    BY <1>2, <1>3, EmptySeq
  <2>2. at[c] \in Nat \ {0}
    BY <1>1, Facts
  <2> QED
    BY <1>1, <1>2, <1>3, <2>1, <2>2 DEF PlaceInv, MapsInv
<1>5. r \in DOMAIN heap /\ heap[r] \in Map /\ r \in Range(data[c])
  BY <1>3, <1>4 DEF Current
<1>6. /\ Now(c).key \in Record \cup {NoRecord} /\ at[c] \in 1..Len(chain[c])
      /\ DOMAIN chain[c] = 1..Len(chain[c]) /\ Now(c) = chain[c][at[c]]
  BY <1>2, StepNow DEF Now
<1>7. Parameter(c) \in Map /\ Parameter(c).key = Now(c).key
  <2>1. version[c] \in Version
    BY <1>1 DEF TypeOK
  <2> QED
    BY <1>6, <2>1 DEF Parameter, Map
<1>8. m \in Map /\ m.key = IF Now(c).key = NoRecord THEN heap[r].key ELSE Now(c).key
  BY <1>5, <1>7, Merged
<1> HIDE DEF m
<1>11. /\ DOMAIN heap' = DOMAIN heap /\ heap'[r] = m
       /\ \A x \in DOMAIN heap : x # r => heap'[x] = heap[x]
       /\ \A x \in DOMAIN heap' : heap'[x] \in Map
  BY <1>1, <1>2, <1>5, <1>8, WriteTypes
<1>9. TypeOK'
  <2>1. pc' \in [Client -> Points] /\ at' = at
    BY <1>1, <1>2 DEF Fails, Goto, TypeOK, Points
  <2>2. rekeyed' \in BOOLEAN
    BY <1>2
  <2> HIDE DEF Map
  <2> QED
    BY <1>1, <1>2, <1>11, <2>1, <2>2 DEF TypeOK, store, request, locals, reports
<1>10. SUFFICES ASSUME ~ rekeyed' PROVE MongoInv'
  BY <1>9
<1>12. m.key = heap[r].key /\ \A x \in DOMAIN heap : heap'[x].key = heap[x].key
  BY <1>2, <1>10, <1>11
<1>13. \A i \in 1..Len(data[c]) : heap'[data[c][i]].key = heap[data[c][i]].key
  BY <1>3, <1>12
<1>14. ASSUME NEW d \in Client \ {c} PROVE KeysKept(d)
  BY <1>11, <1>12 DEF KeysKept, Mine
<1>15. Stored' = Stored /\ Stored \subseteq Record /\ records' = records
  BY <1>2 DEF Stored, store
<1>16. \A j \in Stored : records[j] \in DOMAIN heap /\ heap[records[j]].key = j
  BY <1>1 DEF StoredInv, TypeOK, Stored
<1>17. StoredInv'
  BY <1>1, <1>2, <1>12, <1>15, <1>16 DEF StoredInv, store
<1>18. /\ PlaceInv(c)' /\ MapsInv(c)' /\ pc' \in [Client -> Points] /\ at' = at
       /\ \A d \in Client \ {c} : pc'[d] = pc[d]
       /\ m.key # NoRecord => pc'[c] = "look"
  <2>1. CASE m.key = NoRecord
    <3>1. Fails(c)
      BY <1>2, <1>11, <2>1
    <3> QED
      BY <1>2, <1>4, <2>1, <3>1, FailsKeeps DEF request, locals
  <2>2. CASE m.key # NoRecord
    <3>1. pc' = [pc EXCEPT ![c] = "look"] /\ at' = at
      BY <1>2, <1>11, <2>2
    <3>2. /\ pc' \in [Client -> Points] /\ pc'[c] = "look"
          /\ \A d \in Client \ {c} : pc'[d] = pc[d]
      BY <1>1, <3>1 DEF TypeOK, Points
    <3>3. PlaceInv(c)'
      BY <1>1, <1>2, <1>4, <3>1, <3>2 DEF PlaceInv, Now, request, locals, Working
    <3>4. Checked(c)' = 1..item[c] /\ Checked(c) = 1..(item[c] - 1)
      BY <1>2, <3>1, <3>2 DEF Checked, Working, Now, request, locals
    <3>5. ASSUME NEW i \in 1..item[c] PROVE heap'[data[c][i]].key \in Record
      <4>1. CASE i = item[c]
        BY <1>5, <1>11, <1>12, <2>2, <4>1 DEF Current, Map
      <4>2. CASE i # item[c]
        <5>1. i \in 1..(item[c] - 1) /\ i \in 1..Len(data[c])
          BY <1>3, <1>4, <4>2
        <5> QED
          BY <1>1, <1>2, <1>13, <3>4, <5>1 DEF MapsInv
      <4> QED
        BY <4>1, <4>2
    <3>6. MapsInv(c)'
      BY <1>2, <1>4, <3>2, <3>4, <3>5 DEF MapsInv, request, locals
    <3> QED
      BY <3>1, <3>2, <3>3, <3>6
  <2> QED
    BY <2>1, <2>2
<1>19. unread' \subseteq tainted'
  BY <1>2 DEF MongoInv, ReportsInv, reports, store
<1>20. OthersSame(c)
  BY <1>2, <1>18 DEF OthersSame, request, locals
<1>21. data'[c] # NoResponse =>
         \A d \in Client \ {c} : data[d] # NoResponse =>
           \A x \in Range(data'[c]) \cap Range(data[d]) : heap'[x].key \in Record
  <2>1. Range(data[c]) \subseteq DOMAIN heap
    BY <1>3
  <2> QED
    BY <1>2, <1>12, <2>1 DEF MongoInv, ApartInv
<1>22. ASSUME NEW j \in Stored' \ (replaced' \cup missed')
       PROVE  \/ Adding(c, j)'
              \/ /\ j \in Stored \ (replaced \cup missed) /\ ~ Adding(c, j)
                 /\ j \in unread => j \in unread'
                 /\ heap'[records'[j]] = heap[records[j]] /\ reported'[j] = reported[j]
  <2>1. CASE records[j] = r
    <3>1. m.key = j /\ m.key # NoRecord
      BY <1>12, <1>15, <1>16, <2>1, NothingIsNone
    <3> QED
      BY <1>2, <1>11, <1>18, <3>1 DEF Adding, Current, locals
  <2>2. CASE records[j] # r
    BY <1>2, <1>11, <1>15, <1>16, <2>2 DEF Adding, reports, store
  <2> QED
    BY <2>1, <2>2
<1> QED
  BY <1>9, <1>14, <1>15, <1>17, <1>18, <1>19, <1>20, <1>21, <1>22, StepInv

-----------------------------------------------------------------------------
(* A record of the database as a map.                                      *)
LEMMA FromDb ==
  ASSUME TypeOK, NEW k \in InDb
  PROVE  MapOf(k, db[k]) \in Map /\ MapOf(k, db[k]).key = k /\ k \in Record
<1>1. k \in Record /\ db[k] \in Doc
  BY DEF InDb, TypeOK
<1> QED
  BY <1>1 DEF MapOf, Map, Doc

(* Find reads one record of the database, or none.                         *)
LEMMA ReadOneInv ==
  ASSUME MongoInv, NEW c \in Client, ReadOne(c) PROVE MongoInv'
<1> DEFINE k == Now(c).key
           one == <<MapOf(k, db[k])>>
<1>1. TypeOK /\ MapsInv(c) /\ PlaceInv(c)
  BY DEF MongoInv
<1>2. /\ pc[c] = "read" /\ item' = [item EXCEPT ![c] = 1]
      /\ IF k \in InDb THEN Respond(c, one) /\ pc' = [pc EXCEPT ![c] = "has"] /\ at' = at
         ELSE Respond(c, <<>>) /\ Advance(c)
      /\ UNCHANGED <<db, store, request, inrec, amount, sent, history>>
  BY DEF ReadOne, Goto
<1>3. /\ inrec[c] = NoMap /\ Now(c).op = "find" /\ \A d \in Record : ~ Adding(c, d)
      /\ item' \in [Client -> Nat \ {0}] /\ item'[c] = 1
      /\ \A d \in Client \ {c} : item'[d] = item[d]
      /\ pc \in [Client -> Points] /\ at \in [Client -> Nat \ {0}]
  BY <1>1, <1>2 DEF MapsInv, PlaceInv, Adding, TypeOK
<1>5. sent' \in [Client -> Map \cup {NoMap}] /\ sent' = sent
  <2> HIDE DEF Map
  <2> QED
    BY <1>1, <1>2 DEF TypeOK
<1>6. CASE k \in InDb
  <2>1. MapOf(k, db[k]) \in Map /\ MapOf(k, db[k]).key = k /\ k \in Record
    BY <1>1, <1>6, FromDb
  <2>2. Respond(c, one) /\ pc' = [pc EXCEPT ![c] = "has"] /\ at' = at
    BY <1>2, <1>6
  <2>3. one \in Seq(Map) /\ Len(one) = 1 /\ one[1] = MapOf(k, db[k])
    <3> HIDE DEF Map
    <3> QED
      BY <2>1
  <2> HIDE DEF one
  <2>4. data'[c] # NoResponse /\ Len(data'[c]) = 1 /\ heap'[data'[c][1]].key = k
    <3>1. /\ data'[c] # NoResponse /\ Len(data'[c]) = Len(one)
          /\ \A i \in 1..Len(one) : \E j \in 1..Len(one) : heap'[data'[c][i]] = one[j]
      <4> HIDE DEF Map
      <4> QED
        BY <1>3, <2>2, <2>3, Responded
    <3> QED
      BY <2>1, <2>3, <3>1
  <2>5. /\ pc' \in [Client -> Points] /\ pc'[c] = "has"
        /\ \A d \in Client \ {c} : pc'[d] = pc[d]
    BY <1>3, <2>2 DEF Points
  <2>6. PlaceInv(c)'
    BY <1>1, <1>2, <1>3, <2>2, <2>4, <2>5 DEF PlaceInv, Now, request, Working
  <2>7. Checked(c)' = 1..1
    BY <1>2, <1>3, <2>2, <2>4, <2>5 DEF Checked, Now, request, Working
  <2>8. MapsInv(c)'
    BY <1>2, <1>3, <2>1, <2>4, <2>5, <2>7 DEF MapsInv
  <2> HIDE DEF Map
  <2> QED
    BY <1>1, <1>2, <1>3, <1>5, <2>2, <2>3, <2>5, <2>6, <2>8, RespondInv DEF TypeOK, history
<1>7. CASE k \notin InDb
  <2>1. Respond(c, <<>>) /\ Advance(c) /\ <<>> \in Seq(Map)
    BY <1>2, <1>7
  <2>2. data'[c] # NoResponse /\ Len(data'[c]) = 0
    <3> HIDE DEF Map
    <3> QED
      BY <1>3, <2>1, Responded
  <2>3. /\ PlaceInv(c)' /\ MapsInv(c)' /\ pc' \in [Client -> Points]
        /\ at' \in [Client -> Nat \ {0}]
        /\ \A d \in Client \ {c} : pc'[d] = pc[d] /\ at'[d] = at[d]
    BY <1>2, <1>3, <2>1, <2>2, AdvanceKeeps DEF request
  <2> HIDE DEF Map
  <2> QED
    BY <1>1, <1>2, <1>3, <1>5, <2>1, <2>3, RespondInv DEF TypeOK, history
<1> QED
  BY <1>6, <1>7

(* A set of records, in some order.                                        *)
LEMMA InOrder ==
  ASSUME NEW S \in SUBSET Record
  PROVE  /\ Cardinality(S) \in Nat /\ IsFiniteSet(S)
         /\ \A i \in 1..Cardinality(S) : SetToSeq(S)[i] \in S
         /\ \A i, j \in 1..Cardinality(S) : i # j => SetToSeq(S)[i] # SetToSeq(S)[j]
         /\ \A k \in S : \E i \in 1..Cardinality(S) : SetToSeq(S)[i] = k
<1>1. IsFiniteSet(S)
  BY RecordsAreFinite, FS_Subset
<1>2. Cardinality(S) \in Nat /\ ExistsBijection(1..Cardinality(S), S)
  BY <1>1, FS_CardinalityType
<1>3. \E f \in [1..Cardinality(S) -> S] : IsInjective(f)
  BY <1>2 DEF ExistsBijection, Bijection, Injection, IsInjective
<1>4. SetToSeq(S) \in [1..Cardinality(S) -> S] /\ IsInjective(SetToSeq(S))
  BY <1>3 DEF SetToSeq
<1>5. \A i, j \in 1..Cardinality(S) : i # j => SetToSeq(S)[i] # SetToSeq(S)[j]
  BY <1>4 DEF IsInjective
<1>6. \A k \in S : \E i \in 1..Cardinality(S) : SetToSeq(S)[i] = k
  <2> DEFINE f == SetToSeq(S)
             I == 1..Cardinality(S)
  <2>1. f \in Injection(I, S)
    BY <1>4, <1>5 DEF Injection, IsInjective
  <2>2. IsFiniteSet(I) /\ Cardinality(I) = Cardinality(S)
    BY <1>2, FS_Interval
  <2>3. f \in Surjection(I, S)
    BY <1>1, <2>1, <2>2, FS_Injection
  <2> QED
    BY <2>3 DEF Surjection
<1> QED
  BY <1>1, <1>2, <1>4, <1>5, <1>6

(* As many maps as a number.                                               *)
LEMMA ListFor ==
  ASSUME NEW n \in Nat, NEW f, f = [i \in 1..n |-> f[i]], \A i \in 1..n : f[i] \in Map
  PROVE  f \in Seq(Map) /\ Len(f) = n
<1> HIDE DEF Map
<1> QED
  BY IsASeq, LenProperties

(* All reads the store.                                                    *)
LEMMA SelectInv ==
  ASSUME MongoInv, NEW c \in Client, Select(c) PROVE MongoInv'
<1>1. TypeOK /\ MapsInv(c) /\ PlaceInv(c)
  BY DEF MongoInv
<1>2. /\ pc[c] = "select" /\ Advance(c)
      /\ UNCHANGED <<db, store, request, locals, history>>
  BY DEF Select
<1>3. PICK keys \in kSubset(amount[c], Stored) :
        Respond(c, [i \in 1..amount[c] |-> heap[records[SetToSeq(keys)[i]]]])
  BY DEF Select
<1> DEFINE maps == [i \in 1..amount[c] |-> heap[records[SetToSeq(keys)[i]]]]
<1>4. keys \subseteq Stored /\ keys \in SUBSET Record /\ Cardinality(keys) = amount[c]
  BY <1>3 DEF kSubset, Stored
<1>5. amount[c] \in Nat /\ \A i \in 1..amount[c] : SetToSeq(keys)[i] \in Stored
  BY <1>4, InOrder
<1>6. maps \in Seq(Map)
  <2>1. \A i \in 1..amount[c] : maps[i] \in Map
    <3> HIDE DEF Map
    <3> QED
      BY <1>1, <1>5 DEF TypeOK, Stored
  <2> HIDE DEF Map
  <2> QED
    BY <1>5, <2>1, ListFor
<1>7. Respond(c, maps)
  BY <1>3
<1> HIDE DEF maps
<1>8. /\ inrec[c] = NoMap /\ item[c] = 1 /\ Now(c).op = "all" /\ at[c] = 1
      /\ \A d \in Record : ~ Adding(c, d)
  BY <1>1, <1>2 DEF MapsInv, PlaceInv, Adding
<1>9. data'[c] # NoResponse
  <2> HIDE DEF Map
  <2> QED
    BY <1>6, <1>7, <1>8, Responded
<1>11. /\ PlaceInv(c)' /\ MapsInv(c)' /\ pc' \in [Client -> Points]
       /\ at' \in [Client -> Nat \ {0}]
       /\ \A d \in Client \ {c} : pc'[d] = pc[d] /\ at'[d] = at[d]
  BY <1>2, <1>8, <1>9, AdvanceKeeps DEF request, locals
<1>12. item' \in [Client -> Nat \ {0}] /\ sent' \in [Client -> Map \cup {NoMap}]
  <2> HIDE DEF Map
  <2> QED
    BY <1>1, <1>2 DEF TypeOK, locals
<1> HIDE DEF Map
<1> QED
  BY <1>1, <1>2, <1>6, <1>7, <1>8, <1>11, <1>12, RespondInv DEF locals, TypeOK, history

(* All reads the database, as many records as it has or are asked for.     *)
LEMMA ReadAllInv ==
  ASSUME MongoInv, NEW c \in Client, ReadAll(c) PROVE MongoInv'
<1> DEFINE n == IF amount[c] <= Cardinality(InDb) THEN amount[c] ELSE Cardinality(InDb)
<1>1. TypeOK /\ MapsInv(c) /\ PlaceInv(c)
  BY DEF MongoInv
<1>2. /\ pc[c] = "readAll" /\ item' = [item EXCEPT ![c] = 1]
      /\ IF n = 0 THEN Advance(c) ELSE pc' = [pc EXCEPT ![c] = "look"] /\ at' = at
      /\ UNCHANGED <<db, store, request, inrec, amount, sent, history>>
  BY DEF ReadAll, Goto
<1>3. PICK keys \in kSubset(n, InDb) :
        Respond(c, [i \in 1..n |-> MapOf(SetToSeq(keys)[i], db[SetToSeq(keys)[i]])])
  BY DEF ReadAll
<1> HIDE DEF n
<1> DEFINE maps == [i \in 1..n |-> MapOf(SetToSeq(keys)[i], db[SetToSeq(keys)[i]])]
<1>4. keys \subseteq InDb /\ keys \in SUBSET Record /\ Cardinality(keys) = n
  BY <1>3 DEF kSubset, InDb
<1>5. n \in Nat /\ \A i \in 1..n : SetToSeq(keys)[i] \in InDb
  BY <1>4, InOrder
<1>6. \A i \in 1..n : maps[i] \in Map /\ maps[i].key \in Record
  BY <1>1, <1>5, FromDb
<1>7. maps \in Seq(Map) /\ Len(maps) = n
  BY <1>5, <1>6, ListFor
<1>8. Respond(c, maps)
  BY <1>3
<1> HIDE DEF maps
<1>9. /\ inrec[c] = NoMap /\ Now(c).op = "all" /\ at[c] = 1
      /\ \A d \in Record : ~ Adding(c, d)
      /\ item' \in [Client -> Nat \ {0}] /\ item'[c] = 1
      /\ \A d \in Client \ {c} : item'[d] = item[d]
      /\ pc \in [Client -> Points] /\ at \in [Client -> Nat \ {0}]
  BY <1>1, <1>2 DEF MapsInv, PlaceInv, Adding, TypeOK
<1>10. /\ data'[c] # NoResponse /\ Len(data'[c]) = n
       /\ \A i \in 1..n : heap'[data'[c][i]].key \in Record
  <2>1. /\ data'[c] # NoResponse /\ Len(data'[c]) = n
        /\ \A i \in 1..n : \E j \in 1..n : heap'[data'[c][i]] = maps[j]
    <3> HIDE DEF Map
    <3> QED
      BY <1>7, <1>8, <1>9, Responded
  <2> QED
    BY <1>6, <2>1
<1>12. /\ PlaceInv(c)' /\ MapsInv(c)' /\ pc' \in [Client -> Points]
       /\ at' \in [Client -> Nat \ {0}]
       /\ \A d \in Client \ {c} : pc'[d] = pc[d] /\ at'[d] = at[d]
  <2>1. CASE n = 0
    BY <1>2, <1>9, <1>10, <2>1, AdvanceKeeps DEF request
  <2>2. CASE n # 0
    <3>1. pc' = [pc EXCEPT ![c] = "look"] /\ at' = at
      BY <1>2, <2>2
    <3>2. /\ pc' \in [Client -> Points] /\ pc'[c] = "look"
          /\ \A d \in Client \ {c} : pc'[d] = pc[d]
      BY <1>9, <3>1 DEF Points
    <3>3. PlaceInv(c)'
      BY <1>1, <1>2, <1>5, <1>9, <1>10, <2>2, <3>1, <3>2 DEF PlaceInv, Now, request, Working
    <3>4. Checked(c)' = 1..n
      BY <1>2, <1>9, <1>10, <3>1, <3>2 DEF Checked, Now, request, Working
    <3>6. MapsInv(c)'
      BY <1>2, <1>9, <1>10, <3>2, <3>4 DEF MapsInv
    <3> QED
      BY <1>9, <3>1, <3>2, <3>3, <3>6
  <2> QED
    BY <2>1, <2>2
<1>13. sent' \in [Client -> Map \cup {NoMap}] /\ sent' = sent
  <2> HIDE DEF Map
  <2> QED
    BY <1>1, <1>2 DEF TypeOK
<1> HIDE DEF Map
<1> QED
  BY <1>1, <1>2, <1>7, <1>8, <1>9, <1>12, <1>13, RespondInv DEF TypeOK, history

(* Collect makes maps of its own.                                          *)
LEMMA CollectInv ==
  ASSUME MongoInv, NEW c \in Client, Collect(c) PROVE MongoInv'
<1>1. TypeOK /\ MapsInv(c) /\ PlaceInv(c) /\ StoredInv
  BY DEF MongoInv
<1>2. /\ pc[c] = "step" /\ Now(c).op = "collect"
      /\ UNCHANGED <<db, store, request, locals, history>>
  BY DEF Collect
<1>3. inrec[c] = NoMap /\ item[c] = 1 /\ \A d \in Record : ~ Adding(c, d)
  BY <1>1, <1>2 DEF MapsInv, PlaceInv, Adding
<1>4. CASE data[c] = NoResponse
  <2>1. Fails(c) /\ UNCHANGED <<heap, data>>
    BY <1>4 DEF Collect
  <2>2. /\ PlaceInv(c)' /\ MapsInv(c)' /\ pc' \in [Client -> Points] /\ at' = at
        /\ \A d \in Client \ {c} : pc'[d] = pc[d]
    BY <1>2, <1>3, <1>4, <2>1, FailsKeeps DEF request, locals
  <2>3. TypeOK'
    BY <1>1, <1>2, <2>1, <2>2 DEF TypeOK, store, request, locals, history, reports
  <2>4. OthersSame(c)
    BY <1>2, <2>1, <2>2 DEF OthersSame, request, locals
  <2>5. Stored \subseteq Record
    BY DEF Stored
  <2> QED
    BY <1>1, <1>2, <1>3, <2>1, <2>2, <2>3, <2>4, <2>5, QuietInv DEF store, history, StoredInv
<1>5. CASE data[c] # NoResponse
  <2> DEFINE maps == [i \in DOMAIN data[c] |->
                        [heap[data[c][i]] EXCEPT !.rest = FALSE,
                           !.key = IF Now(c).key = NoRecord THEN NoRecord ELSE @]]
  <2>1. Respond(c, maps) /\ Advance(c)
    BY <1>5 DEF Collect
  <2>2. /\ Len(data[c]) \in Nat /\ DOMAIN data[c] = 1..Len(data[c])
        /\ \A i \in 1..Len(data[c]) : heap[data[c][i]] \in Map
    BY <1>1, <1>5, Facts
  <2>3. \A i \in 1..Len(data[c]) :
          maps[i] \in Map /\ maps[i].key \in {NoRecord, heap[data[c][i]].key}
    BY <2>2 DEF Map
  <2>4. maps \in Seq(Map) /\ Len(maps) = Len(data[c])
    BY <2>2, <2>3, ListFor
  <2> HIDE DEF maps
  <2>5. /\ data'[c] # NoResponse /\ Len(data'[c]) = Len(data[c])
        /\ \A i \in 1..Len(data[c]) : \E j \in 1..Len(data[c]) : heap'[data'[c][i]] = maps[j]
    <3> HIDE DEF Map
    <3> QED
      BY <1>3, <2>1, <2>4, Responded
  <2>7. /\ PlaceInv(c)' /\ MapsInv(c)' /\ pc' \in [Client -> Points]
        /\ at' \in [Client -> Nat \ {0}]
        /\ \A d \in Client \ {c} : pc'[d] = pc[d] /\ at'[d] = at[d]
    BY <1>2, <1>3, <2>1, <2>5, AdvanceKeeps DEF request, locals
  <2>8. item' \in [Client -> Nat \ {0}] /\ sent' \in [Client -> Map \cup {NoMap}]
    <3> HIDE DEF Map
    <3> QED
      BY <1>1, <1>2 DEF TypeOK, locals
  <2> HIDE DEF Map
  <2> QED
    BY <1>1, <1>2, <1>3, <2>1, <2>4, <2>7, <2>8, RespondInv DEF locals, TypeOK, history
<1> QED
  BY <1>4, <1>5

(* The parameter of a Mutate becomes a record.                             *)
LEMMA CreateInv ==
  ASSUME MongoInv, NEW c \in Client, Create(c) PROVE MongoInv'
<1> DEFINE one == <<Parameter(c)>>
<1>1. TypeOK /\ MapsInv(c) /\ PlaceInv(c)
  BY DEF MongoInv
<1>2. /\ pc[c] = "step" /\ Now(c).op = "mutate" /\ data[c] = <<>> /\ Now(c).key # NoRecord
      /\ Respond(c, one) /\ sent' = [sent EXCEPT ![c] = Parameter(c)]
      /\ pc' = [pc EXCEPT ![c] = "upsert"]
      /\ suspect' = suspect \cup (({Now(c).key} \cap Stored) \ Sought(chain[c], at[c]))
      /\ UNCHANGED <<db, store, request, at, item, inrec, amount, reports, replaced, rekeyed>>
  BY DEF Create, Goto
<1>3. /\ data[c] # NoResponse /\ Len(data[c]) = 0
  <2>1. <<>> \in Seq(Ref)
    OBVIOUS
  <2> QED
    BY <1>2, <2>1, NothingIsNone
<1>4. /\ inrec[c] = NoMap /\ item[c] = 1 /\ at[c] > 1 /\ \A d \in Record : ~ Adding(c, d)
  <2>1. at[c] \in Nat \ {0}
    BY <1>1, Facts
  <2> QED
    BY <1>1, <1>2, <1>3, <2>1 DEF MapsInv, PlaceInv, Adding
<1>5. Now(c).key \in Record
  BY <1>2, StepNow
<1>6. Parameter(c) \in Map /\ Parameter(c).key = Now(c).key
  <2>1. version[c] \in Version
    BY <1>1 DEF TypeOK
  <2> QED
    BY <1>5, <2>1 DEF Parameter, Map
<1>7. one \in Seq(Map) /\ Len(one) = 1 /\ one[1] = Parameter(c)
  <2> HIDE DEF Map, Parameter
  <2> QED
    BY <1>6
<1> HIDE DEF one
<1>8. data'[c] # NoResponse /\ Len(data'[c]) = 1 /\ heap'[data'[c][1]].key = Now(c).key
  <2>1. /\ data'[c] # NoResponse /\ Len(data'[c]) = Len(one)
        /\ \A i \in 1..Len(one) : \E j \in 1..Len(one) : heap'[data'[c][i]] = one[j]
    <3> HIDE DEF Map
    <3> QED
      BY <1>2, <1>4, <1>7, Responded
  <2> QED
    BY <1>6, <1>7, <2>1
<1>9. suspect' \subseteq Record
  BY <1>1, <1>2 DEF TypeOK, Stored
<1>10. /\ pc' \in [Client -> Points] /\ pc'[c] = "upsert" /\ sent'[c] = Parameter(c)
       /\ sent' \in [Client -> Map \cup {NoMap}]
       /\ \A d \in Client \ {c} : pc'[d] = pc[d] /\ sent'[d] = sent[d]
       /\ item' \in [Client -> Nat \ {0}] /\ at' \in [Client -> Nat \ {0}]
  <2> HIDE DEF Map, Parameter
  <2> QED
    BY <1>1, <1>2, <1>6 DEF TypeOK, Points
<1>11. PlaceInv(c)'
  BY <1>1, <1>2, <1>4, <1>8, <1>10 DEF PlaceInv, Now, request, Working
<1>12. Checked(c)' = 1..1
  BY <1>2, <1>8, <1>10 DEF Checked, request
<1>13. MapsInv(c)'
  BY <1>2, <1>4, <1>5, <1>6, <1>8, <1>10, <1>12 DEF MapsInv
<1> HIDE DEF Map
<1> QED
  BY <1>2, <1>4, <1>7, <1>9, <1>10, <1>11, <1>13, RespondInv

(* The client is done, and nobody holds what it alone did.                 *)
LEMMA ReturnInv ==
  ASSUME MongoInv, NEW c \in Client, Return(c) PROVE MongoInv'
<1> DEFINE held == DOMAIN heap \cap Held(c)
<1>1. TypeOK /\ StoredInv
  BY DEF MongoInv
<1>2. /\ pc[c] \in {"answered", "failed", "written"} /\ pc' = [pc EXCEPT ![c] = "idle"]
      /\ heap' = [r \in held |-> heap[r]]
      /\ chain' = [chain EXCEPT ![c] = <<>>] /\ at' = [at EXCEPT ![c] = 1]
      /\ version' = [version EXCEPT ![c] = 0] /\ data' = [data EXCEPT ![c] = NoResponse]
      /\ item' = [item EXCEPT ![c] = 1] /\ inrec' = [inrec EXCEPT ![c] = NoMap]
      /\ amount' = [amount EXCEPT ![c] = 0] /\ sent' = [sent EXCEPT ![c] = NoMap]
      /\ UNCHANGED <<db, store, started, history>>
  BY DEF Return, Restricted, Goto
<1>3. /\ \A k \in Stored : records[k] \in held
      /\ \A d \in Client \ {c} : \A r \in Mine(d) : r \in held
  BY <1>1, HeldMaps
<1> HIDE DEF held
<1>4. DOMAIN heap' = held /\ \A r \in held : r \in DOMAIN heap /\ heap'[r] = heap[r]
  BY <1>2 DEF held
<1>5. /\ pc'[c] = "idle" /\ at'[c] = 1 /\ data'[c] = NoResponse /\ item'[c] = 1
      /\ inrec'[c] = NoMap
      /\ \A d \in Client \ {c} :
           /\ pc'[d] = pc[d] /\ chain'[d] = chain[d] /\ at'[d] = at[d] /\ data'[d] = data[d]
           /\ item'[d] = item[d] /\ inrec'[d] = inrec[d] /\ sent'[d] = sent[d]
  BY <1>1, <1>2 DEF TypeOK
<1>6. OthersSame(c)
  BY <1>5 DEF OthersSame
<1>7. \A d \in Client : data'[d] \in {NoResponse} \cup Seq(DOMAIN heap')
  <2> SUFFICES ASSUME NEW d \in Client \ {c}, data[d] # NoResponse
               PROVE  data[d] \in Seq(held)
    BY <1>4, <1>5
  <2>1. data[d] \in Seq(DOMAIN heap) /\ Range(data[d]) \subseteq Mine(d)
    BY <1>1, Facts
  <2>2. Range(data[d]) \subseteq held
    BY <1>3, <2>1
  <2> QED
    BY <2>1, <2>2, ListOf
<1>8. \A d \in Client : inrec'[d] \in DOMAIN heap' \cup {NoMap}
  <2> SUFFICES ASSUME NEW d \in Client \ {c}, inrec[d] # NoMap PROVE inrec[d] \in held
    BY <1>4, <1>5
  <2> QED
    BY <1>1, <1>3, Facts
<1>9. TypeOK'
  <2>1. data' \in [Client -> {NoResponse} \cup Seq(DOMAIN heap')]
    <3>1. data' \in [Client -> {data'[d] : d \in Client}]
      BY <1>1, <1>2 DEF TypeOK
    <3> QED
      BY <1>7, <3>1
  <2>2. inrec' \in [Client -> DOMAIN heap' \cup {NoMap}]
    <3>1. inrec' \in [Client -> {inrec'[d] : d \in Client}]
      BY <1>1, <1>2 DEF TypeOK
    <3> QED
      BY <1>8, <3>1
  <2>3. /\ pc' \in [Client -> Points] /\ chain' \in [Client -> Chains \cup {<<>>}]
        /\ at' \in [Client -> Nat \ {0}] /\ version' \in [Client -> Version]
        /\ item' \in [Client -> Nat \ {0}] /\ amount' \in [Client -> Nat]
    BY <1>1, <1>2, RecordsAreFinite DEF TypeOK, Points, Version
  <2> HIDE DEF Map
  <2>4. sent' \in [Client -> Map \cup {NoMap}]
    BY <1>1, <1>2 DEF TypeOK
  <2>5. \A k \in Record : records[k] # NoMap => records[k] \in DOMAIN heap'
    BY <1>3, <1>4 DEF Stored
  <2>6. DOMAIN heap' \subseteq Ref /\ \A r \in DOMAIN heap' : heap'[r] \in Map
    BY <1>1, <1>4 DEF TypeOK
  <2> QED
    BY <1>1, <1>2, <2>1, <2>2, <2>3, <2>4, <2>5, <2>6 DEF TypeOK, store, history, reports
<1>10. \A d \in Client \ {c} : KeysKept(d)
  BY <1>3, <1>4 DEF KeysKept
<1>11. Stored' = Stored
  BY <1>2 DEF Stored, store
<1>12. StoredInv'
  BY <1>1, <1>2, <1>3, <1>4, <1>11 DEF StoredInv, store
<1>13. PlaceInv(c)'
  BY <1>5 DEF PlaceInv, Working
<1>14. MapsInv(c)'
  BY <1>5 DEF MapsInv
<1>15. \A k \in Stored' \ (replaced' \cup missed') :
         /\ k \in Stored \ (replaced \cup missed) /\ ~ Adding(c, k)
         /\ k \in unread => k \in unread'
         /\ heap'[records'[k]] = heap[records[k]] /\ reported'[k] = reported[k]
  BY <1>2, <1>3, <1>4, <1>11 DEF Adding, store, history, reports
<1>16. unread' \subseteq tainted'
  BY <1>2 DEF MongoInv, ReportsInv, history, reports, store
<1> QED
  BY <1>5, <1>6, <1>9, <1>10, <1>11, <1>12, <1>13, <1>14, <1>15, <1>16, StepInv

(* A place after the chain asks nothing of what a client has.              *)
LEMMA WriterKeeps ==
  ASSUME MongoInv, NEW c \in Client, pc[c] \in {"answered", "failed", "clear"},
         pc' \in {[pc EXCEPT ![c] = "clear"], [pc EXCEPT ![c] = "written"]},
         UNCHANGED <<heap, records, chain, at, data, locals>>
  PROVE  /\ PlaceInv(c)' /\ MapsInv(c)' /\ OthersSame(c) /\ Stored' = Stored
         /\ pc' \in [Client -> Points] /\ \A d \in Client \ {c} : KeysKept(d)
         /\ \A k \in Record : ~ Adding(c, k)
         /\ data'[c] # NoResponse =>
              \A d \in Client \ {c} : data[d] # NoResponse =>
                \A r \in Range(data'[c]) \cap Range(data[d]) : heap'[r].key \in Record
<1>1. TypeOK /\ PlaceInv(c) /\ MapsInv(c)
  BY DEF MongoInv
<1>2. /\ pc' \in [Client -> Points] /\ pc'[c] \in {"clear", "written"}
      /\ \A d \in Client \ {c} : pc'[d] = pc[d]
  BY <1>1 DEF TypeOK, Points
<1>3. PlaceInv(c)'
  BY <1>1, <1>2 DEF PlaceInv, Working, locals
<1>4. MapsInv(c)'
  <2>1. Checked(c)' = {}
    BY <1>2 DEF Checked, Working
  <2> QED
    BY <1>1, <1>2, <2>1 DEF MapsInv, locals
<1>5. OthersSame(c) /\ Stored' = Stored /\ \A d \in Client \ {c} : KeysKept(d)
  BY <1>2 DEF OthersSame, Stored, KeysKept, Mine, locals
<1> QED
  BY <1>2, <1>3, <1>4, <1>5 DEF Adding, MongoInv, ApartInv

(* The writer reads what is tainted.                                       *)
LEMMA TaintedRecordsInv ==
  ASSUME MongoInv, NEW c \in Client, TaintedRecords(c) PROVE MongoInv'
<1>1. /\ pc[c] \in {"answered", "failed"} /\ pc' = [pc EXCEPT ![c] = "clear"]
      /\ reported' = [k \in Record |-> IF k \in tainted THEN heap[records[k]] ELSE reported[k]]
      /\ missed' = missed \ tainted /\ unread' = {}
      /\ UNCHANGED <<db, store, heap, request, at, data, locals, suspect, replaced, rekeyed>>
  BY DEF TaintedRecords, Goto
<1>2. TypeOK /\ StoredInv /\ ReportsInv
  BY DEF MongoInv
<1>3. /\ PlaceInv(c)' /\ MapsInv(c)' /\ OthersSame(c) /\ Stored' = Stored
      /\ pc' \in [Client -> Points] /\ \A d \in Client \ {c} : KeysKept(d)
      /\ \A k \in Record : ~ Adding(c, k)
      /\ data'[c] # NoResponse =>
           \A d \in Client \ {c} : data[d] # NoResponse =>
             \A r \in Range(data'[c]) \cap Range(data[d]) : heap'[r].key \in Record
  BY <1>1, WriterKeeps DEF store, request
<1>4. TypeOK'
  <2>1. \A k \in Record : k \in tainted => heap[records[k]] \in Map
    BY <1>2 DEF TypeOK, StoredInv, Stored
  <2>2. reported' \in [Record -> Map \cup {NoMap}]
    <3> HIDE DEF Map
    <3> QED
      BY <1>1, <1>2, <2>1 DEF TypeOK
  <2> HIDE DEF Map
  <2> QED
    BY <1>1, <1>2, <1>3, <2>2 DEF TypeOK, store, request, locals
<1>5. StoredInv'
  BY <1>1, <1>2, <1>3 DEF StoredInv, store
<1>6. Stored \subseteq Record
  BY DEF Stored
<1>7. \A k \in Stored' \ (replaced' \cup missed') :
        \/ heap'[records'[k]] = reported'[k]
        \/ /\ k \in Stored \ (replaced \cup missed) /\ ~ Adding(c, k)
           /\ k \in unread => k \in unread'
           /\ heap'[records'[k]] = heap[records[k]] /\ reported'[k] = reported[k]
  BY <1>1, <1>2, <1>3, <1>6 DEF ReportsInv, store
<1>8. unread' \subseteq tainted'
  BY <1>1
<1> QED
  BY <1>3, <1>4, <1>5, <1>7, <1>8, StepInv

(* It clears that, and what was tainted since.                             *)
LEMMA ClearTaintedInv ==
  ASSUME MongoInv, NEW c \in Client, ClearTainted(c) PROVE MongoInv'
<1>1. /\ pc[c] = "clear" /\ pc' = [pc EXCEPT ![c] = "written"]
      /\ tainted' = {} /\ missed' = missed \cup unread /\ unread' = {}
      /\ UNCHANGED <<db, records, linked, heap, request, at, data, locals, reported, suspect,
                     replaced, rekeyed>>
  BY DEF ClearTainted, Goto
<1>2. TypeOK /\ StoredInv /\ ReportsInv
  BY DEF MongoInv
<1>3. /\ PlaceInv(c)' /\ MapsInv(c)' /\ OthersSame(c) /\ Stored' = Stored
      /\ pc' \in [Client -> Points] /\ \A d \in Client \ {c} : KeysKept(d)
      /\ \A k \in Record : ~ Adding(c, k)
      /\ data'[c] # NoResponse =>
           \A d \in Client \ {c} : data[d] # NoResponse =>
             \A r \in Range(data'[c]) \cap Range(data[d]) : heap'[r].key \in Record
  BY <1>1, WriterKeeps DEF request
<1>4. TypeOK'
  <2> HIDE DEF Map
  <2> QED
    BY <1>1, <1>2, <1>3 DEF TypeOK, request, locals
<1>5. StoredInv'
  BY <1>1, <1>2, <1>3 DEF StoredInv
<1>6. Stored \subseteq Record
  BY DEF Stored
<1>7. \A k \in Stored' \ (replaced' \cup missed') :
        /\ k \in Stored \ (replaced \cup missed) /\ ~ Adding(c, k)
        /\ k \in unread => k \in unread'
        /\ heap'[records'[k]] = heap[records[k]] /\ reported'[k] = reported[k]
  BY <1>1, <1>3, <1>6
<1>8. unread' \subseteq tainted'
  BY <1>1
<1> QED
  BY <1>3, <1>4, <1>5, <1>7, <1>8, StepInv

-----------------------------------------------------------------------------
(* It holds at first.                                                      *)
LEMMA InitInv == Init => MongoInv
<1> SUFFICES ASSUME Init PROVE MongoInv
  OBVIOUS
<1>1. DOMAIN heap = {} /\ Stored = {}
  BY DEF Init, Stored
<1>2. TypeOK
  <2>1. db \in [Record -> Doc \cup {NoDoc}]
    <3>1. [val |-> 0, rest |-> TRUE] \in Doc
      BY RecordsAreFinite DEF Doc, Version
    <3> QED
      BY <3>1 DEF Init
  <2>2. /\ 0 \in Version /\ started \in 0..MaxChains /\ "idle" \in Points
        /\ DOMAIN heap \subseteq Ref
    BY <1>1, RecordsAreFinite DEF Version, Points, Init
  <2> HIDE DEF Map, Doc
  <2>3. /\ pc \in [Client -> Points] /\ chain \in [Client -> Chains \cup {<<>>}]
        /\ at \in [Client -> Nat \ {0}] /\ version \in [Client -> Version]
        /\ data \in [Client -> {NoResponse} \cup Seq(DOMAIN heap)]
        /\ item \in [Client -> Nat \ {0}] /\ inrec \in [Client -> DOMAIN heap \cup {NoMap}]
        /\ amount \in [Client -> Nat] /\ sent \in [Client -> Map \cup {NoMap}]
    BY <2>2 DEF Init
  <2>4. /\ records \in [Record -> Ref \cup {NoMap}] /\ reported \in [Record -> Map \cup {NoMap}]
        /\ \A k \in Record : records[k] = NoMap
        /\ tainted = {} /\ linked = {} /\ unread = {} /\ missed = {}
        /\ suspect = {} /\ replaced = {}
    BY DEF Init
  <2>5. rekeyed \in BOOLEAN
    BY Zenon DEF Init
  <2> QED
    BY <1>1, <2>1, <2>2, <2>3, <2>4, <2>5 DEF TypeOK
<1>3. ASSUME NEW c \in Client PROVE PlaceInv(c) /\ MapsInv(c)
  BY DEF Init, PlaceInv, MapsInv, Working
<1>4. StoredInv /\ ApartInv /\ ReportsInv
  BY <1>1 DEF Init, StoredInv, ApartInv, ReportsInv
<1> QED
  BY <1>2, <1>3, <1>4 DEF MongoInv

(* Every step keeps it, but one that gives a map a key.                    *)
LEMMA NextInv == TypeOK /\ (rekeyed \/ MongoInv) /\ [Next]_vars => TypeOK' /\ (rekeyed' \/ MongoInv')
<1> SUFFICES ASSUME TypeOK, rekeyed \/ MongoInv, [Next]_vars PROVE TypeOK' /\ (rekeyed' \/ MongoInv')
  OBVIOUS
<1>1. CASE UNCHANGED vars
  <2>1. /\ UNCHANGED <<db, records, tainted, linked, heap, started, chain, version, pc, at, data,
                       item, inrec, amount, sent, reported, unread, missed, suspect, replaced,
                       rekeyed>>
    BY <1>1 DEF vars, store, request, locals, history, reports
  <2>2. TypeOK'
    BY <2>1 DEF TypeOK
  <2>3. CASE rekeyed
    BY <2>1, <2>2, <2>3
  <2>4. CASE MongoInv
    <3>1. StoredInv' /\ ApartInv' /\ ReportsInv'
      BY <2>1, <2>4 DEF MongoInv, StoredInv, ApartInv, ReportsInv, Stored, Adding, Current
    <3>2. ASSUME NEW c \in Client PROVE PlaceInv(c)' /\ MapsInv(c)'
      BY <2>1, <2>4 DEF MongoInv, PlaceInv, MapsInv, Checked, Now, Current, Stored
    <3> QED
      BY <2>2, <3>1, <3>2 DEF MongoInv
  <2> QED
    BY <2>3, <2>4
<1>2. CASE Next
  <2>1. MongoInv
    BY <1>2 DEF Next
  <2>2. PICK c \in Client : \/ \E steps \in Chains : Start(c, steps)
                           \/ Process(c) \/ TaintedRecords(c) \/ ClearTainted(c) \/ Return(c)
    BY <1>2 DEF Next
  <2>3. MergeParameter(c) => TypeOK' /\ (rekeyed' \/ MongoInv')
    BY <2>1, MergeParameterInv
  <2>4. Process(c) /\ ~ MergeParameter(c) => MongoInv'
    BY <2>1, GetByRefInv, ReadOneInv, HasRefInv, LinkInv, LookInv, InsertInv, MergeInv, TaintInv,
       AllOfLastInv, CountInv, LengthInv, SelectInv, ReadAllInv, CollectInv, MarshalInv, CreateInv,
       UpsertInv, ReadFailsInv, MutateFailsInv, UpsertFailsInv DEF Process
  <2>5. /\ (\E steps \in Chains : Start(c, steps)) => MongoInv'
        /\ TaintedRecords(c) \/ ClearTainted(c) \/ Return(c) => MongoInv'
    BY <2>1, StartInv, TaintedRecordsInv, ClearTaintedInv, ReturnInv
  <2> QED
    BY <2>2, <2>3, <2>4, <2>5 DEF MongoInv
<1> QED
  BY <1>1, <1>2

(* So it holds until then.                                                 *)
THEOREM Invariant == Spec => [](TypeOK /\ (rekeyed \/ MongoInv))
<1>1. Init => TypeOK /\ (rekeyed \/ MongoInv)
  BY InitInv DEF MongoInv
<1> QED
  BY <1>1, NextInv, PTL DEF Spec

(* TypeCorrect: every variable has its type: each map that the store, a    *)
(* response or Add holds is in memory (documents/mongodocs), however many  *)
(* clients share them and drop them.                                       *)
THEOREM TypeCorrect == Spec => []TypeOK
BY Invariant, PTL

(* ChangesTaintedHolds: a stored record that is not what was last reported *)
(* is tainted or about to be, for every chain, number of clients and       *)
(* records: Mutate writes into maps that others hold before it calls Add.  *)
(* Two first Adds that meet, a taint between the two sections of a writer  *)
(* and a Mutate that changes a key are left out.                           *)
THEOREM ChangesTaintedHolds == Spec => []ChangesAreTainted
<1>1. rekeyed \/ MongoInv => ChangesAreTainted
  BY DEF MongoInv, ReportsInv, ChangesAreTainted
<1> QED
  BY <1>1, Invariant, PTL
=============================================================================
