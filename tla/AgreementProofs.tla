-------------------------- MODULE AgreementProofs ---------------------------
(***************************************************************************)
(* Theorems about MongoDocs: the copies of a record agree.                 *)
(***************************************************************************)
EXTENDS MongoDocsProofs

(* The maps of a client's response by their places, and their keys.        *)
Places(c) == IF data[c] = NoResponse THEN {} ELSE 1..Len(data[c])
MapAt(c, i) == heap[data[c][i]]
KeyAt(c, i) == heap[data[c][i]].key

NoCollect(c) == \A i \in DOMAIN chain[c] : chain[c][i].op # "collect"

(* A Mutate has changed the map and has not yet written the document.      *)
Changing(c, i) ==
  /\ i \in Places(c)
  /\ \/ pc[c] \in {"look", "insert", "merge", "taint"} /\ Now(c).op = "mutate" /\ i <= item[c]
     \/ pc[c] = "step" /\ i < item[c]
     \/ pc[c] \in {"marshal", "upsert"} /\ i >= item[c]
ChangesKey(c, k) == \E i \in Places(c) : KeyAt(c, i) = k /\ Changing(c, i)

(* The changed map has not reached the store.                              *)
Pending(c, i) == i = item[c] /\ pc[c] \in {"look", "insert", "merge"}

(* A map with all that a document has; the stored one is.                  *)
Same(m, k) == db[k] # NoDoc /\ m = MapOf(k, db[k])
Clean(k) == Same(heap[records[k]], k)

(* Two chains of which one writes meet over suspect records alone.         *)
SuspectInv ==
  \A c, d \in Client : c # d /\ Running(c) /\ Running(d) /\ Writes(chain[c]) =>
    Footprint(chain[c]) \cap Footprint(chain[d]) \subseteq suspect

(* What the keys of a response are.                                        *)
KeysInv(c) ==
  /\ \A i \in Places(c) : KeyAt(c, i) \in Record => KeyAt(c, i) \in Footprint(chain[c])
  /\ \A i, j \in Places(c) : i # j /\ KeyAt(c, i) \in Record => KeyAt(c, j) # KeyAt(c, i)
  /\ \A i, j \in Places(c) : KeyAt(c, i) \in Record => KeyAt(c, j) \in Record
  /\ pc[c] # "idle" /\ chain[c][1].op = "find" => \A i \in Places(c) : i = 1
  /\ pc[c] # "idle" /\ NoCollect(c) => \A i \in Places(c) : KeyAt(c, i) \in Record

(* What is written, a Mutate has.                                          *)
ShapeInv(c) ==
  /\ KeysInv(c)
  /\ pc[c] \in {"marshal", "upsert"} => Now(c).op = "mutate"
  /\ pc[c] = "upsert" => sent[c].key = KeyAt(c, item[c])

(* A map that is not being changed has what the document has, all of it    *)
(* unless it was collected.                                                *)
Exact(c) == NoCollect(c) \/ (pc[c] \in Working /\ Now(c).op # "mutate")
CopyInv(c) ==
  \A i \in Places(c) : KeyAt(c, i) \in Record \ suspect /\ ~ Changing(c, i) =>
    /\ db[KeyAt(c, i)] # NoDoc
    /\ MapAt(c, i).val = db[KeyAt(c, i)].val
    /\ Exact(c) => MapAt(c, i).rest = db[KeyAt(c, i)].rest

(* The stored map has what the changed one has, or will when it is added,  *)
(* or they differ in what makes the record suspect; or the map is new.     *)
Matches(k, m) ==
  /\ k \in Stored
  /\ heap[records[k]].val = m.val
  /\ heap[records[k]].rest = m.rest \/ (db[k] # NoDoc /\ m.rest # db[k].rest)
ChangeInv(c) ==
  \A i \in Places(c) : KeyAt(c, i) \in Record \ suspect /\ Changing(c, i) =>
    LET k == KeyAt(c, i) IN
    /\ Pending(c, i) /\ k \in Stored => records[k] = data[c][i] \/ Clean(k)
    /\ i = item[c] /\ pc[c] = "insert" => k \notin Stored
    /\ i = item[c] /\ pc[c] \in {"merge", "taint"} => k \in Stored /\ records[k] = inrec[c]
    /\ ~ Pending(c, i) =>
         Matches(k, MapAt(c, i)) \/ (k \notin Stored /\ i = item[c] /\ pc[c] = "upsert")
    /\ i = item[c] /\ pc[c] = "upsert" => sent[c] = MapAt(c, i)

(* Find and All merge into a map that is as theirs.                        *)
InrecInv(c) ==
  pc[c] \in {"merge", "taint"} /\ Now(c).op # "mutate" /\ KeyAt(c, item[c]) \notin suspect =>
    Same(heap[inrec[c]], KeyAt(c, item[c]))

(* An empty response: what the last Find looked for is not there.          *)
AbsentInv(c) ==
  pc[c] = "step" /\ data[c] = <<>> => \A k \in Sought(chain[c], at[c]) : k \in suspect \/ db[k] = NoDoc

(* A query for all has them all.                                           *)
CompleteInv(c) ==
  suspect = {} /\ Running(c) /\ Complete(chain[c]) =>
    /\ pc[c] \in {"length", "select", "readAll"} => amount[c] = Cardinality(InDb)
    /\ data[c] # NoResponse => {KeyAt(c, i) : i \in Places(c)} = InDb

CleanInv == \A k \in Stored \ suspect : (\A c \in Client : ~ ChangesKey(c, k)) => Clean(k)

ClientInv(c) == /\ ShapeInv(c) /\ CopyInv(c) /\ ChangeInv(c) /\ InrecInv(c)
                /\ AbsentInv(c) /\ CompleteInv(c)

AgreeInv == SuspectInv /\ (\A c \in Client : ClientInv(c)) /\ CleanInv

-----------------------------------------------------------------------------
(* Who changes a map is a running client that writes.                      *)
LEMMA ChangerWrites ==
  ASSUME MongoInv, AgreeInv, NEW c \in Client, NEW i, Changing(c, i)
  PROVE  Running(c) /\ Writes(chain[c]) /\ Now(c).op = "mutate"
<1>1. Running(c) /\ Now(c).op = "mutate"
  <2>1. i \in Int
    <3>1. data[c] # NoResponse => Len(data[c]) \in Nat
      BY Facts DEF MongoInv
    <3> QED
      BY <3>1 DEF Changing, Places
  <2>2. item[c] \in Nat \ {0} /\ i >= 1
    BY <2>1, Facts DEF MongoInv, Changing, Places
  <2> QED
    BY <2>1, <2>2 DEF Changing, Running, MongoInv, PlaceInv, AgreeInv, ClientInv, ShapeInv
<1>2. at[c] \in DOMAIN chain[c]
  BY <1>1, StepNow DEF Running
<1> QED
  BY <1>1, <1>2 DEF Writes, Now

(* The records a client changes are in its footprint.                      *)
LEMMA ChangesItsOwn ==
  ASSUME MongoInv, AgreeInv, NEW c \in Client, NEW k \in Record, ChangesKey(c, k)
  PROVE  Running(c) /\ Writes(chain[c]) /\ k \in Footprint(chain[c])
BY ChangerWrites DEF ChangesKey, AgreeInv, ClientInv, ShapeInv, KeysInv

(* What two running clients may touch and one writes is suspect.           *)
LEMMA Alone ==
  ASSUME AgreeInv, NEW c \in Client, NEW d \in Client \ {c}, Running(c), Running(d),
         Writes(chain[c]) \/ Writes(chain[d]),
         NEW k \in Footprint(chain[c]) \cap Footprint(chain[d])
  PROVE  k \in suspect
BY DEF AgreeInv, SuspectInv

(* A record that is not suspect is as in the database, for a client that   *)
(* may touch it and is not changing it.                                    *)
LEMMA CleanFor ==
  ASSUME MongoInv, AgreeInv, NEW c \in Client, Running(c),
         NEW k \in Footprint(chain[c]) \ suspect, k \in Stored, ~ ChangesKey(c, k)
  PROVE  Clean(k)
<1>1. k \in Record
  BY DEF Stored
<1>2. \A d \in Client \ {c} : ~ ChangesKey(d, k)
  BY <1>1, Alone, ChangesItsOwn
<1> QED
  BY <1>2 DEF AgreeInv, CleanInv

-----------------------------------------------------------------------------
(* What a step of d leaves to the others: their places, the keys of their  *)
(* maps, what those hold unless it is suspect; and the records that it may *)
(* not touch.                                                              *)
Undisturbed(d) ==
  /\ OthersSame(d) /\ suspect \subseteq suspect'
  /\ \A c \in Client \ {d} : amount'[c] = amount[c]
  /\ \A c \in Client \ {d} : \A r \in Mine(c) :
       /\ heap'[r].key = heap[r].key
       /\ heap[r].key \in Record \ suspect' => heap'[r] = heap[r]
  /\ \A k \in Record \ suspect' :
       db'[k] = db[k] \/ (Running(d) /\ Writes(chain[d]) /\ k \in Footprint(chain[d]))
  /\ \A k \in Record \ suspect' :
       \/ records'[k] = records[k] /\ (k \in Stored => heap'[records[k]] = heap[records[k]])
       \/ Running(d) /\ k \in Footprint(chain[d])

(* A stored record that d leaves clean, or as it is.                       *)
CleanKept(d) ==
  \A k \in Stored' \ suspect' : ~ ChangesKey(d, k)' =>
    \/ Clean(k)'
    \/ /\ k \in Stored /\ ~ ChangesKey(d, k)
       /\ db'[k] = db[k] /\ heap'[records'[k]] = heap[records[k]]

(* The maps of another client are as they were.                            *)
LEMMA OtherMaps ==
  ASSUME MongoInv, AgreeInv, NEW d \in Client, Undisturbed(d), NEW c \in Client \ {d}
  PROVE  /\ Places(c)' = Places(c) /\ Now(c)' = Now(c) /\ Running(c)' = Running(c)
         /\ Exact(c)' = Exact(c) /\ NoCollect(c)' = NoCollect(c)
         /\ \A i : Changing(c, i)' = Changing(c, i) /\ Pending(c, i)' = Pending(c, i)
         /\ \A i \in Places(c) :
              /\ data[c][i] \in Mine(c) /\ KeyAt(c, i)' = KeyAt(c, i)
              /\ KeyAt(c, i) \in Record \ suspect' => MapAt(c, i)' = MapAt(c, i)
         /\ \A k : ChangesKey(c, k)' = ChangesKey(c, k)
<1>1. /\ pc'[c] = pc[c] /\ chain'[c] = chain[c] /\ at'[c] = at[c] /\ data'[c] = data[c]
      /\ item'[c] = item[c] /\ inrec'[c] = inrec[c] /\ sent'[c] = sent[c]
  BY DEF Undisturbed, OthersSame
<1>2. Places(c)' = Places(c) /\ Now(c)' = Now(c) /\ Running(c)' = Running(c)
  BY <1>1 DEF Places, Now, Running
<1>3. NoCollect(c)' = NoCollect(c)
  BY <1>1 DEF NoCollect
<1>4. Exact(c)' = Exact(c)
  BY <1>1, <1>2, <1>3 DEF Exact
<1>5. \A i : Changing(c, i)' = Changing(c, i)
  BY <1>1, <1>2 DEF Changing
<1>6. \A i : Pending(c, i)' = Pending(c, i)
  BY <1>1 DEF Pending
<1>7. \A i \in Places(c) :
        /\ data[c][i] \in Mine(c) /\ KeyAt(c, i)' = KeyAt(c, i)
        /\ KeyAt(c, i) \in Record \ suspect' => MapAt(c, i)' = MapAt(c, i)
  <2> SUFFICES ASSUME NEW i \in Places(c)
               PROVE  /\ data[c][i] \in Mine(c) /\ KeyAt(c, i)' = KeyAt(c, i)
                      /\ KeyAt(c, i) \in Record \ suspect' => MapAt(c, i)' = MapAt(c, i)
    OBVIOUS
  <2>1. data[c][i] \in Mine(c)
    <3>1. TypeOK
      BY DEF MongoInv
    <3> QED
      BY <3>1, Facts DEF Places
  <2> QED
    BY <1>1, <2>1 DEF Undisturbed, KeyAt, MapAt
<1>8. \A k : ChangesKey(c, k)' = ChangesKey(c, k)
  BY <1>2, <1>5, <1>7 DEF ChangesKey
<1> QED
  BY <1>2, <1>3, <1>4, <1>5, <1>6, <1>7, <1>8

(* What a Find of a chain looked for, the chain may touch.                 *)
LEMMA SoughtTouched ==
  ASSUME MongoInv, NEW c \in Client, Running(c), NEW k \in Sought(chain[c], at[c])
  PROVE  k \in Footprint(chain[c])
<1>1. /\ at[c] \in 1..Len(chain[c]) /\ DOMAIN chain[c] = 1..Len(chain[c])
      /\ Len(chain[c]) \in Nat
  BY StepNow DEF Running
<1>2. PICK i \in 1..(at[c] - 1) : chain[c][i].op = "find" /\ chain[c][i].key = k
  BY DEF Sought
<1>3. i \in DOMAIN chain[c] /\ k \in Record
  BY <1>1 DEF Sought
<1> QED
  BY <1>2, <1>3 DEF Footprint

(* Of a step that is no Find, nothing is looked for.                       *)
LEMMA SoughtNext ==
  ASSUME NEW steps, NEW n \in Nat \ {0}
  PROVE  /\ steps[n].op # "find" => Sought(steps, n + 1) \subseteq Sought(steps, n)
         /\ steps[n].op = "find" => Sought(steps, n + 1) \subseteq {steps[n].key}
         /\ Sought(steps, 1) = {}
<1>1. ASSUME NEW k \in Sought(steps, n + 1)
      PROVE  /\ steps[n].op # "find" => k \in Sought(steps, n)
             /\ steps[n].op = "find" => k = steps[n].key
  <2>1. PICK i \in 1..n : /\ steps[i].op = "find" /\ steps[i].key = k
                          /\ \A j \in (i + 1)..n : steps[j].op # "find"
    BY DEF Sought
  <2>2. steps[n].op = "find" => i = n
    BY <2>1
  <2>3. steps[n].op # "find" =>
          i \in 1..(n - 1) /\ \A j \in (i + 1)..(n - 1) : steps[j].op # "find"
    BY <2>1
  <2> QED
    BY <2>1, <2>2, <2>3 DEF Sought
<1>2. Sought(steps, 1) = {}
  BY DEF Sought
<1> QED
  BY <1>1, <1>2

(* So is what is known of them.                                            *)
LEMMA OtherAgrees ==
  ASSUME MongoInv, AgreeInv, NEW d \in Client, Undisturbed(d), NEW c \in Client \ {d}
  PROVE  ClientInv(c)'
<1>1. /\ pc'[c] = pc[c] /\ chain'[c] = chain[c] /\ at'[c] = at[c] /\ data'[c] = data[c]
      /\ item'[c] = item[c] /\ inrec'[c] = inrec[c] /\ sent'[c] = sent[c]
      /\ amount'[c] = amount[c] /\ suspect \subseteq suspect'
  BY DEF Undisturbed, OthersSame
<1>2. /\ Places(c)' = Places(c) /\ Now(c)' = Now(c) /\ Running(c)' = Running(c)
      /\ Exact(c)' = Exact(c) /\ NoCollect(c)' = NoCollect(c)
      /\ \A i : Changing(c, i)' = Changing(c, i) /\ Pending(c, i)' = Pending(c, i)
      /\ \A i \in Places(c) :
           /\ data[c][i] \in Mine(c) /\ KeyAt(c, i)' = KeyAt(c, i)
           /\ KeyAt(c, i) \in Record \ suspect' => MapAt(c, i)' = MapAt(c, i)
  BY OtherMaps
<1>3. /\ ShapeInv(c) /\ CopyInv(c) /\ ChangeInv(c) /\ InrecInv(c) /\ AbsentInv(c)
      /\ CompleteInv(c) /\ PlaceInv(c) /\ MapsInv(c) /\ TypeOK
  BY DEF AgreeInv, ClientInv, MongoInv
<1>4. \A k \in Record \ suspect' : Running(c) /\ k \in Footprint(chain[c]) => db'[k] = db[k]
  BY <1>1, Alone DEF Undisturbed
<1>5. \A k \in Record \ suspect' :
        Running(c) /\ Writes(chain[c]) /\ k \in Footprint(chain[c]) =>
          records'[k] = records[k] /\ (k \in Stored => heap'[records[k]] = heap[records[k]])
  BY <1>1, Alone DEF Undisturbed
<1>6. \A i \in Places(c) : Running(c) /\ (KeyAt(c, i) \in Record => KeyAt(c, i) \in Footprint(chain[c]))
  BY <1>3 DEF ShapeInv, KeysInv, PlaceInv, Places, Running
<1>7. ShapeInv(c)'
  <2>1. pc[c] = "upsert" => item[c] \in Places(c)
    BY <1>3 DEF PlaceInv, Places
  <2> QED
    BY <1>1, <1>2, <1>3, <2>1 DEF ShapeInv, KeysInv
<1>8. CopyInv(c)'
  BY <1>1, <1>2, <1>3, <1>4, <1>6 DEF CopyInv
<1>9. ChangeInv(c)'
  <2> SUFFICES ASSUME NEW i \in Places(c), KeyAt(c, i) \in Record \ suspect', Changing(c, i)
               PROVE  LET k == KeyAt(c, i) IN
                      /\ Pending(c, i) /\ k \in Stored' => records'[k] = data[c][i] \/ Clean(k)'
                      /\ i = item[c] /\ pc[c] = "insert" => k \notin Stored'
                      /\ i = item[c] /\ pc[c] \in {"merge", "taint"} => k \in Stored' /\ records'[k] = inrec[c]
                      /\ ~ Pending(c, i) =>
                           \/ Matches(k, MapAt(c, i))'
                           \/ k \notin Stored' /\ i = item[c] /\ pc[c] = "upsert"
                      /\ i = item[c] /\ pc[c] = "upsert" => sent[c] = MapAt(c, i)
    BY <1>1, <1>2 DEF ChangeInv
  <2> DEFINE k == KeyAt(c, i)
  <2>1. /\ k \in Record /\ k \notin suspect /\ k \notin suspect' /\ Running(c) /\ Writes(chain[c])
        /\ k \in Footprint(chain[c])
    BY <1>1, <1>6, ChangerWrites
  <2>2. /\ db'[k] = db[k] /\ records'[k] = records[k]
        /\ k \in Stored => heap'[records[k]] = heap[records[k]]
    BY <1>4, <1>5, <2>1
  <2>3. /\ k' = k /\ MapAt(c, i)' = MapAt(c, i)
        /\ (k \in Stored)' <=> k \in Stored
    BY <1>2, <2>1, <2>2 DEF Stored
  <2>4. k \in Stored => (Clean(k)' <=> Clean(k))
    BY <2>2, <2>3 DEF Clean, Same
  <2>5. Matches(k, MapAt(c, i))' <=> Matches(k, MapAt(c, i))
    BY <2>2, <2>3 DEF Matches
  <2> QED
    BY <1>3, <2>1, <2>2, <2>3, <2>4, <2>5 DEF ChangeInv
<1>10. InrecInv(c)'
  <2> SUFFICES ASSUME pc[c] \in {"merge", "taint"}, Now(c).op # "mutate", KeyAt(c, item[c])' \notin suspect'
               PROVE  Same(heap[inrec[c]], KeyAt(c, item[c]))'
    BY <1>1, <1>2 DEF InrecInv
  <2>1. item[c] \in Places(c) /\ Current(c) = data[c][item[c]] /\ heap[Current(c)].key \in Record
    BY <1>3, CurrentRecord DEF Places, Current, Working
  <2>2. KeyAt(c, item[c])' = KeyAt(c, item[c]) /\ KeyAt(c, item[c]) \in Record \ suspect
    BY <1>1, <1>2, <2>1 DEF KeyAt, Current
  <2>3. inrec[c] \in Mine(c) /\ heap[inrec[c]].key = KeyAt(c, item[c])
    BY <1>3, <2>1, Facts DEF MapsInv, KeyAt
  <2>4. heap'[inrec[c]] = heap[inrec[c]]
    BY <2>2, <2>3 DEF Undisturbed
  <2>5. db'[KeyAt(c, item[c])] = db[KeyAt(c, item[c])]
    BY <1>4, <1>6, <2>1, <2>2
  <2> QED
    BY <1>1, <1>3, <2>2, <2>4, <2>5 DEF InrecInv, Same
<1>11. AbsentInv(c)'
  <2> SUFFICES ASSUME pc[c] = "step", data[c] = <<>>, NEW k \in Sought(chain[c], at[c])
               PROVE  k \in suspect' \/ db'[k] = NoDoc
    <3>1. Sought(chain[c], at[c])' = Sought(chain[c], at[c])
      BY <1>1 DEF Sought
    <3> QED
      BY <1>1, <3>1 DEF AbsentInv
  <2>1. k \in suspect \/ db[k] = NoDoc
    BY <1>3 DEF AbsentInv
  <2>2. k \in Record /\ Running(c)
    BY DEF Sought, Running
  <2>3. k \in Footprint(chain[c])
    BY <2>2, SoughtTouched
  <2> QED
    BY <1>1, <1>4, <2>1, <2>2, <2>3
<1>12. CompleteInv(c)'
  <2> SUFFICES ASSUME suspect' = {}, Running(c), Complete(chain[c])
               PROVE  /\ pc[c] \in {"length", "select", "readAll"} => amount[c] = Cardinality(InDb')
                      /\ data[c] # NoResponse => {KeyAt(c, i)' : i \in Places(c)} = InDb'
    BY <1>1, <1>2 DEF CompleteInv
  <2>1. Footprint(chain[c]) = Record /\ suspect = {}
    BY <1>1 DEF Complete, Footprint
  <2>2. \A k \in Record : db'[k] = db[k]
    BY <1>4, <2>1
  <2>3. InDb' = InDb
    BY <2>2 DEF InDb
  <2> QED
    BY <1>2, <1>3, <2>1, <2>3 DEF CompleteInv
<1> QED
  BY <1>7, <1>8, <1>9, <1>10, <1>11, <1>12 DEF ClientInv

(* What is left to show of the step of a client.                           *)
LEMMA AgreeStep ==
  ASSUME MongoInv, AgreeInv, NEW d \in Client, Undisturbed(d), CleanKept(d), SuspectInv',
         ClientInv(d)'
  PROVE  AgreeInv'
<1>1. \A c \in Client : ClientInv(c)'
  BY OtherAgrees
<1>2. CleanInv'
  <2> SUFFICES ASSUME NEW k \in Stored' \ suspect', \A c \in Client : ~ ChangesKey(c, k)'
               PROVE  Clean(k)'
    BY DEF CleanInv
  <2> SUFFICES ASSUME k \in Stored, ~ ChangesKey(d, k), db'[k] = db[k],
                      heap'[records'[k]] = heap[records[k]]
               PROVE  Clean(k)'
    BY DEF CleanKept
  <2>1. \A c \in Client : ~ ChangesKey(c, k)
    BY OtherMaps
  <2>2. Clean(k)
    BY <2>1 DEF AgreeInv, CleanInv, Undisturbed
  <2> QED
    BY <2>2 DEF Clean, Same
<1> QED
  BY <1>1, <1>2 DEF AgreeInv

(* Chains meet when they start.                                            *)
LEMMA SuspectKept ==
  ASSUME AgreeInv, NEW d \in Client, Undisturbed(d),
         pc'[d] # "idle" => pc[d] # "idle" /\ chain'[d] = chain[d]
  PROVE  SuspectInv'
<1>1. \A c \in Client : Running(c)' => Running(c) /\ chain'[c] = chain[c]
  BY DEF Undisturbed, OthersSame, Running
<1> QED
  BY <1>1 DEF AgreeInv, SuspectInv, Undisturbed

-----------------------------------------------------------------------------
(* A step that reads: it leaves what others have, and changes nothing.     *)
LEMMA ReadAgrees ==
  ASSUME MongoInv, AgreeInv, NEW d \in Client, OthersSame(d), Running(d),
         UNCHANGED <<db, records, chain, suspect>>,
         \A c \in Client \ {d} : amount'[c] = amount[c],
         \A k \in Stored : heap'[records[k]] = heap[records[k]],
         \A c \in Client \ {d} : \A r \in Mine(c) : heap'[r] = heap[r],
         \A i \in Places(d) : ~ Changing(d, i), \A i \in Places(d)' : ~ Changing(d, i)',
         pc'[d] \notin {"merge", "taint", "marshal", "upsert"},
         KeysInv(d)', CopyInv(d)', AbsentInv(d)', CompleteInv(d)'
  PROVE  AgreeInv'
<1>1. Undisturbed(d)
  BY DEF Undisturbed
<1>2. \A k : ~ ChangesKey(d, k)
  BY DEF ChangesKey
<1>3. CleanKept(d)
  <2>1. Stored' = Stored
    BY DEF Stored
  <2> QED
    BY <1>2, <2>1 DEF CleanKept
<1>4. SuspectInv'
  BY <1>1, SuspectKept DEF Running
<1>5. ClientInv(d)'
  <2>1. ShapeInv(d)'
    BY DEF ShapeInv
  <2>2. ChangeInv(d)'
    BY DEF ChangeInv
  <2>3. InrecInv(d)'
    BY DEF InrecInv
  <2> QED
    BY <2>1, <2>2, <2>3 DEF ClientInv
<1> QED
  BY <1>1, <1>3, <1>4, <1>5, AgreeStep

(* A step that leaves the maps and the response alone.                     *)
LEMMA CalmAgrees ==
  ASSUME MongoInv, AgreeInv, NEW d \in Client, OthersSame(d), Running(d),
         UNCHANGED <<db, records, chain, suspect, heap, data>>,
         \A c \in Client \ {d} : amount'[c] = amount[c],
         \A i \in Places(d) : ~ Changing(d, i) /\ ~ Changing(d, i)',
         pc'[d] \notin {"idle", "merge", "taint", "marshal", "upsert"},
         Exact(d)' => Exact(d),
         pc'[d] = "step" /\ data[d] = <<>> =>
           pc[d] = "step" /\ Sought(chain[d], at'[d]) \subseteq Sought(chain[d], at[d]),
         pc'[d] \in {"length", "select", "readAll"} /\ suspect = {} /\ Complete(chain[d]) =>
           amount'[d] = Cardinality(InDb)
  PROVE  AgreeInv'
<1>1. /\ Places(d)' = Places(d) /\ InDb' = InDb /\ NoCollect(d)' = NoCollect(d)
      /\ \A i : KeyAt(d, i)' = KeyAt(d, i) /\ MapAt(d, i)' = MapAt(d, i)
      /\ Sought(chain[d], at[d])' = Sought(chain[d], at'[d])
  BY DEF Places, InDb, KeyAt, MapAt, Sought, NoCollect
<1>2. /\ KeysInv(d) /\ CopyInv(d) /\ AbsentInv(d) /\ CompleteInv(d)
  BY DEF AgreeInv, ClientInv, ShapeInv
<1>3. KeysInv(d)'
  BY <1>1, <1>2 DEF KeysInv, Running
<1>4. CopyInv(d)'
  BY <1>1, <1>2 DEF CopyInv
<1>5. AbsentInv(d)'
  BY <1>1, <1>2 DEF AbsentInv
<1>6. CompleteInv(d)'
  BY <1>1, <1>2 DEF CompleteInv, Running
<1>7. \A c \in Client \ {d} : \A r \in Mine(c) : heap'[r] = heap[r]
  OBVIOUS
<1> QED
  BY <1>1, <1>3, <1>4, <1>5, <1>6, ReadAgrees

(* A client at a step, or at the first record of one that reads, changes   *)
(* nothing.                                                                *)
LEMMA AtRest ==
  ASSUME MongoInv, AgreeInv, NEW d \in Client,
         \/ pc[d] \notin {"look", "insert", "merge", "taint", "step", "marshal", "upsert"}
         \/ pc[d] = "step" /\ item[d] = 1
         \/ pc[d] \in Working /\ Now(d).op # "mutate"
  PROVE  \A i \in Places(d) : ~ Changing(d, i)
<1>1. \A i \in Places(d) : i \in Nat /\ i >= 1
  BY Facts DEF Places, MongoInv
<1> QED
  BY <1>1 DEF Changing, Working

-----------------------------------------------------------------------------
(* The places of a response, and where a processor goes.                   *)
LEMMA Numbers ==
  ASSUME MongoInv, NEW c \in Client
  PROVE  /\ \A i \in Places(c) : i \in Nat /\ i >= 1
         /\ data[c] # NoResponse => Places(c) = 1..Len(data[c]) /\ Len(data[c]) \in Nat
BY Facts DEF Places, MongoInv

LEMMA Moved ==
  ASSUME MongoInv, NEW c \in Client, Running(c), Advance(c)
  PROVE  /\ pc'[c] \in {"step", "answered"}
         /\ \A d \in Client \ {c} : pc'[d] = pc[d] /\ at'[d] = at[d]
         /\ Now(c).op # "find" => Sought(chain[c], at'[c]) \subseteq Sought(chain[c], at[c])
         /\ Now(c).op = "find" /\ pc'[c] = "step" => Sought(chain[c], at'[c]) \subseteq {Now(c).key}
<1>1. pc \in [Client -> Points] /\ at \in [Client -> Nat \ {0}]
  BY DEF MongoInv, TypeOK
<1>2. \/ pc'[c] = "step" /\ at'[c] = at[c] + 1
      \/ pc'[c] = "answered" /\ at'[c] = at[c]
  BY <1>1 DEF Advance, Goto
<1>3. /\ Now(c).op # "find" => Sought(chain[c], at[c] + 1) \subseteq Sought(chain[c], at[c])
      /\ Now(c).op = "find" => Sought(chain[c], at[c] + 1) \subseteq {Now(c).key}
  BY <1>1, SoughtNext DEF Now
<1>4. \A d \in Client \ {c} : pc'[d] = pc[d] /\ at'[d] = at[d]
  BY <1>1 DEF Advance, Goto
<1> QED
  BY <1>2, <1>3, <1>4

LEMMA Went ==
  ASSUME MongoInv, NEW c \in Client, NEW point, Goto(c, point)
  PROVE  /\ pc'[c] = point /\ \A d \in Client \ {c} : pc'[d] = pc[d]
BY DEF MongoInv, TypeOK, Goto

-----------------------------------------------------------------------------
(* A Find may touch its record.                                            *)
LEMMA FindTouches ==
  ASSUME MongoInv, NEW c \in Client, Running(c), Now(c).op = "find"
  PROVE  Now(c).key \in Footprint(chain[c]) /\ ~ Complete(chain[c])
<1>1. at[c] \in DOMAIN chain[c] /\ Now(c).key \in Record
  BY StepNow DEF Running
<1>2. chain[c][at[c]].op = "find" /\ chain[c][at[c]].key = Now(c).key
  BY DEF Now
<1>3. Now(c).key \in Footprint(chain[c])
  BY <1>1, <1>2 DEF Footprint
<1>4. ~ Complete(chain[c])
  BY <1>1, <1>2 DEF Complete
<1> QED
  BY <1>3, <1>4

(* Each step keeps the agreement.  One that fails leaves the copies alone. *)
LEMMA FailsAgrees ==
  ASSUME MongoInv, AgreeInv, NEW c \in Client, Running(c), Fails(c),
         \A i \in Places(c) : ~ Changing(c, i),
         UNCHANGED <<db, store, heap, request, data, locals, history>>
  PROVE  AgreeInv'
<1>1. /\ pc'[c] = "failed" /\ \A d \in Client \ {c} : pc'[d] = pc[d]
      /\ UNCHANGED at
  BY Went DEF Fails
<1>2. OthersSame(c)
  BY <1>1 DEF OthersSame, request, locals
<1>3. \A i \in Places(c) : ~ Changing(c, i)'
  BY <1>1 DEF Changing
<1>4. Exact(c)' => Exact(c)
  BY <1>1 DEF Exact, NoCollect, Working, request
<1> QED
  BY <1>1, <1>2, <1>3, <1>4, CalmAgrees DEF store, request, locals, history

LEMMA ReadFailsAgrees ==
  ASSUME MongoInv, AgreeInv, NEW c \in Client, ReadFails(c) PROVE AgreeInv'
<1>1. Running(c)
  BY DEF ReadFails, Running
<1>2. pc[c] = "step" => item[c] = 1
  BY DEF MongoInv, PlaceInv, ReadFails
<1>3. \A i \in Places(c) : ~ Changing(c, i)
  BY <1>2, AtRest DEF ReadFails
<1> QED
  BY <1>1, <1>3, FailsAgrees DEF ReadFails

LEMMA MutateFailsAgrees ==
  ASSUME MongoInv, AgreeInv, NEW c \in Client, MutateFails(c) PROVE AgreeInv'
<1>1. Running(c) /\ pc[c] = "step"
  BY DEF MutateFails, Running
<1>2. \A i \in Places(c) : ~ Changing(c, i)
  <2>1. CASE item[c] = 1
    BY <1>1, <2>1, AtRest
  <2>2. CASE data[c] = <<>>
    BY <2>2, Numbers DEF Places
  <2> QED
    BY <2>1, <2>2 DEF MutateFails
<1> QED
  BY <1>1, <1>2, FailsAgrees DEF MutateFails

LEMMA HasRefAgrees ==
  ASSUME MongoInv, AgreeInv, NEW c \in Client, HasRef(c) PROVE AgreeInv'
<1>1. /\ pc[c] = "has" /\ Running(c)
      /\ UNCHANGED <<db, store, heap, request, at, data, locals, history>>
  BY DEF HasRef, Running
<1>2. /\ pc'[c] \in {"look", "link"} /\ \A d \in Client \ {c} : pc'[d] = pc[d]
  BY Went DEF HasRef
<1>3. Now(c).op = "find" /\ Now(c)' = Now(c)
  BY <1>1 DEF MongoInv, PlaceInv, Now, request
<1>4. \A i \in Places(c) : ~ Changing(c, i) /\ ~ Changing(c, i)'
  BY <1>1, <1>2, <1>3 DEF Changing
<1>5. Exact(c)' => Exact(c)
  BY <1>1, <1>2, <1>3 DEF Exact, NoCollect, Working, request
<1>6. OthersSame(c)
  BY <1>1, <1>2 DEF OthersSame, request, locals
<1> QED
  BY <1>1, <1>2, <1>4, <1>5, <1>6, CalmAgrees DEF store, request, locals, history

LEMMA LinkAgrees ==
  ASSUME MongoInv, AgreeInv, NEW c \in Client, Link(c) PROVE AgreeInv'
<1>1. /\ pc[c] = "link" /\ Running(c) /\ Advance(c)
      /\ UNCHANGED <<db, records, tainted, heap, request, data, locals, history>>
  BY DEF Link, Running
<1>2. /\ pc'[c] \in {"step", "answered"} /\ \A d \in Client \ {c} : pc'[d] = pc[d] /\ at'[d] = at[d]
  BY <1>1, Moved
<1>3. item[c] = 1 /\ data[c] # <<>>
  BY <1>1, CurrentRecord DEF MongoInv, PlaceInv, Working
<1>4. \A i \in Places(c) : ~ Changing(c, i) /\ ~ Changing(c, i)'
  BY <1>1, <1>2, <1>3, Numbers DEF Changing, locals
<1>5. Exact(c)' => Exact(c)
  BY <1>1, <1>2 DEF Exact, NoCollect, Working, request
<1>6. OthersSame(c)
  BY <1>1, <1>2 DEF OthersSame, request, locals
<1> QED
  BY <1>1, <1>2, <1>3, <1>4, <1>5, <1>6, CalmAgrees DEF request, locals, history

LEMMA CountAgrees ==
  ASSUME MongoInv, AgreeInv, NEW c \in Client, Count(c) PROVE AgreeInv'
<1>1. /\ pc[c] = "step" /\ Running(c) /\ Now(c).op = "all" /\ data[c] = NoResponse
      /\ amount' = [amount EXCEPT ![c] =
                      IF Now(c).amount < 0 THEN Cardinality(InDb) ELSE Now(c).amount]
      /\ UNCHANGED <<db, store, heap, request, at, data, item, inrec, sent, history>>
  BY DEF Count, FirstAll, Running
<1>2. /\ pc'[c] = "length" /\ \A d \in Client \ {c} : pc'[d] = pc[d]
  BY Went DEF Count
<1>3. \A d \in Client \ {c} : amount'[d] = amount[d]
  BY <1>1
<1>4. Complete(chain[c]) => amount'[c] = Cardinality(InDb)
  <2>1. amount \in [Client -> Nat] /\ at[c] = 1
    BY <1>1 DEF MongoInv, TypeOK, PlaceInv
  <2>2. Complete(chain[c]) => Now(c).amount < 0
    BY <1>1, <2>1, StepNow DEF Complete, Now, Running
  <2> QED
    BY <1>1, <2>1, <2>2
<1>5. \A i \in Places(c) : ~ Changing(c, i) /\ ~ Changing(c, i)'
  BY <1>1 DEF Places
<1>6. Exact(c)' => Exact(c)
  BY <1>1, <1>2 DEF Exact, NoCollect, Working, request
<1>7. OthersSame(c)
  BY <1>1, <1>2 DEF OthersSame, request
<1> QED
  BY <1>1, <1>2, <1>3, <1>4, <1>5, <1>6, <1>7, CalmAgrees DEF store, request, history

LEMMA LengthAgrees ==
  ASSUME MongoInv, AgreeInv, NEW c \in Client, Length(c) PROVE AgreeInv'
<1>1. /\ pc[c] = "length" /\ Running(c)
      /\ UNCHANGED <<db, store, heap, request, at, data, locals, history>>
  BY DEF Length, Running
<1>2. /\ pc'[c] \in {"select", "readAll"} /\ \A d \in Client \ {c} : pc'[d] = pc[d]
  BY Went DEF Length
<1>3. suspect = {} /\ Complete(chain[c]) => amount'[c] = Cardinality(InDb)
  BY <1>1 DEF AgreeInv, ClientInv, CompleteInv, locals
<1>4. \A i \in Places(c) : ~ Changing(c, i) /\ ~ Changing(c, i)'
  BY <1>1, <1>2 DEF Changing
<1>5. Exact(c)' => Exact(c)
  BY <1>1, <1>2 DEF Exact, NoCollect, Working, request
<1>6. OthersSame(c)
  BY <1>1, <1>2 DEF OthersSame, request, locals
<1> QED
  BY <1>1, <1>2, <1>3, <1>4, <1>5, <1>6, CalmAgrees DEF store, request, locals, history

(* Find of a record with a reference: the stored map is its document.      *)
LEMMA GetByRefAgrees ==
  ASSUME MongoInv, AgreeInv, NEW c \in Client, GetByRef(c) PROVE AgreeInv'
<1> DEFINE k == Now(c).key
<1>1. /\ pc[c] = "step" /\ Running(c) /\ Now(c).op = "find"
      /\ UNCHANGED <<db, store, heap, request, locals, history>>
  BY DEF GetByRef, Running
<1>2. TypeOK /\ StoredInv /\ item[c] = 1
  BY <1>1 DEF MongoInv, PlaceInv
<1>3. \A i \in Places(c) : ~ Changing(c, i)
  BY <1>1, <1>2, AtRest
<1>4. CASE k \in linked
  <2>1. data' = [data EXCEPT ![c] = <<records[k]>>] /\ Advance(c)
    BY <1>4 DEF GetByRef
  <2>2. k \in Stored /\ k \in Record /\ heap[records[k]].key = k /\ records[k] \in DOMAIN heap
    BY <1>2, <1>4 DEF StoredInv, Stored, TypeOK
  <2>3. /\ pc'[c] \in {"step", "answered"}
        /\ \A d \in Client \ {c} : pc'[d] = pc[d] /\ at'[d] = at[d]
    BY <1>1, <2>1, Moved
  <2>4. /\ data'[c] = <<records[k]>> /\ \A d \in Client \ {c} : data'[d] = data[d]
    BY <1>2, <2>1 DEF TypeOK
  <2>5. data'[c] # NoResponse /\ data'[c] # <<>>
    <3>1. <<records[k]>> \in Seq(Ref)
      BY <1>2, <2>2 DEF TypeOK
    <3>2. data'[c] # NoResponse
      BY <2>4, <3>1, NothingIsNone
    <3>3. Len(data'[c]) = 1
      BY <2>4
    <3> QED
      BY <3>2, <3>3
  <2>6. /\ Places(c)' = {1} /\ KeyAt(c, 1)' = k /\ MapAt(c, 1)' = heap[records[k]]
    BY <1>1, <2>2, <2>4, <2>5 DEF Places, KeyAt, MapAt
  <2>7. k \in Footprint(chain[c]) /\ ~ Complete(chain[c])
    BY <1>1, <2>2, FindTouches
  <2>8. k \notin suspect => Clean(k)
    <3>1. ~ ChangesKey(c, k)
      BY <1>3 DEF ChangesKey
    <3> QED
      BY <1>1, <2>2, <2>7, <3>1, CleanFor
  <2>9. \A i \in Places(c)' : ~ Changing(c, i)'
    BY <1>1, <1>2, <2>3, <2>6 DEF Changing, locals
  <2>10. KeysInv(c)'
    BY <1>1, <2>2, <2>6, <2>7 DEF KeysInv, request
  <2>11. CopyInv(c)'
    BY <1>1, <2>6, <2>8 DEF CopyInv, Clean, Same, MapOf, history
  <2>12. AbsentInv(c)'
    BY <2>5 DEF AbsentInv
  <2>13. CompleteInv(c)'
    BY <1>1, <2>7 DEF CompleteInv, request
  <2>14. OthersSame(c)
    BY <1>1, <2>3, <2>4 DEF OthersSame, request, locals
  <2> QED
    BY <1>1, <1>3, <2>3, <2>9, <2>10, <2>11, <2>12, <2>13, <2>14, ReadAgrees
    DEF store, request, locals, history
<1>5. CASE k \notin linked
  <2>1. /\ pc'[c] = "read" /\ \A d \in Client \ {c} : pc'[d] = pc[d]
        /\ UNCHANGED <<at, data>>
    BY <1>5, Went DEF GetByRef
  <2>2. \A i \in Places(c) : ~ Changing(c, i)'
    BY <2>1 DEF Changing
  <2>3. Exact(c)' => Exact(c)
    BY <1>1, <2>1 DEF Exact, NoCollect, Working, request
  <2>4. OthersSame(c)
    BY <1>1, <2>1 DEF OthersSame, request, locals
  <2> QED
    BY <1>1, <1>3, <2>1, <2>2, <2>3, <2>4, CalmAgrees DEF store, request, locals, history
<1> QED
  BY <1>4, <1>5

(* The first records of a response.                                        *)
LEMMA AllOfLastAgrees ==
  ASSUME MongoInv, AgreeInv, NEW c \in Client, AllOfLast(c) PROVE AgreeInv'
<1>1. /\ pc[c] = "step" /\ Running(c) /\ Now(c).op = "all" /\ data[c] # NoResponse
      /\ UNCHANGED <<db, store, heap, request, locals, history>>
  BY DEF AllOfLast, Running
<1>2. item[c] = 1
  BY <1>1 DEF MongoInv, PlaceInv
<1>3. \A i \in Places(c) : ~ Changing(c, i)
  BY <1>1, <1>2, AtRest
<1>4. CASE ~ Now(c).amount <= Len(data[c])
  <2>1. Fails(c) /\ UNCHANGED data
    BY <1>1, <1>4 DEF AllOfLast
  <2> QED
    BY <1>1, <1>3, <2>1, FailsAgrees
<1>5. CASE Now(c).amount <= Len(data[c])
  <2>1. /\ data'[c] # NoResponse /\ Len(data'[c]) \in 0..Len(data[c]) /\ Len(data[c]) \in Nat
        /\ \A d \in Client \ {c} : data'[d] = data[d]
        /\ \A i \in 1..Len(data'[c]) : data'[c][i] = data[c][i]
        /\ Now(c).amount < 0 => data'[c] = data[c]
        /\ ~ Now(c).amount < 0 => Len(data'[c]) = 1
    BY <1>1, <1>5, FirstOnes, Numbers
  <2>2. /\ pc'[c] \in {"step", "answered"}
        /\ \A d \in Client \ {c} : pc'[d] = pc[d] /\ at'[d] = at[d]
        /\ Sought(chain[c], at'[c]) \subseteq Sought(chain[c], at[c])
    BY <1>1, <1>5, Moved DEF AllOfLast
  <2>3. /\ Places(c)' \subseteq Places(c) /\ \A i \in Places(c)' : i \in Nat /\ i >= 1
        /\ \A i \in Places(c)' : KeyAt(c, i)' = KeyAt(c, i) /\ MapAt(c, i)' = MapAt(c, i)
    BY <1>1, <2>1 DEF Places, KeyAt, MapAt
  <2>4. /\ KeysInv(c) /\ CopyInv(c) /\ AbsentInv(c) /\ CompleteInv(c)
    BY DEF AgreeInv, ClientInv, ShapeInv
  <2>5. \A i \in Places(c)' : ~ Changing(c, i)'
    BY <1>1, <1>2, <2>2, <2>3 DEF Changing, locals
  <2>6. KeysInv(c)'
    <3>1. pc[c] # "idle" /\ chain'[c] = chain[c] /\ NoCollect(c)' = NoCollect(c)
      BY <1>1 DEF NoCollect, request
    <3> QED
      BY <2>3, <2>4, <3>1 DEF KeysInv
  <2>7. CopyInv(c)'
    <3>1. Exact(c)' => Exact(c)
      BY <1>1, <2>2 DEF Exact, NoCollect, Working, request
    <3> QED
      BY <1>1, <1>3, <2>3, <2>4, <3>1 DEF CopyInv, history
  <2>8. AbsentInv(c)'
    <3>1. Sought(chain[c], at[c])' = Sought(chain[c], at'[c])
      BY <1>1 DEF Sought, request
    <3>2. data'[c] = <<>> => data[c] = <<>>
      BY <2>1
    <3> QED
      BY <1>1, <2>2, <2>4, <3>1, <3>2 DEF AbsentInv, history
  <2>9. CompleteInv(c)'
    <3>1. Complete(chain[c]) => Now(c).amount < 0
      BY <1>1, StepNow DEF Complete, Now, Running
    <3>2. data'[c] = data[c] => Places(c)' = Places(c)
      BY DEF Places
    <3>3. InDb' = InDb /\ chain' = chain /\ suspect' = suspect
      BY <1>1 DEF InDb, request, history
    <3> QED
      BY <1>1, <2>1, <2>2, <2>3, <2>4, <3>1, <3>2, <3>3 DEF CompleteInv
  <2>10. OthersSame(c)
    BY <1>1, <2>1, <2>2 DEF OthersSame, request, locals
  <2> QED
    BY <1>1, <1>3, <2>2, <2>5, <2>6, <2>7, <2>8, <2>9, <2>10, ReadAgrees
    DEF store, request, locals, history
<1> QED
  BY <1>4, <1>5

-----------------------------------------------------------------------------
(* A step that leaves the maps and the records alone.                      *)
LEMMA StillAgrees ==
  ASSUME MongoInv, AgreeInv, NEW d \in Client, OthersSame(d), Running(d),
         UNCHANGED <<db, records, heap, chain, suspect, data>>,
         \A c \in Client \ {d} : amount'[c] = amount[c],
         \A i \in Places(d) : Changing(d, i)' <=> Changing(d, i),
         Exact(d)' => Exact(d), pc'[d] \notin {"idle", "step", "length", "select", "readAll"},
         pc'[d] \in {"marshal", "upsert"} => Now(d)'.op = "mutate",
         pc'[d] = "upsert" => sent'[d].key = KeyAt(d, item[d]) /\ item'[d] = item[d],
         ChangeInv(d)', InrecInv(d)'
  PROVE  AgreeInv'
<1>1. /\ Places(d)' = Places(d) /\ InDb' = InDb /\ NoCollect(d)' = NoCollect(d)
      /\ \A i : KeyAt(d, i)' = KeyAt(d, i) /\ MapAt(d, i)' = MapAt(d, i)
      /\ Stored' = Stored
  BY DEF Places, InDb, KeyAt, MapAt, NoCollect, Stored
<1>2. ShapeInv(d) /\ CopyInv(d) /\ CompleteInv(d)
  BY DEF AgreeInv, ClientInv
<1>3. ShapeInv(d)'
  <2>1. KeysInv(d)'
    BY <1>1, <1>2 DEF KeysInv, ShapeInv, Running
  <2>2. pc'[d] = "upsert" => KeyAt(d, item[d])' = KeyAt(d, item[d])
    BY DEF KeyAt
  <2> QED
    BY <1>1, <2>1, <2>2 DEF ShapeInv
<1>4. CopyInv(d)'
  BY <1>1, <1>2 DEF CopyInv
<1>5. AbsentInv(d)'
  BY DEF AbsentInv
<1>6. CompleteInv(d)'
  BY <1>1, <1>2 DEF CompleteInv, Running
<1>7. \A k : ChangesKey(d, k)' <=> ChangesKey(d, k)
  BY <1>1 DEF ChangesKey
<1>8. Undisturbed(d)
  BY DEF Undisturbed
<1>9. CleanKept(d)
  BY <1>1, <1>7 DEF CleanKept
<1>10. SuspectInv'
  BY <1>8, SuspectKept DEF Running
<1> QED
  BY <1>3, <1>4, <1>5, <1>6, <1>8, <1>9, <1>10, AgreeStep DEF ClientInv

(* The first lock section of Add.                                          *)
LEMMA LookAgrees ==
  ASSUME MongoInv, AgreeInv, NEW c \in Client, Look(c) PROVE AgreeInv'
<1> DEFINE k == heap[Current(c)].key
<1>1. /\ pc[c] = "look" /\ Running(c) /\ inrec' = [inrec EXCEPT ![c] = records[k]]
      /\ UNCHANGED <<db, store, heap, request, at, data, item, amount, sent, history>>
  BY DEF Look, Running
<1>2. /\ pc'[c] = IF k \in Stored THEN "merge" ELSE "insert"
      /\ \A d \in Client \ {c} : pc'[d] = pc[d]
  BY Went DEF Look
<1>3. /\ inrec'[c] = records[k] /\ \A d \in Client \ {c} : inrec'[d] = inrec[d]
  BY <1>1 DEF MongoInv, TypeOK
<1>4. k \in Record /\ item[c] \in Places(c) /\ KeyAt(c, item[c]) = k /\ data[c][item[c]] = Current(c)
  BY <1>1, CurrentRecord DEF Working, Places, KeyAt, Current
<1>5. Now(c)' = Now(c) /\ Places(c)' = Places(c)
  BY <1>1 DEF Now, Places, request
<1>6. \A i \in Places(c) : Changing(c, i)' <=> Changing(c, i)
  BY <1>1, <1>2, <1>5 DEF Changing
<1>7. Exact(c)' => Exact(c)
  BY <1>1, <1>2, <1>5 DEF Exact, NoCollect, Working, request
<1>8. OthersSame(c)
  BY <1>1, <1>2, <1>3 DEF OthersSame, request
<1>9. \A i : KeyAt(c, i)' = KeyAt(c, i) /\ MapAt(c, i)' = MapAt(c, i)
  BY <1>1 DEF KeyAt, MapAt
<1>10. InrecInv(c)'
  <2> SUFFICES ASSUME k \in Stored, Now(c).op # "mutate", k \notin suspect
               PROVE  Clean(k)
    BY <1>1, <1>2, <1>3, <1>4, <1>5, <1>9 DEF InrecInv, Clean, Same, history
  <2>1. ~ ChangesKey(c, k)
    BY <1>1, AtRest DEF ChangesKey, Working
  <2>2. k \in Footprint(chain[c])
    BY <1>4 DEF AgreeInv, ClientInv, ShapeInv, KeysInv
  <2> QED
    BY <1>1, <2>1, <2>2, CleanFor
<1>11. ChangeInv(c)'
  <2>1. ChangeInv(c)
    BY DEF AgreeInv, ClientInv
  <2>2. Stored' = Stored /\ \A j : Clean(j)' <=> Clean(j)
    BY <1>1 DEF Stored, Clean, Same, store
  <2>3. \A i \in Places(c) : i # item[c] /\ ~ Pending(c, i) /\ Matches(KeyAt(c, i), MapAt(c, i)) =>
          Matches(KeyAt(c, i), MapAt(c, i))'
    BY <1>1, <1>9, <2>2 DEF Matches, store
  <2>4. \A i : Pending(c, i)' <=> Pending(c, i)
    BY <1>1, <1>2 DEF Pending
  <2>5. \A i : ~ Pending(c, i) <=> i # item[c]
    BY <1>1 DEF Pending
  <2> QED
    BY <1>1, <1>2, <1>3, <1>4, <1>5, <1>6, <1>9, <2>1, <2>2, <2>3, <2>4, <2>5
    DEF ChangeInv, store, history
<1> QED
  BY <1>1, <1>2, <1>6, <1>7, <1>8, <1>10, <1>11, StillAgrees DEF store, request, history

(* A map is encoded.                                                       *)
LEMMA MarshalAgrees ==
  ASSUME MongoInv, AgreeInv, NEW c \in Client, Marshal(c) PROVE AgreeInv'
<1>1. /\ pc[c] = "marshal" /\ Running(c) /\ sent' = [sent EXCEPT ![c] = heap[Current(c)]]
      /\ UNCHANGED <<db, store, heap, request, at, data, item, inrec, amount, history>>
  BY DEF Marshal, Running
<1>2. /\ pc'[c] = "upsert" /\ \A d \in Client \ {c} : pc'[d] = pc[d]
  BY Went DEF Marshal
<1>3. /\ sent'[c] = MapAt(c, item[c]) /\ sent'[c].key = KeyAt(c, item[c])
      /\ \A d \in Client \ {c} : sent'[d] = sent[d]
  BY <1>1 DEF MongoInv, TypeOK, MapAt, KeyAt, Current
<1>4. Now(c)' = Now(c) /\ Now(c).op = "mutate" /\ Places(c)' = Places(c)
  BY <1>1 DEF Now, Places, request, AgreeInv, ClientInv, ShapeInv
<1>5. \A i \in Places(c) : Changing(c, i)' <=> Changing(c, i)
  BY <1>1, <1>2, <1>4 DEF Changing
<1>6. Exact(c)' => Exact(c)
  BY <1>1, <1>2, <1>4 DEF Exact, NoCollect, Working, request
<1>7. OthersSame(c)
  BY <1>1, <1>2, <1>3 DEF OthersSame, request
<1>8. \A i : KeyAt(c, i)' = KeyAt(c, i) /\ MapAt(c, i)' = MapAt(c, i)
  BY <1>1 DEF KeyAt, MapAt
<1>9. InrecInv(c)'
  BY <1>2 DEF InrecInv
<1>10. ChangeInv(c)'
  <2>1. ChangeInv(c)
    BY DEF AgreeInv, ClientInv
  <2>2. Stored' = Stored
    BY <1>1 DEF Stored, store
  <2>3. \A i \in Places(c) : Matches(KeyAt(c, i), MapAt(c, i)) =>
          Matches(KeyAt(c, i), MapAt(c, i))'
    BY <1>1, <1>8, <2>2 DEF Matches, store
  <2>4. \A i : ~ Pending(c, i)' /\ ~ Pending(c, i)
    BY <1>1, <1>2 DEF Pending
  <2> QED
    BY <1>1, <1>2, <1>3, <1>4, <1>5, <1>8, <2>1, <2>2, <2>3, <2>4
    DEF ChangeInv, history
<1> QED
  BY <1>1, <1>2, <1>3, <1>4, <1>5, <1>6, <1>7, <1>9, <1>10, StillAgrees DEF store, request, history

-----------------------------------------------------------------------------
(* A client asks, and its chain may meet others.                           *)
LEMMA StartAgrees ==
  ASSUME MongoInv, AgreeInv, NEW c \in Client, NEW steps \in Chains, Start(c, steps)
  PROVE  AgreeInv'
<1>1. /\ pc[c] = "idle" /\ ~ Running(c)
      /\ chain' = [chain EXCEPT ![c] = steps]
      /\ suspect' = suspect \cup
           UNION {Footprint(steps) \cap Footprint(chain[d]) : d \in
                    {e \in Client : Running(e) /\ (Writes(steps) \/ Writes(chain[e]))}}
      /\ UNCHANGED <<db, store, heap, at, data, locals>>
  BY DEF Start, Running
<1>2. /\ pc'[c] = "step" /\ \A d \in Client \ {c} : pc'[d] = pc[d]
      /\ chain'[c] = steps /\ \A d \in Client \ {c} : chain'[d] = chain[d]
  BY <1>1, Went DEF Start, MongoInv, TypeOK
<1>3. data[c] = NoResponse /\ Places(c)' = {} /\ Places(c) = {}
  BY <1>1 DEF MongoInv, PlaceInv, Places
<1>4. OthersSame(c)
  BY <1>1, <1>2 DEF OthersSame, locals
<1>5. suspect \subseteq suspect'
  BY <1>1
<1>6. Undisturbed(c)
  BY <1>1, <1>4, <1>5 DEF Undisturbed, store, locals
<1>7. CleanKept(c)
  <2>1. Stored' = Stored /\ \A k : ~ ChangesKey(c, k)
    BY <1>1, <1>3 DEF Stored, store, ChangesKey
  <2> QED
    BY <1>1, <2>1 DEF CleanKept, store
<1>8. SuspectInv'
  <2>1. ASSUME NEW d \in Client \ {c}, Running(d), Writes(steps) \/ Writes(chain[d])
        PROVE  Footprint(steps) \cap Footprint(chain[d]) \subseteq suspect'
    <3>1. d \in {e \in Client : Running(e) /\ (Writes(steps) \/ Writes(chain[e]))}
      BY <2>1
    <3>2. Footprint(steps) \cap Footprint(chain[d]) \in
            {Footprint(steps) \cap Footprint(chain[b]) : b \in
               {e \in Client : Running(e) /\ (Writes(steps) \/ Writes(chain[e]))}}
      BY <3>1
    <3> QED
      BY <1>1, <3>2
  <2> SUFFICES ASSUME NEW a \in Client, NEW b \in Client, a # b,
                      pc'[a] # "idle", pc'[b] # "idle", Writes(chain'[a])
               PROVE  Footprint(chain'[a]) \cap Footprint(chain'[b]) \subseteq suspect'
    BY DEF SuspectInv, Running
  <2>2. CASE a = c
    BY <1>2, <2>1, <2>2 DEF Running
  <2>3. CASE b = c
    BY <1>2, <2>1, <2>3 DEF Running
  <2>4. CASE a # c /\ b # c
    BY <1>2, <1>5, <2>4 DEF AgreeInv, SuspectInv, Running
  <2> QED
    BY <2>2, <2>3, <2>4
<1>9. ClientInv(c)'
  <2>1. ShapeInv(c)'
    BY <1>2, <1>3 DEF ShapeInv, KeysInv
  <2>2. CopyInv(c)' /\ ChangeInv(c)' /\ InrecInv(c)'
    BY <1>2, <1>3 DEF CopyInv, ChangeInv, InrecInv
  <2>3. data'[c] = NoResponse /\ NoResponse # <<>>
    <3>1. <<>> \in Seq(Ref)
      OBVIOUS
    <3> QED
      BY <1>1, <1>3, <3>1, NothingIsNone
  <2>4. AbsentInv(c)' /\ CompleteInv(c)'
    BY <1>2, <2>3 DEF AbsentInv, CompleteInv
  <2> QED
    BY <2>1, <2>2, <2>4 DEF ClientInv
<1> QED
  BY <1>6, <1>7, <1>8, <1>9, AgreeStep

(* The client is done with its answer.                                     *)
LEMMA ReturnAgrees ==
  ASSUME MongoInv, AgreeInv, NEW c \in Client, Return(c) PROVE AgreeInv'
<1>1. /\ pc[c] \in {"answered", "failed", "written"} /\ pc' = [pc EXCEPT ![c] = "idle"]
      /\ heap' = [r \in DOMAIN heap \cap Held(c) |-> heap[r]]
      /\ chain' = [chain EXCEPT ![c] = <<>>] /\ at' = [at EXCEPT ![c] = 1]
      /\ data' = [data EXCEPT ![c] = NoResponse]
      /\ item' = [item EXCEPT ![c] = 1] /\ inrec' = [inrec EXCEPT ![c] = NoMap]
      /\ amount' = [amount EXCEPT ![c] = 0] /\ sent' = [sent EXCEPT ![c] = NoMap]
      /\ UNCHANGED <<db, store, started, history>>
  BY DEF Return, Restricted, Goto
<1>2. /\ pc'[c] = "idle" /\ data'[c] = NoResponse
      /\ \A d \in Client \ {c} :
           /\ pc'[d] = pc[d] /\ chain'[d] = chain[d] /\ at'[d] = at[d] /\ data'[d] = data[d]
           /\ item'[d] = item[d] /\ inrec'[d] = inrec[d] /\ sent'[d] = sent[d]
           /\ amount'[d] = amount[d]
  BY <1>1 DEF MongoInv, TypeOK
<1>3. /\ \A k \in Stored : heap'[records[k]] = heap[records[k]]
      /\ \A d \in Client \ {c} : \A r \in Mine(d) : heap'[r] = heap[r]
  BY <1>1, HeldMaps DEF MongoInv
<1>4. Undisturbed(c)
  BY <1>1, <1>2, <1>3 DEF Undisturbed, OthersSame, store, history
<1>5. CleanKept(c)
  <2>1. Stored' = Stored /\ \A k : ~ ChangesKey(c, k)
    BY <1>1, AtRest DEF Stored, store, ChangesKey
  <2> QED
    BY <1>1, <1>3, <2>1 DEF CleanKept, store
<1>6. SuspectInv'
  BY <1>2, <1>4, SuspectKept
<1>7. ClientInv(c)'
  <2>1. Places(c)' = {}
    BY <1>2 DEF Places
  <2>2. ShapeInv(c)'
    BY <1>2, <2>1 DEF ShapeInv, KeysInv
  <2>3. CopyInv(c)' /\ ChangeInv(c)' /\ InrecInv(c)'
    BY <1>2, <2>1 DEF CopyInv, ChangeInv, InrecInv
  <2>4. AbsentInv(c)' /\ CompleteInv(c)'
    BY <1>2 DEF AbsentInv, CompleteInv, Running
  <2> QED
    BY <2>2, <2>3, <2>4 DEF ClientInv
<1> QED
  BY <1>4, <1>5, <1>6, <1>7, AgreeStep

(* A step of which the agreement is not.                                   *)
LEMMA NothingAgrees ==
  ASSUME AgreeInv,
         UNCHANGED <<db, records, heap, pc, chain, at, data, item, inrec, amount, sent, suspect>>
  PROVE  AgreeInv'
<1>1. /\ \A c \in Client : Places(c)' = Places(c) /\ Now(c)' = Now(c) /\ Running(c)' = Running(c)
      /\ Stored' = Stored /\ InDb' = InDb
  BY DEF Places, Now, Running, Stored, InDb
<1>2. /\ \A c \in Client : NoCollect(c)' = NoCollect(c) /\ Exact(c)' = Exact(c)
      /\ \A c \in Client : \A i : KeyAt(c, i)' = KeyAt(c, i) /\ MapAt(c, i)' = MapAt(c, i)
      /\ \A c \in Client : \A i : Changing(c, i)' = Changing(c, i) /\ Pending(c, i)' = Pending(c, i)
      /\ \A c \in Client : Sought(chain[c], at[c])' = Sought(chain[c], at[c])
  BY <1>1 DEF NoCollect, Exact, KeyAt, MapAt, Changing, Pending, Sought
<1>3. /\ \A k : Clean(k)' = Clean(k) /\ \A c \in Client : ChangesKey(c, k)' = ChangesKey(c, k)
      /\ \A k, m : Same(m, k)' = Same(m, k) /\ Matches(k, m)' = Matches(k, m)
  BY <1>1, <1>2 DEF Clean, Same, ChangesKey, Matches
<1>4. SuspectInv' /\ CleanInv'
  BY <1>1, <1>3 DEF AgreeInv, SuspectInv, CleanInv
<1>5. ASSUME NEW c \in Client PROVE ClientInv(c)'
  <2>1. ClientInv(c)
    BY DEF AgreeInv
  <2>2. ShapeInv(c)'
    BY <1>1, <1>2, <2>1 DEF ClientInv, ShapeInv, KeysInv
  <2>3. CopyInv(c)'
    BY <1>1, <1>2, <2>1 DEF ClientInv, CopyInv
  <2>4. ChangeInv(c)'
    BY <1>1, <1>2, <1>3, <2>1 DEF ClientInv, ChangeInv, Matches
  <2>5. InrecInv(c)'
    BY <1>1, <1>2, <2>1 DEF ClientInv, InrecInv, Same
  <2>6. AbsentInv(c)' /\ CompleteInv(c)'
    BY <1>1, <1>2, <2>1 DEF ClientInv, AbsentInv, CompleteInv
  <2> QED
    BY <2>2, <2>3, <2>4, <2>5, <2>6 DEF ClientInv
<1> QED
  BY <1>4, <1>5 DEF AgreeInv

(* The writer reports the changes.                                         *)
LEMMA WriterAgrees ==
  ASSUME MongoInv, AgreeInv, NEW c \in Client, TaintedRecords(c) \/ ClearTainted(c)
  PROVE  AgreeInv'
<1>1. /\ pc[c] \in {"answered", "failed", "clear"} /\ Running(c)
      /\ Goto(c, "clear") \/ Goto(c, "written")
      /\ UNCHANGED <<db, records, heap, request, at, data, locals, suspect>>
  BY DEF TaintedRecords, ClearTainted, Running, store
<1>2. /\ pc'[c] \in {"clear", "written"} /\ \A d \in Client \ {c} : pc'[d] = pc[d]
  BY <1>1, Went
<1>3. OthersSame(c)
  BY <1>1, <1>2 DEF OthersSame, request, locals
<1>4. \A i \in Places(c) : ~ Changing(c, i) /\ ~ Changing(c, i)'
  BY <1>1, <1>2 DEF Changing
<1>5. Exact(c)' => Exact(c)
  BY <1>1, <1>2 DEF Exact, NoCollect, Working, request
<1> QED
  BY <1>1, <1>2, <1>3, <1>4, <1>5, CalmAgrees DEF request, locals

-----------------------------------------------------------------------------
(* A response of new maps, that a step has read.                           *)
LEMMA RespondAgrees ==
  ASSUME MongoInv, AgreeInv, NEW d \in Client, Running(d), NEW maps \in Seq(Map),
         Respond(d, maps), inrec[d] = NoMap, \A i \in Places(d) : ~ Changing(d, i),
         UNCHANGED <<db, store, request, inrec, amount, sent, history>>,
         \A c \in Client \ {d} : pc'[c] = pc[c] /\ at'[c] = at[c] /\ item'[c] = item[c],
         \/ pc'[d] \in {"has", "step", "answered"}
         \/ pc'[d] = "look" /\ Now(d)'.op # "mutate",
         item'[d] = 1,
         \A i \in 1..Len(maps) : maps[i].key \in Record => maps[i].key \in Footprint(chain[d]),
         \A i, j \in 1..Len(maps) : i # j /\ maps[i].key \in Record => maps[j].key # maps[i].key,
         \A i, j \in 1..Len(maps) : maps[i].key \in Record => maps[j].key \in Record,
         chain[d][1].op = "find" => Len(maps) \in {0, 1},
         NoCollect(d) => \A i \in 1..Len(maps) : maps[i].key \in Record,
         \A i \in 1..Len(maps) : maps[i].key \in Record \ suspect =>
           /\ db[maps[i].key] # NoDoc /\ maps[i].val = db[maps[i].key].val
           /\ Exact(d)' => maps[i].rest = db[maps[i].key].rest,
         Len(maps) = 0 /\ pc'[d] = "step" =>
           \A k \in Sought(chain[d], at'[d]) : k \in suspect \/ db[k] = NoDoc,
         suspect = {} /\ Complete(chain[d]) => {maps[i].key : i \in 1..Len(maps)} = InDb
  PROVE  AgreeInv'
<1>1. /\ data'[d] # NoResponse /\ Len(data'[d]) = Len(maps) /\ Len(maps) \in Nat
      /\ \A i \in 1..Len(maps) : heap'[data'[d][i]] = maps[i]
      /\ \A c \in Client \ {d} : data'[c] = data[c]
      /\ \A k \in Stored : heap'[records[k]] = heap[records[k]]
      /\ \A c \in Client \ {d} : \A r \in Mine(c) : heap'[r] = heap[r]
  <2> HIDE DEF Map
  <2> QED
    BY Responded
<1>2. /\ Places(d)' = 1..Len(maps)
      /\ \A i \in 1..Len(maps) : MapAt(d, i)' = maps[i] /\ KeyAt(d, i)' = maps[i].key
  BY <1>1 DEF Places, MapAt, KeyAt
<1>3. /\ chain' = chain /\ NoCollect(d)' = NoCollect(d) /\ InDb' = InDb /\ records' = records
      /\ suspect' = suspect /\ db' = db
      /\ Sought(chain[d], at[d])' = Sought(chain[d], at'[d])
  BY DEF NoCollect, InDb, Sought, store, request, history
<1>4. \A i \in Places(d)' : ~ Changing(d, i)'
  BY <1>1, <1>2 DEF Changing
<1>5. KeysInv(d)'
  <2>1. /\ (\A i \in Places(d) : KeyAt(d, i) \in Record => KeyAt(d, i) \in Footprint(chain[d]))'
        /\ (\A i, j \in Places(d) : i # j /\ KeyAt(d, i) \in Record => KeyAt(d, j) # KeyAt(d, i))'
        /\ (\A i, j \in Places(d) : KeyAt(d, i) \in Record => KeyAt(d, j) \in Record)'
    BY <1>2, <1>3
  <2>2. (pc[d] # "idle" /\ chain[d][1].op = "find" => \A i \in Places(d) : i = 1)'
    BY <1>2, <1>3
  <2>3. (pc[d] # "idle" /\ NoCollect(d) => \A i \in Places(d) : KeyAt(d, i) \in Record)'
    BY <1>2, <1>3
  <2> QED
    BY <2>1, <2>2, <2>3 DEF KeysInv
<1>6. CopyInv(d)'
  BY <1>2, <1>3 DEF CopyInv
<1>7. AbsentInv(d)'
  <2>1. data'[d] = <<>> => Len(maps) = 0
    BY <1>1
  <2> QED
    BY <1>3, <2>1 DEF AbsentInv
<1>8. CompleteInv(d)'
  <2>1. {KeyAt(d, i)' : i \in Places(d)'} = {maps[i].key : i \in 1..Len(maps)}
    BY <1>2
  <2>2. pc'[d] \notin {"length", "select", "readAll"}
    OBVIOUS
  <2> QED
    BY <1>3, <2>1, <2>2 DEF CompleteInv
<1>9. OthersSame(d)
  BY <1>1, <1>3 DEF OthersSame
<1> QED
  BY <1>1, <1>3, <1>4, <1>5, <1>6, <1>7, <1>8, <1>9, ReadAgrees

(* Find of a record without: what it reads is the document, or none is.    *)
LEMMA ReadOneAgrees ==
  ASSUME MongoInv, AgreeInv, NEW c \in Client, ReadOne(c) PROVE AgreeInv'
<1> DEFINE k == Now(c).key
           one == <<MapOf(k, db[k])>>
<1>1. /\ pc[c] = "read" /\ Running(c) /\ item' = [item EXCEPT ![c] = 1]
      /\ UNCHANGED <<db, store, request, inrec, amount, sent, history>>
  BY DEF ReadOne, Running
<1>2. /\ inrec[c] = NoMap /\ Now(c).op = "find" /\ TypeOK
      /\ item'[c] = 1 /\ \A d \in Client \ {c} : item'[d] = item[d]
  <2>1. inrec[c] = NoMap /\ Now(c).op = "find" /\ TypeOK
    BY <1>1 DEF MongoInv, MapsInv, PlaceInv
  <2>2. item'[c] = 1 /\ \A d \in Client \ {c} : item'[d] = item[d]
    BY <1>1, <2>1 DEF TypeOK
  <2> QED
    BY <2>1, <2>2
<1>3. \A i \in Places(c) : ~ Changing(c, i)
  BY <1>1, AtRest
<1>4. k \in Record /\ k \in Footprint(chain[c]) /\ ~ Complete(chain[c])
  BY <1>1, <1>2, FindTouches, StepNow DEF Running
<1>5. CASE k \in InDb
  <2>1. MapOf(k, db[k]) \in Map /\ MapOf(k, db[k]).key = k
    BY <1>2, <1>5, FromDb
  <2>2. /\ Respond(c, one) /\ Goto(c, "has") /\ at' = at
    BY <1>5 DEF ReadOne
  <2>3. one \in Seq(Map) /\ Len(one) = 1 /\ one[1] = MapOf(k, db[k])
    <3> HIDE DEF Map
    <3> QED
      BY <2>1
  <2>4. /\ pc'[c] = "has" /\ \A d \in Client \ {c} : pc'[d] = pc[d]
    BY <2>2, Went
  <2>5. db[k] # NoDoc /\ one[1].val = db[k].val /\ one[1].rest = db[k].rest
    BY <1>5, <2>3 DEF InDb, MapOf
  <2> HIDE DEF one, Map
  <2>6. \A i \in 1..Len(one) : i = 1 /\ one[i] = one[1] /\ one[i].key = k
    BY <2>1, <2>3
  <2> HIDE DEF k
  <2>7. /\ \A i \in 1..Len(one) : one[i].key \in Record /\ one[i].key \in Footprint(chain[c])
        /\ \A i, j \in 1..Len(one) : i = j
        /\ Len(one) \in {0, 1} /\ Len(one) # 0
        /\ \A i \in 1..Len(one) : /\ db[one[i].key] # NoDoc
                                  /\ one[i].val = db[one[i].key].val
                                  /\ one[i].rest = db[one[i].key].rest
    BY <1>4, <2>3, <2>5, <2>6
  <2> QED
    BY <1>1, <1>2, <1>3, <1>4, <2>2, <2>3, <2>4, <2>7, RespondAgrees
<1>6. CASE k \notin InDb
  <2>1. Respond(c, <<>>) /\ Advance(c)
    BY <1>6 DEF ReadOne
  <2>2. /\ pc'[c] \in {"step", "answered"}
        /\ \A d \in Client \ {c} : pc'[d] = pc[d] /\ at'[d] = at[d]
        /\ pc'[c] = "step" => Sought(chain[c], at'[c]) \subseteq {k}
    BY <1>1, <1>2, <2>1, Moved
  <2>3. pc'[c] = "step" => \A w \in Sought(chain[c], at'[c]) : db[w] = NoDoc
    BY <1>4, <1>6, <2>2 DEF InDb
  <2> DEFINE none == <<>>
  <2>4. none \in Seq(Map) /\ Len(none) = 0 /\ Respond(c, none)
    BY <2>1
  <2> HIDE DEF Map, none, k
  <2>5. Len(none) \in {0, 1} /\ \A i \in 1..Len(none) : FALSE
    BY <2>4
  <2> QED
    BY <1>1, <1>2, <1>3, <1>4, <2>2, <2>3, <2>4, <2>5, RespondAgrees
<1> QED
  BY <1>5, <1>6

(* All reads copies of distinct records.                                   *)
LEMMA ManyAgree ==
  ASSUME MongoInv, AgreeInv, NEW c \in Client, Running(c), NEW keys \in SUBSET Record,
         NEW maps \in Seq(Map), Respond(c, maps), Len(maps) = Cardinality(keys),
         \A i \in 1..Len(maps) : maps[i].key = SetToSeq(keys)[i],
         \A i \in 1..Len(maps) : maps[i].key \notin suspect => Same(maps[i], maps[i].key),
         pc[c] \in {"select", "readAll"}, item'[c] = 1,
         UNCHANGED <<db, store, request, inrec, amount, sent, history>>,
         \A d \in Client \ {c} : pc'[d] = pc[d] /\ at'[d] = at[d] /\ item'[d] = item[d],
         \/ pc'[c] \in {"step", "answered"} /\ Sought(chain[c], at'[c]) \subseteq Sought(chain[c], at[c])
         \/ pc'[c] = "look" /\ at'[c] = at[c],
         suspect = {} /\ Complete(chain[c]) => keys = InDb
  PROVE  AgreeInv'
<1>1. inrec[c] = NoMap /\ at[c] = 1 /\ Now(c).op = "all" /\ chain' = chain
  BY DEF MongoInv, MapsInv, PlaceInv, request
<1>2. Footprint(chain[c]) = Record /\ chain[c][1].op # "find"
  BY <1>1 DEF Footprint, Now
<1>3. \A i \in Places(c) : ~ Changing(c, i)
  BY AtRest
<1>4. /\ \A i \in 1..Len(maps) : maps[i].key \in Record
      /\ \A i, j \in 1..Len(maps) : i # j => maps[j].key # maps[i].key
      /\ {maps[i].key : i \in 1..Len(maps)} = keys
  BY InOrder
<1>5. \A i \in 1..Len(maps) : maps[i].key \notin suspect =>
        /\ db[maps[i].key] # NoDoc /\ maps[i].val = db[maps[i].key].val
        /\ maps[i].rest = db[maps[i].key].rest
  BY DEF Same, MapOf
<1>6. pc'[c] = "look" => Now(c)'.op # "mutate"
  BY <1>1 DEF Now
<1>7. Sought(chain[c], at[c]) = {}
  BY <1>1, SoughtNext
<1> HIDE DEF Map
<1> QED
  BY <1>1, <1>2, <1>3, <1>4, <1>5, <1>6, <1>7, RespondAgrees

(* Of the store: each is its document, and none is missing if as many are. *)
LEMMA SelectAgrees ==
  ASSUME MongoInv, AgreeInv, NEW c \in Client, Select(c) PROVE AgreeInv'
<1>1. /\ pc[c] = "select" /\ Running(c) /\ Advance(c)
      /\ UNCHANGED <<db, store, request, locals, history>>
  BY DEF Select, Running
<1>2. PICK keys \in kSubset(amount[c], Stored) :
        Respond(c, [i \in 1..amount[c] |-> heap[records[SetToSeq(keys)[i]]]])
  BY DEF Select
<1> DEFINE maps == [i \in 1..amount[c] |-> heap[records[SetToSeq(keys)[i]]]]
<1>3. keys \subseteq Stored /\ keys \in SUBSET Record /\ Cardinality(keys) = amount[c]
  BY <1>2 DEF kSubset, Stored
<1>4. amount[c] \in Nat /\ \A i \in 1..amount[c] : SetToSeq(keys)[i] \in Stored
  BY <1>3, InOrder
<1>5. TypeOK /\ StoredInv /\ item[c] = 1 /\ at[c] = 1 /\ Now(c).op = "all"
  BY <1>1 DEF MongoInv, PlaceInv
<1>6. maps \in Seq(Map) /\ Len(maps) = amount[c]
  <2>1. \A i \in 1..amount[c] : maps[i] \in Map
    <3> HIDE DEF Map
    <3> QED
      BY <1>4, <1>5 DEF TypeOK, Stored
  <2> HIDE DEF Map
  <2> QED
    BY <1>4, <2>1, ListFor
<1>7. \A k \in Stored \ suspect : Clean(k)
  <2>1. Footprint(chain[c]) = Record
    BY <1>5 DEF Footprint, Now
  <2>2. \A k : ~ ChangesKey(c, k)
    BY <1>1, AtRest DEF ChangesKey
  <2> QED
    BY <1>1, <2>1, <2>2, CleanFor DEF Stored
<1>8. \A i \in 1..Len(maps) : maps[i].key = SetToSeq(keys)[i]
  BY <1>4, <1>5, <1>6 DEF StoredInv
<1>9. \A i \in 1..Len(maps) : maps[i].key \notin suspect => Same(maps[i], maps[i].key)
  BY <1>4, <1>6, <1>7, <1>8 DEF Clean
<1>10. suspect = {} /\ Complete(chain[c]) => keys = InDb
  <2> SUFFICES ASSUME suspect = {}, Complete(chain[c]) PROVE keys = InDb
    OBVIOUS
  <2>1. Cardinality(keys) = Cardinality(InDb)
    BY <1>1, <1>3 DEF AgreeInv, ClientInv, CompleteInv
  <2>2. keys \subseteq InDb
    BY <1>3, <1>7 DEF Clean, Same, InDb
  <2>3. IsFiniteSet(InDb)
    BY RecordsAreFinite, FS_Subset DEF InDb
  <2> QED
    BY <2>1, <2>2, <2>3, FS_Subset
<1>11. /\ pc'[c] \in {"step", "answered"}
       /\ \A d \in Client \ {c} : pc'[d] = pc[d] /\ at'[d] = at[d]
       /\ Sought(chain[c], at'[c]) \subseteq Sought(chain[c], at[c])
  BY <1>1, <1>5, Moved
<1>12. Respond(c, maps)
  BY <1>2
<1>13. item'[c] = 1 /\ \A d \in Client \ {c} : item'[d] = item[d]
  BY <1>1, <1>5 DEF locals
<1> HIDE DEF maps, Map
<1> QED
  BY <1>1, <1>3, <1>6, <1>8, <1>9, <1>10, <1>11, <1>12, <1>13, ManyAgree DEF locals

(* Of the database.                                                        *)
LEMMA ReadAllAgrees ==
  ASSUME MongoInv, AgreeInv, NEW c \in Client, ReadAll(c) PROVE AgreeInv'
<1> DEFINE n == IF amount[c] <= Cardinality(InDb) THEN amount[c] ELSE Cardinality(InDb)
<1>1. /\ pc[c] = "readAll" /\ Running(c) /\ item' = [item EXCEPT ![c] = 1]
      /\ IF n = 0 THEN Advance(c) ELSE Goto(c, "look") /\ UNCHANGED at
      /\ UNCHANGED <<db, store, request, inrec, amount, sent, history>>
  BY DEF ReadAll, Running
<1>2. PICK keys \in kSubset(n, InDb) :
        Respond(c, [i \in 1..n |-> MapOf(SetToSeq(keys)[i], db[SetToSeq(keys)[i]])])
  BY DEF ReadAll
<1>3. IsFiniteSet(InDb) /\ Cardinality(InDb) \in Nat /\ amount[c] \in Nat
  <2>1. IsFiniteSet(InDb)
    BY RecordsAreFinite, FS_Subset DEF InDb
  <2> QED
    BY <2>1, FS_CardinalityType DEF MongoInv, TypeOK
<1>4. suspect = {} /\ Complete(chain[c]) => n = Cardinality(InDb)
  BY <1>1, <1>3 DEF AgreeInv, ClientInv, CompleteInv
<1> HIDE DEF n
<1> DEFINE maps == [i \in 1..n |-> MapOf(SetToSeq(keys)[i], db[SetToSeq(keys)[i]])]
<1>5. keys \subseteq InDb /\ keys \in SUBSET Record /\ Cardinality(keys) = n
  BY <1>2 DEF kSubset, InDb
<1>6. n \in Nat /\ \A i \in 1..n : SetToSeq(keys)[i] \in InDb
  BY <1>5, InOrder
<1>7. TypeOK
  BY DEF MongoInv
<1>8. \A i \in 1..n : maps[i] \in Map /\ maps[i].key = SetToSeq(keys)[i]
  BY <1>6, <1>7, FromDb
<1>9. maps \in Seq(Map) /\ Len(maps) = n
  BY <1>6, <1>8, ListFor
<1>10. \A i \in 1..n : Same(maps[i], maps[i].key)
  BY <1>6, <1>8 DEF Same, InDb
<1>11. suspect = {} /\ Complete(chain[c]) => keys = InDb
  BY <1>3, <1>4, <1>5, FS_Subset
<1>12. Respond(c, maps)
  BY <1>2
<1>13. /\ \A d \in Client \ {c} : pc'[d] = pc[d] /\ at'[d] = at[d]
       /\ \/ pc'[c] \in {"step", "answered"} /\ Sought(chain[c], at'[c]) \subseteq Sought(chain[c], at[c])
          \/ pc'[c] = "look" /\ at'[c] = at[c]
  <2>1. Now(c).op = "all"
    BY <1>1 DEF MongoInv, PlaceInv
  <2> QED
    BY <1>1, <2>1, Moved, Went
<1>14. item'[c] = 1 /\ \A d \in Client \ {c} : item'[d] = item[d]
  BY <1>1, <1>7 DEF TypeOK
<1> HIDE DEF maps, Map
<1> QED
  BY <1>1, <1>5, <1>8, <1>9, <1>10, <1>11, <1>12, <1>13, <1>14, ManyAgree

(* Collect leaves out the rest of the properties, and perhaps the key.     *)
LEMMA CollectAgrees ==
  ASSUME MongoInv, AgreeInv, NEW c \in Client, Collect(c) PROVE AgreeInv'
<1>1. /\ pc[c] = "step" /\ Running(c) /\ Now(c).op = "collect"
      /\ UNCHANGED <<db, store, request, locals, history>>
  BY DEF Collect, Running
<1>2. inrec[c] = NoMap /\ item[c] = 1 /\ TypeOK
  BY <1>1 DEF MongoInv, MapsInv, PlaceInv
<1>3. \A i \in Places(c) : ~ Changing(c, i)
  BY <1>1, <1>2, AtRest
<1>4. CASE data[c] = NoResponse
  <2>1. Fails(c) /\ UNCHANGED <<heap, data>>
    BY <1>4 DEF Collect
  <2> QED
    BY <1>1, <1>3, <2>1, FailsAgrees
<1>5. CASE data[c] # NoResponse
  <2> DEFINE maps == [i \in DOMAIN data[c] |->
                        [heap[data[c][i]] EXCEPT !.rest = FALSE,
                           !.key = IF Now(c).key = NoRecord THEN NoRecord ELSE @]]
  <2>1. Respond(c, maps) /\ Advance(c)
    BY <1>5 DEF Collect
  <2>2. /\ Len(data[c]) \in Nat /\ DOMAIN data[c] = 1..Len(data[c]) /\ Places(c) = 1..Len(data[c])
        /\ \A i \in 1..Len(data[c]) : heap[data[c][i]] \in Map
    BY <1>2, <1>5, Facts DEF Places
  <2>3. \A i \in 1..Len(data[c]) :
          /\ maps[i] \in Map /\ maps[i].val = MapAt(c, i).val
          /\ maps[i].key = IF Now(c).key = NoRecord THEN NoRecord ELSE KeyAt(c, i)
    BY <2>2 DEF Map, MapAt, KeyAt
  <2>4. maps \in Seq(Map) /\ Len(maps) = Len(data[c])
    BY <2>2, <2>3, ListFor
  <2> HIDE DEF maps
  <2>5. /\ pc'[c] \in {"step", "answered"}
        /\ \A d \in Client \ {c} : pc'[d] = pc[d] /\ at'[d] = at[d]
        /\ Sought(chain[c], at'[c]) \subseteq Sought(chain[c], at[c])
    BY <1>1, <2>1, Moved
  <2>6. at[c] \in DOMAIN chain[c]
    BY <1>1, StepNow DEF Running
  <2>7. ~ NoCollect(c) /\ ~ Exact(c)'
    BY <1>1, <2>5, <2>6 DEF NoCollect, Exact, Now, Working, request
  <2>8. Complete(chain[c]) => Now(c).key # NoRecord
    BY <1>1, <2>6 DEF Complete, Now
  <2>9. KeysInv(c) /\ CopyInv(c) /\ AbsentInv(c) /\ CompleteInv(c)
    BY DEF AgreeInv, ClientInv, ShapeInv
  <2>10. /\ \A i \in 1..Len(maps) : maps[i].key \in Record => maps[i].key \in Footprint(chain[c])
         /\ \A i, j \in 1..Len(maps) : i # j /\ maps[i].key \in Record => maps[j].key # maps[i].key
         /\ \A i, j \in 1..Len(maps) : maps[i].key \in Record => maps[j].key \in Record
    BY <2>2, <2>3, <2>4, <2>9, NothingIsNone DEF KeysInv
  <2>11. chain[c][1].op = "find" => Len(maps) \in {0, 1}
    <3>1. chain[c][1].op = "find" => \A i \in 1..Len(maps) : i = 1
      BY <1>1, <2>2, <2>4, <2>9 DEF KeysInv, Running
    <3>2. Len(maps) # 0 => Len(maps) \in 1..Len(maps)
      BY <2>2, <2>4
    <3> QED
      BY <3>1, <3>2
  <2>12. \A i \in 1..Len(maps) : maps[i].key \in Record \ suspect =>
           db[maps[i].key] # NoDoc /\ maps[i].val = db[maps[i].key].val
    BY <1>3, <2>2, <2>3, <2>4, <2>9, NothingIsNone DEF CopyInv
  <2>13. Len(maps) = 0 => \A k \in Sought(chain[c], at'[c]) : k \in suspect \/ db[k] = NoDoc
    <3>1. Len(maps) = 0 => data[c] = <<>>
      BY <1>2, <1>5, <2>4, Facts, EmptySeq
    <3> QED
      BY <1>1, <2>5, <2>9, <3>1 DEF AbsentInv
  <2>14. suspect = {} /\ Complete(chain[c]) => {maps[i].key : i \in 1..Len(maps)} = InDb
    <3>1. Complete(chain[c]) => \A i \in 1..Len(maps) : maps[i].key = KeyAt(c, i)
      BY <2>3, <2>4, <2>8
    <3>2. suspect = {} /\ Complete(chain[c]) => {KeyAt(c, i) : i \in 1..Len(maps)} = InDb
      BY <1>1, <1>5, <2>2, <2>4, <2>9 DEF CompleteInv
    <3> QED
      BY <3>1, <3>2
  <2>15. UNCHANGED <<inrec, amount, sent, item>>
    BY <1>1 DEF locals
  <2> HIDE DEF Map
  <2> QED
    BY <1>1, <1>2, <1>3, <2>1, <2>4, <2>5, <2>7, <2>10, <2>11, <2>12, <2>13, <2>14, <2>15,
       RespondAgrees
<1> QED
  BY <1>4, <1>5

(* A Mutate may touch the record whose key it sets.                        *)
LEMMA MutateTouches ==
  ASSUME MongoInv, NEW c \in Client, Running(c), Now(c).op = "mutate", Now(c).key # NoRecord
  PROVE  /\ Now(c).key \in Footprint(chain[c]) /\ Now(c).key \in Record
         /\ ~ Complete(chain[c])
<1>1. at[c] \in DOMAIN chain[c] /\ Now(c).key \in Record
  BY StepNow DEF Running
<1>2. chain[c][at[c]].op = "mutate" /\ chain[c][at[c]].key = Now(c).key
  BY DEF Now
<1> QED
  BY <1>1, <1>2 DEF Footprint, Complete

(* The new record is in neither the store nor the database, or the store   *)
(* has one that was not looked for, and it is suspect.                     *)
LEMMA CreateAgrees ==
  ASSUME MongoInv, AgreeInv, NEW c \in Client, Create(c) PROVE AgreeInv'
<1> DEFINE one == <<Parameter(c)>>
           k == Now(c).key
<1>1. /\ pc[c] = "step" /\ Running(c) /\ Now(c).op = "mutate" /\ data[c] = <<>> /\ k # NoRecord
      /\ Respond(c, one) /\ sent' = [sent EXCEPT ![c] = Parameter(c)]
      /\ suspect' = suspect \cup (({k} \cap Stored) \ Sought(chain[c], at[c]))
      /\ UNCHANGED <<db, store, request, at, item, inrec, amount>>
  BY DEF Create, Running
<1>2. /\ pc'[c] = "upsert" /\ \A d \in Client \ {c} : pc'[d] = pc[d]
  BY Went DEF Create
<1>3. data[c] # NoResponse /\ Places(c) = {} /\ Len(data[c]) = 0
  <2>1. <<>> \in Seq(Ref)
    OBVIOUS
  <2>2. data[c] # NoResponse
    BY <1>1, <2>1, NothingIsNone
  <2> QED
    BY <1>1, <2>2 DEF Places
<1>4. inrec[c] = NoMap /\ item[c] = 1 /\ TypeOK
  BY <1>1, <1>3 DEF MongoInv, MapsInv, PlaceInv
<1>5. k \in Footprint(chain[c]) /\ k \in Record /\ ~ Complete(chain[c])
  BY <1>1, MutateTouches
<1>6. Parameter(c) \in Map /\ Parameter(c).key = k
  <2>1. version[c] \in Version
    BY <1>4 DEF TypeOK
  <2> QED
    BY <1>5, <2>1 DEF Parameter, Map
<1>7. one \in Seq(Map) /\ Len(one) = 1 /\ one[1] = Parameter(c)
  <2> HIDE DEF Map, Parameter
  <2> QED
    BY <1>6
<1> HIDE DEF one
<1>8. /\ data'[c] # NoResponse /\ Len(data'[c]) = 1 /\ heap'[data'[c][1]] = Parameter(c)
      /\ \A d \in Client \ {c} : data'[d] = data[d]
      /\ \A j \in Stored : heap'[records[j]] = heap[records[j]]
      /\ \A d \in Client \ {c} : \A r \in Mine(d) : heap'[r] = heap[r]
  <2>1. /\ data'[c] # NoResponse /\ Len(data'[c]) = Len(one)
        /\ \A i \in 1..Len(one) : heap'[data'[c][i]] = one[i]
        /\ \A d \in Client \ {c} : data'[d] = data[d]
        /\ \A j \in Stored : heap'[records[j]] = heap[records[j]]
        /\ \A d \in Client \ {c} : \A r \in Mine(d) : heap'[r] = heap[r]
    <3> HIDE DEF Map
    <3> QED
      BY <1>1, <1>4, <1>7, Responded
  <2> QED
    BY <1>7, <2>1
<1>9. /\ Places(c)' = {1} /\ KeyAt(c, 1)' = k /\ MapAt(c, 1)' = Parameter(c)
      /\ sent'[c] = Parameter(c) /\ \A d \in Client \ {c} : sent'[d] = sent[d]
      /\ Now(c)' = Now(c) /\ Stored' = Stored /\ item'[c] = 1
  <2>1. Places(c)' = {1}
    BY <1>8 DEF Places
  <2>2. KeyAt(c, 1)' = k /\ MapAt(c, 1)' = Parameter(c)
    BY <1>6, <1>8 DEF KeyAt, MapAt
  <2>3. sent'[c] = Parameter(c) /\ \A d \in Client \ {c} : sent'[d] = sent[d]
    <3> HIDE DEF Parameter
    <3> QED
      BY <1>1, <1>4 DEF TypeOK
  <2> QED
    BY <1>1, <1>4, <2>1, <2>2, <2>3 DEF Now, Stored, store, request
<1>10. Changing(c, 1)' /\ ~ Pending(c, 1)'
  BY <1>2, <1>9 DEF Changing, Pending
<1>11. Undisturbed(c)
  <2>1. suspect \subseteq suspect'
    BY <1>1
  <2> QED
    BY <1>1, <1>2, <1>8, <1>9, <2>1 DEF Undisturbed, OthersSame, store, request
<1>12. CleanKept(c)
  <2>1. \A j : ~ ChangesKey(c, j)
    BY <1>3 DEF ChangesKey
  <2> QED
    BY <1>1, <1>8, <1>9, <2>1 DEF CleanKept, store
<1>13. SuspectInv'
  BY <1>1, <1>11, SuspectKept DEF request, Running
<1>14. k \notin suspect' => k \notin Stored
  <2> SUFFICES ASSUME k \notin suspect', k \in Stored PROVE FALSE
    OBVIOUS
  <2>1. k \notin suspect /\ db[k] = NoDoc
    <3>1. k \notin suspect /\ k \in Sought(chain[c], at[c])
      BY <1>1
    <3> QED
      BY <1>1, <3>1 DEF AgreeInv, ClientInv, AbsentInv
  <2>2. Clean(k)
    <3>1. ~ ChangesKey(c, k)
      BY <1>3 DEF ChangesKey
    <3> QED
      BY <1>1, <1>5, <2>1, <3>1, CleanFor
  <2> QED
    BY <2>1, <2>2 DEF Clean, Same
<1>15. ClientInv(c)'
  <2> HIDE DEF k
  <2>1. ShapeInv(c)'
    <3>1. KeysInv(c)'
      BY <1>1, <1>5, <1>9 DEF KeysInv, request
    <3> QED
      BY <1>1, <1>6, <1>9, <3>1 DEF ShapeInv
  <2>2. CopyInv(c)'
    BY <1>9, <1>10 DEF CopyInv
  <2>3. ChangeInv(c)'
    <3>1. \A i \in Places(c)' : i = 1 /\ KeyAt(c, i)' = k /\ MapAt(c, i)' = sent'[c] /\ ~ Pending(c, i)'
      BY <1>9, <1>10
    <3>2. k \notin suspect' => k \notin Stored'
      BY <1>9, <1>14
    <3> QED
      BY <1>2, <1>9, <3>1, <3>2 DEF ChangeInv
  <2>4. InrecInv(c)' /\ AbsentInv(c)'
    BY <1>2 DEF InrecInv, AbsentInv
  <2>5. CompleteInv(c)'
    BY <1>1, <1>5 DEF CompleteInv, request
  <2> QED
    BY <2>1, <2>2, <2>3, <2>4, <2>5 DEF ClientInv
<1> QED
  BY <1>11, <1>12, <1>13, <1>15, AgreeStep

-----------------------------------------------------------------------------
(* When Add of a record has returned, as much is being changed as was.     *)
LEMMA AddedMoves ==
  ASSUME MongoInv, NEW c \in Client, pc[c] \in {"insert", "taint"}, Added(c),
         UNCHANGED <<chain, data>>
  PROVE  /\ \A d \in Client \ {c} : pc'[d] = pc[d] /\ at'[d] = at[d] /\ item'[d] = item[d]
         /\ \A i \in Places(c) : Changing(c, i)' <=> Changing(c, i)
         /\ Exact(c)' => Exact(c)
         /\ pc'[c] \in {"link", "look", "step", "answered", "marshal"}
         /\ pc'[c] = "marshal" => Now(c)'.op = "mutate"
         /\ Now(c).op = "mutate" => pc'[c] \in {"step", "marshal"}
<1>1. /\ data[c] # NoResponse /\ item[c] \in 1..Len(data[c]) /\ Len(data[c]) \in Nat
      /\ Places(c) = 1..Len(data[c]) /\ Running(c)
  BY CurrentRecord DEF Working, Places, Running
<1>2. /\ pc \in [Client -> Points] /\ at \in [Client -> Nat \ {0}] /\ item \in [Client -> Nat \ {0}]
  BY DEF MongoInv, TypeOK
<1>3. Now(c).op \in {"find", "all", "mutate"} /\ Places(c)' = Places(c) /\ NoCollect(c)' = NoCollect(c)
  <2>1. Now(c).op \in {"find", "all", "collect", "mutate"}
    BY <1>1, StepNow DEF Step, Running
  <2> QED
    BY <2>1 DEF MongoInv, PlaceInv, Working, Places, NoCollect
<1>4. CASE Now(c).op = "find"
  <2>1. Goto(c, "link") /\ UNCHANGED <<at, item>>
    BY <1>4 DEF Added
  <2>2. pc'[c] = "link" /\ \A d \in Client \ {c} : pc'[d] = pc[d]
    BY <2>1, Went
  <2>3. Now(c)' = Now(c)
    BY <2>1 DEF Now
  <2> QED
    BY <1>3, <1>4, <2>1, <2>2, <2>3 DEF Changing, Exact, Working
<1>5. CASE Now(c).op # "find" /\ item[c] < Len(data[c])
  <2>1. /\ item' = [item EXCEPT ![c] = @ + 1] /\ UNCHANGED at
        /\ Goto(c, IF Now(c).op = "all" THEN "look" ELSE "step")
    BY <1>1, <1>5 DEF Added
  <2>2. /\ pc'[c] = IF Now(c).op = "all" THEN "look" ELSE "step"
        /\ \A d \in Client \ {c} : pc'[d] = pc[d]
    BY <2>1, Went
  <2>3. item'[c] = item[c] + 1 /\ \A d \in Client \ {c} : item'[d] = item[d]
    BY <1>2, <2>1
  <2>4. Now(c)' = Now(c)
    BY <2>1 DEF Now
  <2>5. \A i \in Places(c) : i < item[c] + 1 <=> i <= item[c]
    BY <1>1
  <2>6. \A i \in Places(c) : Changing(c, i)' <=> Changing(c, i)
    BY <1>3, <1>5, <2>2, <2>3, <2>4, <2>5 DEF Changing
  <2> QED
    BY <1>3, <1>5, <2>1, <2>2, <2>3, <2>4, <2>6 DEF Exact, Working
<1>6. CASE Now(c).op = "all" /\ item[c] = Len(data[c])
  <2>1. item' = [item EXCEPT ![c] = 1] /\ Advance(c)
    BY <1>1, <1>6 DEF Added
  <2>2. pc'[c] \in {"step", "answered"} /\ \A d \in Client \ {c} : pc'[d] = pc[d] /\ at'[d] = at[d]
    BY <1>1, <2>1, Moved
  <2>3. item'[c] = 1 /\ \A d \in Client \ {c} : item'[d] = item[d]
    BY <1>2, <2>1
  <2>4. \A i \in Places(c) : ~ Changing(c, i)'
    BY <1>1, <2>2, <2>3 DEF Changing
  <2>5. \A i \in Places(c) : ~ Changing(c, i)
    BY <1>6 DEF Changing
  <2> QED
    BY <1>3, <1>6, <2>2, <2>3, <2>4, <2>5 DEF Exact, Working
<1>7. CASE Now(c).op = "mutate" /\ item[c] = Len(data[c])
  <2>1. item' = [item EXCEPT ![c] = 1] /\ Goto(c, "marshal") /\ UNCHANGED at
    BY <1>1, <1>7 DEF Added
  <2>2. pc'[c] = "marshal" /\ \A d \in Client \ {c} : pc'[d] = pc[d]
    BY <2>1, Went
  <2>3. item'[c] = 1 /\ \A d \in Client \ {c} : item'[d] = item[d]
    BY <1>2, <2>1
  <2>4. Now(c)' = Now(c)
    BY <2>1 DEF Now
  <2>5. \A i \in Places(c) : i >= 1 /\ i <= item[c]
    BY <1>1, <1>7
  <2>6. \A i \in Places(c) : Changing(c, i)' <=> Changing(c, i)
    BY <1>3, <1>7, <2>2, <2>3, <2>4, <2>5 DEF Changing
  <2> QED
    BY <1>3, <1>7, <2>1, <2>2, <2>3, <2>4, <2>6 DEF Exact, Working
<1> QED
  <2>1. ~ (item[c] < Len(data[c])) => item[c] = Len(data[c])
    BY <1>1
  <2> QED
    BY <1>3, <1>4, <1>5, <1>6, <1>7, <2>1

(* The map that Add stores is the document, or has what the changed one    *)
(* has.                                                                    *)
LEMMA AddedAgrees ==
  ASSUME MongoInv, AgreeInv, NEW c \in Client, pc[c] \in {"insert", "taint"}, Added(c),
         NEW r \in DOMAIN heap,
         records' = [records EXCEPT ![KeyAt(c, item[c])] = r],
         UNCHANGED <<db, heap, chain, data, amount, sent, suspect>>,
         \A d \in Client \ {c} : inrec'[d] = inrec[d],
         Now(c).op # "mutate" /\ KeyAt(c, item[c]) \notin suspect => Same(heap[r], KeyAt(c, item[c])),
         Now(c).op = "mutate" /\ KeyAt(c, item[c]) \notin suspect =>
           LET k == KeyAt(c, item[c])
               m == MapAt(c, item[c])
           IN  /\ heap[r].val = m.val
               /\ heap[r].rest = m.rest \/ (db[k] # NoDoc /\ m.rest # db[k].rest)
  PROVE  AgreeInv'
<1> DEFINE k == KeyAt(c, item[c])
<1>1. /\ k \in Record /\ item[c] \in Places(c) /\ Running(c) /\ TypeOK
      /\ data[c] # NoResponse /\ data[c] # <<>>
  <2>1. data[c] # <<>>
    BY CurrentRecord DEF Working
  <2> QED
    BY <2>1, CurrentRecord DEF KeyAt, Current, Places, Running, Working, MongoInv
<1>2. k \in Footprint(chain[c])
  BY <1>1 DEF AgreeInv, ClientInv, ShapeInv, KeysInv
<1>3. r # NoMap
  BY <1>1, NothingIsNone DEF TypeOK
<1>4. /\ records'[k] = r /\ \A j \in Record \ {k} : records'[j] = records[j]
      /\ Stored' = Stored \cup {k} /\ Stored \subseteq Record
  <2>1. records \in [Record -> Ref \cup {NoMap}]
    BY <1>1 DEF TypeOK
  <2>2. records'[k] = r /\ \A j \in Record \ {k} : records'[j] = records[j]
    BY <1>1, <2>1
  <2> QED
    BY <1>1, <1>3, <2>2 DEF Stored
<1>5. /\ \A d \in Client \ {c} : pc'[d] = pc[d] /\ at'[d] = at[d] /\ item'[d] = item[d]
      /\ \A i \in Places(c) : Changing(c, i)' <=> Changing(c, i)
      /\ Exact(c)' => Exact(c)
      /\ pc'[c] \in {"link", "look", "step", "answered", "marshal"}
      /\ pc'[c] = "marshal" => Now(c)'.op = "mutate"
      /\ Now(c).op = "mutate" => pc'[c] \in {"step", "marshal"}
  BY AddedMoves
<1>6. /\ Places(c)' = Places(c) /\ NoCollect(c)' = NoCollect(c) /\ InDb' = InDb
      /\ \A i : KeyAt(c, i)' = KeyAt(c, i) /\ MapAt(c, i)' = MapAt(c, i)
  BY DEF Places, NoCollect, InDb, KeyAt, MapAt
<1>7. \A j : ChangesKey(c, j)' <=> ChangesKey(c, j)
  BY <1>5, <1>6 DEF ChangesKey
<1>8. Now(c).op = "mutate" => ChangesKey(c, k)
  <2>1. item[c] \in Nat
    BY <1>1, Facts
  <2> QED
    BY <1>1, <2>1 DEF ChangesKey, Changing
<1>9. Undisturbed(c)
  BY <1>1, <1>2, <1>4, <1>5 DEF Undisturbed, OthersSame
<1>10. CleanKept(c)
  <2> SUFFICES ASSUME NEW j \in Stored' \ suspect, ~ ChangesKey(c, j)
               PROVE  \/ Clean(j)'
                      \/ /\ j \in Stored /\ ~ ChangesKey(c, j)
                         /\ db'[j] = db[j] /\ heap'[records'[j]] = heap[records[j]]
    BY <1>7 DEF CleanKept
  <2>1. CASE j = k
    <3>1. Now(c).op # "mutate"
      BY <1>8, <2>1
    <3>2. Same(heap[r], j)
      BY <2>1, <3>1
    <3> QED
      BY <1>4, <2>1, <3>2 DEF Clean, Same
  <2>2. CASE j # k
    BY <1>4, <2>2
  <2> QED
    BY <2>1, <2>2
<1>11. SuspectInv'
  BY <1>1, <1>9, SuspectKept DEF Running
<1>12. ClientInv(c)'
  <2>1. ShapeInv(c) /\ CopyInv(c) /\ ChangeInv(c) /\ CompleteInv(c)
    BY DEF AgreeInv, ClientInv
  <2>2. ShapeInv(c)'
    <3>1. KeysInv(c)'
      BY <1>1, <1>6, <2>1 DEF KeysInv, ShapeInv, Running
    <3> QED
      BY <1>5, <3>1 DEF ShapeInv
  <2>3. CopyInv(c)'
    BY <1>5, <1>6, <2>1 DEF CopyInv
  <2>4. ChangeInv(c)'
    <3> SUFFICES ASSUME NEW i \in Places(c), KeyAt(c, i) \in Record \ suspect, Changing(c, i),
                        pc'[c] \in {"step", "marshal"}
                 PROVE  Matches(KeyAt(c, i), MapAt(c, i))'
      <4>1. \A i \in Places(c) : Changing(c, i) => Now(c).op = "mutate"
        BY ChangerWrites
      <4> QED
        BY <1>5, <1>6, <4>1 DEF ChangeInv, Pending
    <3>1. Now(c).op = "mutate"
      BY ChangerWrites
    <3>2. CASE i = item[c]
      <4>1. heap'[records'[k]] = heap[r] /\ k \in Stored' /\ db'[k] = db[k]
        BY <1>4
      <4>2. KeyAt(c, i)' = k /\ MapAt(c, i)' = MapAt(c, item[c]) /\ k \notin suspect
        BY <1>6, <3>2
      <4> HIDE DEF k
      <4>3. /\ heap[r].val = MapAt(c, item[c]).val
            /\ heap[r].rest = MapAt(c, item[c]).rest \/ (db[k] # NoDoc /\ MapAt(c, item[c]).rest # db[k].rest)
        BY <3>1, <4>2 DEF k
      <4> QED
        BY <4>1, <4>2, <4>3 DEF Matches
    <3>3. CASE i # item[c]
      <4>1. KeyAt(c, i) # k
        BY <1>1, <2>1, <3>3 DEF ShapeInv, KeysInv
      <4>2. Matches(KeyAt(c, i), MapAt(c, i))
        BY <2>1, <3>3 DEF ChangeInv, Pending
      <4> QED
        BY <1>4, <1>6, <4>1, <4>2 DEF Matches
    <3> QED
      BY <3>2, <3>3
  <2>5. InrecInv(c)'
    BY <1>5 DEF InrecInv
  <2>6. AbsentInv(c)'
    BY <1>1 DEF AbsentInv
  <2>7. CompleteInv(c)'
    BY <1>1, <1>5, <1>6, <2>1 DEF CompleteInv
  <2> QED
    BY <2>2, <2>3, <2>4, <2>5, <2>6, <2>7 DEF ClientInv
<1> QED
  BY <1>9, <1>10, <1>11, <1>12, AgreeStep

(* Add of a record the store has not.                                      *)
LEMMA InsertAgrees ==
  ASSUME MongoInv, AgreeInv, NEW c \in Client, Insert(c) PROVE AgreeInv'
<1>1. /\ pc[c] = "insert" /\ Added(c)
      /\ records' = [records EXCEPT ![KeyAt(c, item[c])] = Current(c)]
      /\ UNCHANGED <<db, tainted, linked, heap, request, data, inrec, amount, sent, suspect>>
  BY DEF Insert, KeyAt, Current
<1>2. /\ Current(c) \in DOMAIN heap /\ heap[Current(c)] \in Map /\ heap[Current(c)].key \in Record
      /\ item[c] \in Places(c)
  BY <1>1, CurrentRecord DEF Working, Places
<1>3. MapAt(c, item[c]) = heap[Current(c)] /\ KeyAt(c, item[c]) = heap[Current(c)].key
  BY DEF MapAt, KeyAt, Current
<1>4. Now(c).op # "mutate" /\ KeyAt(c, item[c]) \notin suspect =>
        Same(heap[Current(c)], KeyAt(c, item[c]))
  <2> SUFFICES ASSUME Now(c).op # "mutate", KeyAt(c, item[c]) \notin suspect
               PROVE  Same(heap[Current(c)], KeyAt(c, item[c]))
    OBVIOUS
  <2>1. ~ Changing(c, item[c]) /\ Exact(c)
    BY <1>1 DEF Changing, Exact, Working
  <2>2. /\ db[KeyAt(c, item[c])] # NoDoc
        /\ heap[Current(c)].val = db[KeyAt(c, item[c])].val
        /\ heap[Current(c)].rest = db[KeyAt(c, item[c])].rest
    BY <1>2, <1>3, <2>1 DEF AgreeInv, ClientInv, CopyInv
  <2> QED
    BY <1>2, <1>3, <2>2 DEF Same, MapOf, Map
<1> QED
  BY <1>1, <1>2, <1>3, <1>4, AddedAgrees DEF request

(* Add of one it has.                                                      *)
LEMMA TaintAgrees ==
  ASSUME MongoInv, AgreeInv, NEW c \in Client, Taint(c) PROVE AgreeInv'
<1> DEFINE k == KeyAt(c, item[c])
           m == MapAt(c, item[c])
<1>1. /\ pc[c] = "taint" /\ Added(c)
      /\ records' = [records EXCEPT ![k] = inrec[c]] /\ inrec' = [inrec EXCEPT ![c] = NoMap]
      /\ UNCHANGED <<db, heap, request, data, amount, sent, suspect>>
  BY DEF Taint, KeyAt, Current, history
<1>2. inrec[c] \in DOMAIN heap /\ \A d \in Client \ {c} : inrec'[d] = inrec[d]
  BY <1>1 DEF MongoInv, MapsInv, TypeOK
<1>3. k \in Record /\ item[c] \in Places(c) /\ item[c] \in Nat
  BY <1>1, CurrentRecord DEF Working, Places, KeyAt, Current
<1>4. Now(c).op # "mutate" /\ k \notin suspect => Same(heap[inrec[c]], k)
  BY <1>1 DEF AgreeInv, ClientInv, InrecInv
<1>5. Now(c).op = "mutate" /\ k \notin suspect =>
        /\ heap[inrec[c]].val = m.val
        /\ heap[inrec[c]].rest = m.rest \/ (db[k] # NoDoc /\ m.rest # db[k].rest)
  <2> SUFFICES ASSUME Now(c).op = "mutate", k \notin suspect
               PROVE  /\ heap[inrec[c]].val = m.val
                      /\ heap[inrec[c]].rest = m.rest \/ (db[k] # NoDoc /\ m.rest # db[k].rest)
    OBVIOUS
  <2>1. Changing(c, item[c]) /\ ~ Pending(c, item[c])
    BY <1>1, <1>3 DEF Changing, Pending
  <2>2. records[k] = inrec[c] /\ Matches(k, m)
    BY <1>1, <1>3, <2>1 DEF AgreeInv, ClientInv, ChangeInv
  <2> QED
    BY <2>2 DEF Matches
<1> QED
  BY <1>1, <1>2, <1>4, <1>5, AddedAgrees DEF request

-----------------------------------------------------------------------------
(* The records of a client's maps are in its footprint.                    *)
LEMMA MineTouched ==
  ASSUME MongoInv, AgreeInv, NEW d \in Client, NEW r \in Mine(d), heap[r].key \in Record
  PROVE  Running(d) /\ heap[r].key \in Footprint(chain[d])
<1>1. PlaceInv(d) /\ MapsInv(d) /\ TypeOK /\ KeysInv(d)
  BY DEF MongoInv, AgreeInv, ClientInv, ShapeInv
<1>2. \A i \in Places(d) : Running(d) /\ (KeyAt(d, i) \in Record => KeyAt(d, i) \in Footprint(chain[d]))
  BY <1>1 DEF KeysInv, PlaceInv, Places, Running
<1>3. CASE data[d] # NoResponse /\ r \in Range(data[d])
  <2>1. Range(data[d]) = {data[d][i] : i \in 1..Len(data[d])}
    BY <1>1, <1>3, Facts
  <2>2. PICK i \in Places(d) : r = data[d][i]
    BY <1>3, <2>1 DEF Places
  <2> QED
    BY <1>2, <2>2 DEF KeyAt
<1>4. CASE r = inrec[d]
  <2>1. r # NoMap
    BY <1>1, NothingIsNone DEF Mine, TypeOK
  <2>2. pc[d] \in {"merge", "taint"} /\ heap[r].key = heap[Current(d)].key
    BY <1>1, <1>4, <2>1 DEF MapsInv
  <2>3. item[d] \in Places(d) /\ KeyAt(d, item[d]) = heap[r].key
    BY <2>2, CurrentRecord DEF Working, Places, KeyAt, Current
  <2> QED
    BY <1>2, <2>3
<1> QED
  BY <1>3, <1>4 DEF Mine

(* A write into one map, of a record the client may touch.                 *)
LEMMA OneWritten ==
  ASSUME MongoInv, AgreeInv, NEW c \in Client, OthersSame(c), Running(c),
         NEW r \in DOMAIN heap, NEW m \in Map, heap' = [heap EXCEPT ![r] = m],
         UNCHANGED <<db, records, suspect, amount>>,
         heap[r].key \in Record => m.key = heap[r].key,
         heap[r].key \in Record \ suspect =>
           m = heap[r] \/ (Writes(chain[c]) /\ heap[r].key \in Footprint(chain[c])),
         heap[r].key \notin Record => data[c] # NoResponse /\ r \in Range(data[c])
  PROVE  Undisturbed(c)
<1>1. TypeOK /\ StoredInv /\ ApartInv
  BY DEF MongoInv
<1>2. heap'[r] = m /\ \A x \in DOMAIN heap : x # r => heap'[x] = heap[x]
  BY <1>1, WriteTypes
<1>3. ASSUME NEW d \in Client \ {c}, NEW x \in Mine(d)
      PROVE  /\ heap'[x].key = heap[x].key
             /\ heap[x].key \in Record \ suspect => heap'[x] = heap[x]
  <2>1. CASE x # r
    BY <1>2, <2>1 DEF Mine
  <2>2. CASE x = r
    <3>1. heap[r].key \in Record
      <4> SUFFICES ASSUME heap[r].key \notin Record PROVE FALSE
        OBVIOUS
      <4>1. CASE data[d] # NoResponse /\ r \in Range(data[d])
        BY <1>1, <4>1 DEF ApartInv
      <4>2. CASE r = inrec[d]
        <5>1. pc[d] \in {"merge", "taint"} /\ heap[r].key = heap[Current(d)].key
          BY <1>1, <4>2, NothingIsNone DEF MongoInv, MapsInv, TypeOK
        <5> QED
          BY <5>1, CurrentRecord DEF Working
      <4> QED
        BY <2>2, <4>1, <4>2 DEF Mine
    <3>2. heap[r].key \in suspect \/ m = heap[r]
      BY <2>2, <3>1, Alone, MineTouched
    <3> QED
      BY <1>2, <2>2, <3>1, <3>2
  <2> QED
    BY <2>1, <2>2
<1>4. ASSUME NEW k \in Record \ suspect, k \in Stored
      PROVE  heap'[records[k]] = heap[records[k]] \/ k \in Footprint(chain[c])
  <2>1. records[k] \in DOMAIN heap /\ heap[records[k]].key = k
    BY <1>1, <1>4 DEF StoredInv, TypeOK, Stored
  <2> QED
    BY <1>2, <2>1
<1> QED
  BY <1>3, <1>4 DEF Undisturbed

(* Mutate's map is merged into the stored one, and what Find and All read  *)
(* makes no difference to it.                                              *)
LEMMA MergeAgrees ==
  ASSUME MongoInv, AgreeInv, NEW c \in Client, Merge(c) PROVE AgreeInv'
<1> DEFINE k == KeyAt(c, item[c])
           r == inrec[c]
           n == heap[Current(c)]
           m == MergeMaps(heap[r], n)
<1>1. /\ pc[c] = "merge" /\ Running(c) /\ heap' = [heap EXCEPT ![r] = m]
      /\ UNCHANGED <<db, store, request, at, data, locals, history>>
  BY DEF Merge, Running
<1>2. pc'[c] = "taint" /\ \A d \in Client \ {c} : pc'[d] = pc[d]
  BY Went DEF Merge
<1>3. /\ TypeOK /\ MapsInv(c) /\ StoredInv
      /\ KeysInv(c) /\ CopyInv(c) /\ ChangeInv(c) /\ InrecInv(c) /\ CompleteInv(c)
  BY DEF MongoInv, AgreeInv, ClientInv, ShapeInv
<1>4. /\ k \in Record /\ k = n.key /\ n \in Map /\ Current(c) \in DOMAIN heap
      /\ item[c] \in Places(c) /\ data[c][item[c]] = Current(c) /\ MapAt(c, item[c]) = n
  BY <1>1, CurrentRecord DEF Working, Places, KeyAt, MapAt, Current
<1>5. r \in DOMAIN heap /\ heap[r] \in Map /\ heap[r].key = k
  <2>1. r # NoMap /\ heap[r].key = k
    BY <1>1, <1>3, <1>4 DEF MapsInv
  <2> QED
    BY <1>3, <2>1, Facts
<1>6. m \in Map /\ m.key = k
  BY <1>4, <1>5, Merged, NothingIsNone
<1>7. m.val = n.val /\ m.rest = (heap[r].rest \/ n.rest)
  BY DEF MergeMaps
<1> HIDE DEF m
<1>8. heap'[r] = m /\ \A x \in DOMAIN heap : x # r => heap'[x] = heap[x]
  BY <1>1, <1>3, <1>5, <1>6, WriteTypes
<1>9. k \in Footprint(chain[c])
  BY <1>3, <1>4 DEF KeysInv
<1>10. OthersSame(c)
  BY <1>1, <1>2 DEF OthersSame, request, locals
<1>11. /\ Places(c)' = Places(c) /\ Now(c)' = Now(c) /\ InDb' = InDb /\ Stored' = Stored
       /\ NoCollect(c)' = NoCollect(c) /\ Exact(c)' = Exact(c)
  BY <1>1, <1>2 DEF Places, Now, InDb, Stored, NoCollect, Exact, Working, store, request
<1>12. \A i \in Places(c) : Changing(c, i)' <=> Changing(c, i)
  BY <1>1, <1>2, <1>11 DEF Changing, locals
<1>13. \A x \in DOMAIN heap : heap'[x].key = heap[x].key
  BY <1>5, <1>6, <1>8
<1>14. \A i \in Places(c) : data[c][i] \in DOMAIN heap /\ KeyAt(c, i)' = KeyAt(c, i)
  BY <1>1, <1>3, <1>13, Facts DEF Places, KeyAt
<1>15. Now(c).op = "mutate" => Changing(c, item[c]) /\ Writes(chain[c])
  <2>1. Now(c).op = "mutate" => Changing(c, item[c])
    <3>1. item[c] \in Nat
      BY <1>3, Facts
    <3> QED
      BY <1>1, <1>4, <3>1 DEF Changing
  <2> QED
    BY <2>1, ChangerWrites
<1> HIDE DEF k, n
<1>16. Now(c).op # "mutate" /\ k \notin suspect =>
         /\ Same(heap[r], k) /\ m = heap[r]
         /\ \A x \in DOMAIN heap : heap'[x] = heap[x]
  <2> SUFFICES ASSUME Now(c).op # "mutate", k \notin suspect
               PROVE  Same(heap[r], k) /\ m = heap[r] /\ \A x \in DOMAIN heap : heap'[x] = heap[x]
    OBVIOUS
  <2>1. Same(heap[r], k)
    BY <1>1, <1>3 DEF InrecInv, k
  <2>2. db[k] # NoDoc /\ n.val = db[k].val /\ n.rest = db[k].rest
    <3>1. ~ Changing(c, item[c]) /\ Exact(c)
      BY <1>1 DEF Changing, Exact, Working
    <3> QED
      BY <1>3, <1>4, <3>1 DEF CopyInv, k
  <2>3. heap[r].key = k /\ heap[r].val = db[k].val /\ heap[r].rest = db[k].rest
    BY <2>1 DEF Same, MapOf
  <2>4. m = heap[r]
    BY <1>5, <1>6, <1>7, <2>2, <2>3 DEF Map
  <2> QED
    BY <1>8, <2>1, <2>4
<1>17. Undisturbed(c)
  <2>1. heap[r].key \in Record \ suspect =>
          m = heap[r] \/ (Writes(chain[c]) /\ heap[r].key \in Footprint(chain[c]))
    BY <1>5, <1>9, <1>15, <1>16
  <2> QED
    BY <1>1, <1>4, <1>5, <1>6, <1>10, <2>1, OneWritten DEF store, locals, history
<1>18. \A j \in Stored : records[j] \in DOMAIN heap /\ heap[records[j]].key = j
  BY <1>3 DEF StoredInv, TypeOK, Stored
<1>19. CleanKept(c)
  <2> SUFFICES ASSUME NEW j \in Stored \ suspect, ~ ChangesKey(c, j)'
               PROVE  ~ ChangesKey(c, j) /\ heap'[records[j]] = heap[records[j]]
    BY <1>1, <1>11 DEF CleanKept, store, history
  <2>1. ~ ChangesKey(c, j)
    BY <1>11, <1>12, <1>14 DEF ChangesKey
  <2>2. j = k => Now(c).op # "mutate" /\ k \notin suspect
    BY <1>4, <1>15, <2>1 DEF ChangesKey, k
  <2>3. CASE j = k
    BY <1>16, <1>18, <2>1, <2>2, <2>3
  <2>4. CASE j # k
    BY <1>5, <1>8, <1>18, <2>1, <2>4
  <2> QED
    BY <2>3, <2>4
<1>20. SuspectInv'
  BY <1>1, <1>2, <1>17, SuspectKept DEF request, Running
<1>21. \A i \in Places(c) : i # item[c] =>
        /\ KeyAt(c, i) # k /\ data[c][i] # r /\ MapAt(c, i)' = MapAt(c, i)
  <2> SUFFICES ASSUME NEW i \in Places(c), i # item[c]
               PROVE  KeyAt(c, i) # k /\ data[c][i] # r /\ MapAt(c, i)' = MapAt(c, i)
    OBVIOUS
  <2>1. KeyAt(c, i) # k
    BY <1>3, <1>4 DEF KeysInv, k
  <2>2. data[c][i] # r
    BY <1>5, <2>1 DEF KeyAt
  <2> QED
    BY <1>1, <1>8, <1>14, <2>1, <2>2 DEF MapAt
<1>22. ShapeInv(c)'
  <2>1. KeysInv(c)'
    BY <1>1, <1>3, <1>11, <1>14 DEF KeysInv, request, Running
  <2> QED
    BY <1>2, <2>1 DEF ShapeInv
<1>23. CopyInv(c)'
  <2> SUFFICES ASSUME NEW i \in Places(c), KeyAt(c, i) \in Record \ suspect, ~ Changing(c, i)
               PROVE  /\ db[KeyAt(c, i)] # NoDoc
                      /\ MapAt(c, i)'.val = db[KeyAt(c, i)].val
                      /\ Exact(c) => MapAt(c, i)'.rest = db[KeyAt(c, i)].rest
    BY <1>1, <1>11, <1>12, <1>14 DEF CopyInv, history
  <2>1. i = item[c] => Now(c).op # "mutate" /\ k \notin suspect
    BY <1>15 DEF k
  <2>2. MapAt(c, i)' = MapAt(c, i)
    <3>1. CASE i = item[c]
      BY <1>1, <1>4, <1>16, <2>1, <3>1 DEF MapAt, locals
    <3>2. CASE i # item[c]
      BY <1>21, <3>2
    <3> QED
      BY <3>1, <3>2
  <2> QED
    BY <1>3, <2>2 DEF CopyInv
<1>24. ChangeInv(c)'
  <2> SUFFICES ASSUME NEW i \in Places(c), KeyAt(c, i) \in Record \ suspect, Changing(c, i)
               PROVE  /\ i = item[c] => KeyAt(c, i) \in Stored /\ records[KeyAt(c, i)] = inrec[c]
                      /\ Matches(KeyAt(c, i), MapAt(c, i))'
    BY <1>1, <1>2, <1>11, <1>12, <1>14 DEF ChangeInv, Pending, store, locals, history
  <2>1. CASE i = item[c]
    <3>1. k \in Record \ suspect /\ Pending(c, i) /\ Changing(c, i) /\ KeyAt(c, i) = k
      BY <1>1, <2>1 DEF Pending, k
    <3>2. k \in Stored /\ records[k] = r
      BY <1>1, <1>3, <2>1, <3>1 DEF ChangeInv
    <3>3. r = Current(c) \/ Clean(k)
      BY <1>3, <1>4, <2>1, <3>1, <3>2 DEF ChangeInv
    <3>4. heap'[records[k]] = m
      BY <1>8, <3>2
    <3>5. MapAt(c, i)' = IF r = Current(c) THEN m ELSE n
      BY <1>1, <1>4, <1>8, <2>1 DEF MapAt, n, locals
    <3>6. r # Current(c) => db[k] # NoDoc /\ heap[r].rest = db[k].rest
      BY <3>2, <3>3 DEF Clean, Same, MapOf
    <3>7. m.rest = n.rest \/ (m.rest = TRUE /\ n.rest = FALSE /\ heap[r].rest = TRUE)
      BY <1>4, <1>5, <1>7 DEF Map
    <3>8. Matches(k, MapAt(c, i))'
      <4>1. k' = k
        BY <1>1, <1>4, <1>14 DEF k, locals
      <4>2. CASE r = Current(c)
        BY <1>1, <1>11, <3>2, <3>4, <3>5, <4>1, <4>2 DEF Matches, store
      <4>3. CASE r # Current(c)
        <5>1. m.rest = n.rest \/ (db[k] # NoDoc /\ n.rest # db[k].rest)
          BY <3>6, <3>7, <4>3
        <5> QED
          BY <1>1, <1>7, <1>11, <3>2, <3>4, <3>5, <4>1, <4>3, <5>1 DEF Matches, store
      <4> QED
        BY <4>2, <4>3
    <3>9. KeyAt(c, i)' = KeyAt(c, i) /\ k' = k
      BY <1>1, <1>4, <1>14 DEF k, locals
    <3> QED
      BY <3>1, <3>2, <3>8, <3>9
  <2>2. CASE i # item[c]
    <3>1. Matches(KeyAt(c, i), MapAt(c, i))
      BY <1>1, <1>3, <2>2 DEF ChangeInv, Pending
    <3>2. KeyAt(c, i) # k /\ MapAt(c, i)' = MapAt(c, i) /\ KeyAt(c, i)' = KeyAt(c, i)
      BY <1>14, <1>21, <2>2
    <3>3. heap'[records[KeyAt(c, i)]] = heap[records[KeyAt(c, i)]]
      BY <1>5, <1>8, <1>18, <3>1, <3>2 DEF Matches
    <3> QED
      BY <1>1, <1>11, <2>2, <3>1, <3>2, <3>3 DEF Matches, store
  <2> QED
    BY <2>1, <2>2
<1>25. InrecInv(c)'
  <2>1. k' = k /\ inrec'[c] = r
    BY <1>1, <1>4, <1>14 DEF k, locals
  <2>2. Now(c).op # "mutate" /\ k \notin suspect => Same(heap[inrec[c]], k)'
    <3> SUFFICES ASSUME Now(c).op # "mutate", k \notin suspect PROVE Same(heap[inrec[c]], k)'
      OBVIOUS
    <3>1. heap'[inrec'[c]] = heap[r] /\ Same(heap[r], k)
      BY <1>5, <1>16, <2>1
    <3> QED
      BY <1>1, <2>1, <3>1 DEF Same, store
  <2> QED
    BY <1>1, <1>2, <1>11, <2>1, <2>2 DEF InrecInv, k, history
<1>26. AbsentInv(c)' /\ CompleteInv(c)'
  BY <1>1, <1>2, <1>3, <1>11, <1>14 DEF AbsentInv, CompleteInv, request, locals, history, Running
<1>27. ClientInv(c)'
  BY <1>22, <1>23, <1>24, <1>25, <1>26 DEF ClientInv
<1> QED
  BY <1>17, <1>19, <1>20, <1>27, AgreeStep

(* Mutate writes into a map of its response, which may be the stored one.  *)
LEMMA MergeParameterAgrees ==
  ASSUME MongoInv, AgreeInv, NEW c \in Client, MergeParameter(c), ~ rekeyed' PROVE AgreeInv'
<1> DEFINE r == Current(c)
           m == MergeMaps(heap[r], Parameter(c))
<1>1. /\ pc[c] = "step" /\ Now(c).op = "mutate" /\ data[c] # NoResponse /\ data[c] # <<>>
      /\ Running(c) /\ heap' = [heap EXCEPT ![r] = m] /\ heap'[r].key = heap[r].key
      /\ UNCHANGED <<db, store, request, data, locals, suspect>>
  BY DEF MergeParameter, Running
<1>2. /\ TypeOK /\ PlaceInv(c) /\ StoredInv
      /\ KeysInv(c) /\ CopyInv(c) /\ ChangeInv(c) /\ CompleteInv(c)
  BY DEF MongoInv, AgreeInv, ClientInv, ShapeInv
<1>3. /\ Len(data[c]) \in Nat /\ Places(c) = 1..Len(data[c])
      /\ \A i \in Places(c) : data[c][i] \in DOMAIN heap /\ heap[data[c][i]] \in Map
      /\ Range(data[c]) = {data[c][i] : i \in Places(c)} /\ data[c] \in Seq(DOMAIN heap)
  BY <1>1, <1>2, Facts DEF Places
<1>4. item[c] \in Places(c) /\ data[c][item[c]] = r /\ item[c] \in Nat
  <2>1. Len(data[c]) # 0
    BY <1>1, <1>3, EmptySeq
  <2> QED
    BY <1>1, <1>2, <1>3, <2>1 DEF PlaceInv, Current
<1>5. r \in DOMAIN heap /\ heap[r] \in Map /\ r \in Range(data[c]) /\ KeyAt(c, item[c]) = heap[r].key
  BY <1>3, <1>4 DEF KeyAt
<1>6. heap[r].key \in Record \cup {NoRecord} /\ Now(c).key \in Record \cup {NoRecord}
  BY <1>1, <1>5, StepNow DEF Map
<1>7. Parameter(c) \in Map /\ Parameter(c).key = Now(c).key
  <2>1. version[c] \in Version
    BY <1>2 DEF TypeOK
  <2> QED
    BY <1>6, <2>1 DEF Parameter, Map
<1>8. m \in Map /\ m.key = IF Now(c).key = NoRecord THEN heap[r].key ELSE Now(c).key
  BY <1>5, <1>7, Merged
<1> HIDE DEF m
<1>9. heap'[r] = m /\ \A x \in DOMAIN heap : x # r => heap'[x] = heap[x]
  BY <1>1, <1>2, <1>5, <1>8, WriteTypes
<1>10. m.key = heap[r].key
  BY <1>1, <1>9
<1>11. \A x \in DOMAIN heap : heap'[x].key = heap[x].key
  BY <1>9, <1>10
<1>12. \A i \in Places(c) : KeyAt(c, i)' = KeyAt(c, i)
  BY <1>1, <1>3, <1>11 DEF KeyAt
<1>13. \A i \in Places(c) : i # item[c] /\ KeyAt(c, i) \in Record =>
         data[c][i] # r /\ KeyAt(c, i) # heap[r].key /\ MapAt(c, i)' = MapAt(c, i)
  <2> SUFFICES ASSUME NEW i \in Places(c), i # item[c], KeyAt(c, i) \in Record
               PROVE  data[c][i] # r /\ KeyAt(c, i) # heap[r].key /\ MapAt(c, i)' = MapAt(c, i)
    OBVIOUS
  <2>1. KeyAt(c, i) # heap[r].key
    BY <1>2, <1>4, <1>5 DEF KeysInv
  <2>2. data[c][i] # r
    BY <2>1 DEF KeyAt
  <2> QED
    BY <1>1, <1>3, <1>9, <2>1, <2>2 DEF MapAt
<1>14. \A i \in Places(c) : i = item[c] => KeyAt(c, i)' = m.key /\ MapAt(c, i)' = m
  BY <1>1, <1>4, <1>9 DEF KeyAt, MapAt, locals
<1>15. /\ Places(c)' = Places(c) /\ InDb' = InDb /\ Stored' = Stored /\ NoCollect(c)' = NoCollect(c)
       /\ item'[c] = item[c]
  BY <1>1 DEF Places, InDb, Stored, NoCollect, store, request, locals
<1>16. Writes(chain[c])
  <2>1. at[c] \in DOMAIN chain[c]
    BY <1>1, StepNow
  <2> QED
    BY <1>1, <2>1 DEF Writes, Now
<1>17. /\ \A d \in Client \ {c} : pc'[d] = pc[d] /\ at'[d] = at[d]
       /\ IF m.key = NoRecord THEN pc'[c] = "failed" ELSE pc'[c] = "look" /\ Now(c)' = Now(c)
  <2>1. at' = at /\ Goto(c, IF m.key = NoRecord THEN "failed" ELSE "look")
    BY <1>9 DEF MergeParameter, Fails
  <2> QED
    BY <1>1, <2>1, Went DEF Now, request
<1>18. OthersSame(c)
  BY <1>1, <1>17 DEF OthersSame, request, locals
<1>19. Undisturbed(c)
  <2>1. heap[r].key \in Record => heap[r].key \in Footprint(chain[c])
    BY <1>2, <1>4, <1>5 DEF KeysInv
  <2> QED
    BY <1>1, <1>5, <1>8, <1>10, <1>16, <1>18, <2>1, OneWritten DEF store, locals
<1>20. SuspectInv'
  BY <1>1, <1>17, <1>19, SuspectKept DEF request, Running
<1>21. \A j \in Stored : records[j] \in DOMAIN heap /\ heap[records[j]].key = j /\ j \in Record
  BY <1>2 DEF StoredInv, TypeOK, Stored
<1> HIDE DEF r
<1>22. KeysInv(c)'
  BY <1>1, <1>2, <1>12, <1>15 DEF KeysInv, request, Running
<1>23. CompleteInv(c)'
  BY <1>1, <1>2, <1>12, <1>15, <1>17 DEF CompleteInv, request, locals, Running
<1>24. CASE m.key = NoRecord
  <2>1. /\ pc'[c] = "failed"
        /\ \A i \in Places(c) : KeyAt(c, i) \notin Record /\ KeyAt(c, i)' \notin Record /\ ~ Changing(c, i)'
    <3>1. heap[r].key \notin Record
      BY <1>10, <1>24, NothingIsNone
    <3>2. \A i \in Places(c) : KeyAt(c, i) \notin Record
      BY <1>2, <1>4, <1>5, <3>1 DEF KeysInv
    <3>3. \A i \in Places(c) : KeyAt(c, i)' \notin Record
      BY <1>12, <3>2
    <3> QED
      BY <1>17, <1>24, <3>2, <3>3 DEF Changing
  <2>2. CleanKept(c)
    <3> SUFFICES ASSUME NEW j \in Stored \ suspect
                 PROVE  ~ ChangesKey(c, j) /\ heap'[records[j]] = heap[records[j]]
      BY <1>1, <1>15 DEF CleanKept, store
    <3>1. ~ ChangesKey(c, j)
      BY <1>21, <2>1 DEF ChangesKey
    <3>2. heap[r].key \notin Record
      BY <1>4, <1>5, <2>1
    <3> QED
      BY <1>9, <1>21, <3>1, <3>2
  <2>3. ClientInv(c)'
    <3>1. ShapeInv(c)'
      BY <1>22, <2>1 DEF ShapeInv
    <3>2. CopyInv(c)' /\ ChangeInv(c)'
      BY <1>15, <2>1 DEF CopyInv, ChangeInv
    <3>3. InrecInv(c)' /\ AbsentInv(c)'
      BY <2>1 DEF InrecInv, AbsentInv
    <3> QED
      BY <1>23, <3>1, <3>2, <3>3 DEF ClientInv
  <2> QED
    BY <1>19, <1>20, <2>2, <2>3, AgreeStep
<1>25. CASE m.key # NoRecord
  <2>1. pc'[c] = "look" /\ Now(c)' = Now(c)
    BY <1>17, <1>25
  <2>2. /\ \A i \in Places(c) : Changing(c, i) <=> i < item[c]
        /\ \A i \in Places(c) : Changing(c, i)' <=> i <= item[c]
        /\ \A i \in Places(c) : Changing(c, i)' <=> Changing(c, i) \/ i = item[c]
    <3>1. \A i \in Places(c) : i <= item[c] <=> i < item[c] \/ i = item[c]
      BY <1>3, <1>4
    <3> QED
      BY <1>1, <1>15, <2>1, <3>1 DEF Changing
  <2>3. m.key \in Record /\ m.key \in Footprint(chain[c])
    <3>1. m.key \in Record
      BY <1>6, <1>8, <1>25
    <3> QED
      BY <1>2, <1>4, <1>5, <1>10, <3>1 DEF KeysInv
  <2>4. \A i \in Places(c) : Changing(c, i) => i # item[c] /\ KeyAt(c, i)' = KeyAt(c, i)
    <3>1. \A i \in Places(c) : Changing(c, i) => i # item[c]
      BY <1>4, <2>2
    <3> QED
      BY <1>12, <3>1
  <2>5. CleanKept(c)
    <3> SUFFICES ASSUME NEW j \in Stored \ suspect, ~ ChangesKey(c, j)'
                 PROVE  ~ ChangesKey(c, j) /\ heap'[records[j]] = heap[records[j]]
      BY <1>1, <1>15 DEF CleanKept, store
    <3>1. ~ ChangesKey(c, j)
      BY <1>15, <2>2, <2>4 DEF ChangesKey
    <3>2. m.key # j
      <4>1. \E i \in Places(c) : Changing(c, i)' /\ KeyAt(c, i)' = m.key
        BY <1>4, <1>14, <2>2
      <4> QED
        BY <1>4, <1>15, <4>1 DEF ChangesKey
    <3>3. records[j] # r
      BY <1>10, <1>21, <3>2
    <3> QED
      BY <1>9, <1>21, <3>1, <3>3
  <2>6. CopyInv(c)'
    <3>1. Exact(c)' => Exact(c)
      BY <1>1, <1>15, <2>1 DEF Exact
    <3> SUFFICES ASSUME NEW i \in Places(c), KeyAt(c, i)' \in Record \ suspect, ~ Changing(c, i)'
                 PROVE  /\ KeyAt(c, i)' = KeyAt(c, i) /\ MapAt(c, i)' = MapAt(c, i)
                        /\ ~ Changing(c, i)
      BY <1>1, <1>2, <1>15, <3>1 DEF CopyInv
    <3>2. i # item[c] /\ ~ Changing(c, i)
      BY <2>2
    <3> QED
      BY <1>12, <1>13, <3>2
  <2>7. \A i \in Places(c) : Pending(c, i)' <=> i = item[c]
    BY <1>15, <2>1 DEF Pending
  <2>8. ChangeInv(c)'
    <3>1. ASSUME NEW i \in Places(c), KeyAt(c, i)' \in Record \ suspect, Changing(c, i)', i # item[c]
          PROVE  Matches(KeyAt(c, i), MapAt(c, i))'
      <4>1. KeyAt(c, i)' = KeyAt(c, i) /\ MapAt(c, i)' = MapAt(c, i) /\ KeyAt(c, i) # heap[r].key
        BY <1>12, <1>13, <3>1
      <4>2. Matches(KeyAt(c, i), MapAt(c, i))
        <5>1. Changing(c, i) /\ ~ Pending(c, i)
          BY <1>1, <2>2, <3>1 DEF Pending
        <5> QED
          BY <1>1, <1>2, <3>1, <4>1, <5>1 DEF ChangeInv
      <4>3. heap'[records[KeyAt(c, i)]] = heap[records[KeyAt(c, i)]]
        BY <1>9, <1>21, <4>1, <4>2 DEF Matches
      <4> QED
        BY <1>1, <1>15, <4>1, <4>2, <4>3 DEF Matches, store
    <3>2. m.key \in Stored \ suspect => 
            records[m.key] = r \/ (heap'[records[m.key]] = heap[records[m.key]] /\ Clean(m.key))
      <4> SUFFICES ASSUME m.key \in Stored \ suspect, records[m.key] # r
                   PROVE  heap'[records[m.key]] = heap[records[m.key]] /\ Clean(m.key)
        OBVIOUS
      <4>1. heap'[records[m.key]] = heap[records[m.key]]
        BY <1>9, <1>21
      <4>2. \A i \in Places(c) : i # item[c] => KeyAt(c, i) # m.key
        BY <1>10, <1>13, <2>3
      <4>3. ~ ChangesKey(c, m.key)
        BY <2>4, <4>2 DEF ChangesKey
      <4> QED
        BY <1>1, <2>3, <4>1, <4>3, CleanFor
    <3>3. m.key \in Stored \ suspect => records[m.key] = r \/ Same(heap'[records[m.key]], m.key)
      BY <3>2 DEF Clean
    <3>4. ASSUME NEW i \in Places(c), i = item[c], KeyAt(c, i)' \in Stored \ suspect
          PROVE  records'[KeyAt(c, i)'] = r \/ Clean(KeyAt(c, i))'
      <4>1. KeyAt(c, i)' = m.key /\ records' = records /\ db' = db
        BY <1>1, <1>14, <3>4 DEF store
      <4>2. records[m.key] = r \/ Same(heap'[records[m.key]], m.key)
        BY <3>3, <3>4, <4>1
      <4> QED
        BY <4>1, <4>2 DEF Clean, Same
    <3>5. data'[c][item[c]] = r
      BY <1>1, <1>4
    <3>6. \A i \in Places(c) : KeyAt(c, i)' \in Record \ suspect' /\ Changing(c, i)' =>
               LET k == KeyAt(c, i)' IN
               /\ i = item[c] /\ k \in Stored' => records'[k] = data'[c][i] \/ Clean(KeyAt(c, i))'
               /\ i # item[c] => Matches(KeyAt(c, i), MapAt(c, i))'
      BY <1>1, <1>14, <1>15, <3>1, <3>4, <3>5
    <3> QED
      BY <1>15, <2>1, <2>7, <3>6 DEF ChangeInv
  <2>9. ClientInv(c)'
    <3>1. ShapeInv(c)'
      BY <1>22, <2>1 DEF ShapeInv
    <3>2. InrecInv(c)' /\ AbsentInv(c)'
      BY <2>1 DEF InrecInv, AbsentInv
    <3> QED
      BY <1>23, <2>6, <2>8, <3>1, <3>2 DEF ClientInv
  <2> QED
    BY <1>19, <1>20, <2>5, <2>9, AgreeStep
<1> QED
  BY <1>24, <1>25

-----------------------------------------------------------------------------
(* The document is written: it is as the map and the stored map are, or    *)
(* had more than the map and makes the record suspect.                     *)
LEMMA UpsertAgrees ==
  ASSUME MongoInv, AgreeInv, NEW c \in Client, Upsert(c) PROVE AgreeInv'
<1> DEFINE k == KeyAt(c, item[c])
           n == MapAt(c, item[c])
<1>1. /\ pc[c] = "upsert" /\ Running(c)
      /\ db' = [db EXCEPT ![sent[c].key] = DocOf(sent[c])]
      /\ suspect' = IF db[sent[c].key] # NoDoc /\ db[sent[c].key].rest # sent[c].rest
                    THEN suspect \cup {sent[c].key} ELSE suspect
      /\ sent' = [sent EXCEPT ![c] = NoMap]
      /\ UNCHANGED <<store, heap, request, data, inrec, amount>>
  BY DEF Upsert, Running
<1>2. /\ TypeOK /\ PlaceInv(c) /\ StoredInv /\ ShapeInv(c)
      /\ KeysInv(c) /\ CopyInv(c) /\ ChangeInv(c) /\ CompleteInv(c)
  BY DEF MongoInv, AgreeInv, ClientInv, ShapeInv
<1>3. /\ item[c] \in Places(c) /\ Places(c) = 1..Len(data[c]) /\ Len(data[c]) \in Nat
      /\ item[c] \in Nat /\ data[c] # NoResponse /\ data[c] # <<>>
  <2>1. item[c] \in 1..Len(data[c]) /\ Len(data[c]) \in Nat /\ data[c] # NoResponse
    BY <1>1, CurrentRecord
  <2> QED
    BY <2>1 DEF Places
<1>4. sent[c].key = k /\ k \in Record /\ Now(c).op = "mutate"
  BY <1>1, <1>2, Written DEF ShapeInv
<1>5. Changing(c, item[c]) /\ Writes(chain[c]) /\ k \in Footprint(chain[c])
  <2>1. Changing(c, item[c])
    BY <1>1, <1>3 DEF Changing
  <2> QED
    BY <1>2, <1>3, <1>4, <2>1, ChangerWrites DEF KeysInv
<1>6. /\ db'[k] = DocOf(sent[c]) /\ db'[k] # NoDoc
      /\ \A j \in Record \ {k} : db'[j] = db[j]
  <2>1. db \in [Record -> Doc \cup {NoDoc}]
    BY <1>2 DEF TypeOK
  <2>2. db'[k] = DocOf(sent[c]) /\ \A j \in Record \ {k} : db'[j] = db[j]
    <3> HIDE DEF k, Doc
    <3> QED
      BY <1>1, <1>4, <2>1
  <2>3. DocOf(sent[c]) \in Doc
    BY <1>1 DEF MongoInv, MapsInv, DocOf, Map, Doc
  <2> QED
    BY <2>2, <2>3, NothingIsNone
<1>7. suspect \subseteq suspect' /\ suspect' \subseteq suspect \cup {k}
  BY <1>1, <1>4
<1>8. k \notin suspect => sent[c] = n /\ (Matches(k, n) \/ k \notin Stored)
  <2>1. ~ Pending(c, item[c])
    BY <1>1 DEF Pending
  <2> QED
    BY <1>1, <1>2, <1>3, <1>4, <1>5, <2>1 DEF ChangeInv
<1>9. /\ \A d \in Client \ {c} : pc'[d] = pc[d] /\ at'[d] = at[d] /\ item'[d] = item[d]
      /\ \A i \in Places(c) : Changing(c, i)' <=> Changing(c, i) /\ i # item[c]
      /\ pc'[c] \in {"marshal", "step", "answered"}
      /\ pc'[c] = "marshal" => Now(c)' = Now(c)
      /\ (\E i \in Places(c) : Changing(c, i)') => pc'[c] = "marshal"
  <2>1. item \in [Client -> Nat \ {0}] /\ Places(c)' = Places(c)
    BY <1>1, <1>2 DEF TypeOK, Places
  <2>2. \A i \in Places(c) : Changing(c, i) <=> i >= item[c]
    BY <1>1 DEF Changing
  <2>3. CASE item[c] < Len(data[c])
    <3>1. Goto(c, "marshal") /\ item' = [item EXCEPT ![c] = @ + 1] /\ at' = at
      BY <2>3 DEF Upsert
    <3>2. pc'[c] = "marshal" /\ \A d \in Client \ {c} : pc'[d] = pc[d]
      BY <3>1, Went
    <3>3. item'[c] = item[c] + 1 /\ \A d \in Client \ {c} : item'[d] = item[d]
      BY <2>1, <3>1
    <3>4. Now(c)' = Now(c)
      BY <1>1, <3>1 DEF Now, request
    <3>5. \A i \in Places(c) : i >= item[c] + 1 <=> i >= item[c] /\ i # item[c]
      BY <1>3
    <3>6. \A i \in Places(c) : Changing(c, i)' <=> i >= item[c] + 1
      BY <2>1, <3>2, <3>3 DEF Changing
    <3> QED
      BY <2>2, <3>1, <3>2, <3>3, <3>4, <3>5, <3>6
  <2>4. CASE ~ item[c] < Len(data[c])
    <3>1. Advance(c) /\ item' = [item EXCEPT ![c] = 1]
      BY <2>4 DEF Upsert
    <3>2. pc'[c] \in {"step", "answered"} /\ \A d \in Client \ {c} : pc'[d] = pc[d] /\ at'[d] = at[d]
      BY <1>1, <3>1, Moved
    <3>3. item'[c] = 1 /\ \A d \in Client \ {c} : item'[d] = item[d]
      BY <2>1, <3>1
    <3>4. \A i \in Places(c) : ~ (i < 1) /\ (i >= item[c] <=> i = item[c])
      BY <1>3, <2>4
    <3>5. \A i \in Places(c) : ~ Changing(c, i)'
      BY <3>2, <3>3, <3>4 DEF Changing
    <3> QED
      BY <2>2, <3>2, <3>3, <3>4, <3>5
  <2> QED
    BY <2>3, <2>4
<1>10. /\ Places(c)' = Places(c) /\ Stored' = Stored /\ NoCollect(c)' = NoCollect(c)
       /\ \A i : KeyAt(c, i)' = KeyAt(c, i) /\ MapAt(c, i)' = MapAt(c, i)
  BY <1>1 DEF Places, Stored, NoCollect, KeyAt, MapAt, store, request
<1>11. OthersSame(c)
  <2>1. \A d \in Client \ {c} : sent'[d] = sent[d]
    BY <1>1, <1>2 DEF TypeOK
  <2> QED
    BY <1>1, <1>9, <2>1 DEF OthersSame, request
<1>12. \A i \in Places(c) : i # item[c] => KeyAt(c, i) # k
  BY <1>2, <1>3, <1>4 DEF KeysInv
<1> HIDE DEF k, n
<1>13. Undisturbed(c)
  BY <1>1, <1>5, <1>6, <1>7, <1>11 DEF Undisturbed, store
<1>14. SuspectInv'
  BY <1>1, <1>9, <1>13, SuspectKept DEF request, Running
<1>15. \A j \in Stored : heap[records[j]] \in Map /\ heap[records[j]].key = j /\ j \in Record
  BY <1>2 DEF StoredInv, TypeOK, Stored
<1>16. CleanKept(c)
  <2> SUFFICES ASSUME NEW j \in Stored \ suspect', ~ ChangesKey(c, j)'
               PROVE  \/ Same(heap[records[j]], j)'
                      \/ ~ ChangesKey(c, j) /\ db'[j] = db[j]
    BY <1>1, <1>10 DEF CleanKept, Clean, store
  <2>1. CASE j = k
    <3>1. k \notin suspect /\ sent[c] = n /\ Matches(k, n)
      BY <1>7, <1>8, <2>1
    <3>2. db[k] = NoDoc \/ db[k].rest = n.rest
      BY <1>1, <1>4, <2>1, <3>1
    <3>3. heap[records[k]].val = n.val /\ heap[records[k]].rest = n.rest
      BY <3>1, <3>2 DEF Matches
    <3>4. heap[records[k]] = MapOf(k, db'[k])
      BY <1>6, <1>15, <2>1, <3>1, <3>3 DEF MapOf, DocOf, Map
    <3> QED
      BY <1>1, <1>6, <2>1, <3>4 DEF Same, MapOf, store
  <2>2. CASE j # k
    <3>1. ~ ChangesKey(c, j)
      BY <1>9, <1>10, <2>2 DEF ChangesKey, k
    <3> QED
      BY <1>6, <1>15, <2>2, <3>1
  <2> QED
    BY <2>1, <2>2
<1>17. ClientInv(c)'
  <2>1. ShapeInv(c)'
    <3>1. KeysInv(c)'
      BY <1>1, <1>2, <1>9, <1>10 DEF KeysInv, request, Running
    <3> QED
      BY <1>4, <1>9, <3>1 DEF ShapeInv
  <2>2. CopyInv(c)'
    <3>1. Exact(c)' => Exact(c)
      BY <1>9, <1>10 DEF Exact, Working
    <3> SUFFICES ASSUME NEW i \in Places(c), KeyAt(c, i) \in Record \ suspect', ~ Changing(c, i)'
                 PROVE  /\ db'[KeyAt(c, i)] # NoDoc
                        /\ MapAt(c, i).val = db'[KeyAt(c, i)].val
                        /\ Exact(c) => MapAt(c, i).rest = db'[KeyAt(c, i)].rest
      BY <1>10, <3>1 DEF CopyInv
    <3>2. CASE i = item[c]
      <4>1. MapAt(c, i) = n /\ KeyAt(c, i) = k /\ sent[c] = n
        BY <1>7, <1>8, <3>2 DEF n, k
      <4> QED
        BY <1>6, <4>1 DEF DocOf
    <3>3. CASE i # item[c]
      <4>1. db'[KeyAt(c, i)] = db[KeyAt(c, i)] /\ ~ Changing(c, i)
        BY <1>6, <1>9, <1>12, <3>3
      <4> QED
        BY <1>2, <1>7, <4>1 DEF CopyInv
    <3> QED
      BY <3>2, <3>3
  <2>3. ChangeInv(c)'
    <3> SUFFICES ASSUME NEW i \in Places(c), KeyAt(c, i) \in Record \ suspect', Changing(c, i)'
                 PROVE  Matches(KeyAt(c, i), MapAt(c, i))' /\ pc'[c] = "marshal"
      BY <1>10 DEF ChangeInv, Pending
    <3>1. i # item[c] /\ Changing(c, i) /\ pc'[c] = "marshal"
      BY <1>9
    <3>2. Matches(KeyAt(c, i), MapAt(c, i))
      BY <1>1, <1>2, <1>7, <3>1 DEF ChangeInv, Pending
    <3>3. db'[KeyAt(c, i)] = db[KeyAt(c, i)]
      BY <1>6, <1>12, <3>1
    <3> QED
      BY <1>1, <1>10, <3>1, <3>2, <3>3 DEF Matches, store
  <2>4. InrecInv(c)' /\ AbsentInv(c)'
    BY <1>1, <1>3, <1>9 DEF InrecInv, AbsentInv
  <2>5. CompleteInv(c)'
    <3> SUFFICES ASSUME suspect' = {}, Complete(chain[c])
                 PROVE  {KeyAt(c, i) : i \in Places(c)} = InDb'
      BY <1>1, <1>9, <1>10 DEF CompleteInv, request
    <3>1. {KeyAt(c, i) : i \in Places(c)} = InDb
      BY <1>1, <1>2, <1>3, <1>7 DEF CompleteInv
    <3>2. k \in InDb
      BY <1>3, <3>1 DEF k
    <3>3. InDb' = InDb
      BY <1>6, <3>2 DEF InDb
    <3> QED
      BY <3>1, <3>3
  <2> QED
    BY <2>1, <2>2, <2>3, <2>4, <2>5 DEF ClientInv
<1> QED
  BY <1>13, <1>14, <1>16, <1>17, AgreeStep

(* Whether it was written is not known, and its response is suspect.       *)
LEMMA UpsertFailsAgrees ==
  ASSUME MongoInv, AgreeInv, NEW c \in Client, UpsertFails(c) PROVE AgreeInv'
<1> DEFINE k == sent[c].key
<1>1. /\ pc[c] = "upsert" /\ Running(c) /\ Goto(c, "failed") /\ at' = at
      /\ db' \in {db, [db EXCEPT ![k] = DocOf(sent[c])]}
      /\ suspect' = suspect \cup {heap[r].key : r \in Range(data[c])}
      /\ UNCHANGED <<store, heap, request, data, locals>>
  BY DEF UpsertFails, Fails, Running
<1>2. pc'[c] = "failed" /\ \A d \in Client \ {c} : pc'[d] = pc[d]
  BY <1>1, Went
<1>3. TypeOK /\ ShapeInv(c) /\ KeysInv(c)
  BY DEF MongoInv, AgreeInv, ClientInv, ShapeInv
<1>4. /\ item[c] \in Places(c) /\ Places(c) = 1..Len(data[c])
      /\ Range(data[c]) = {data[c][i] : i \in Places(c)}
  <2>1. item[c] \in 1..Len(data[c]) /\ data[c] # NoResponse
    BY <1>1, CurrentRecord
  <2> QED
    BY <1>3, <2>1, Facts DEF Places
<1>5. suspect \subseteq suspect' /\ \A i \in Places(c) : KeyAt(c, i) \in suspect'
  BY <1>1, <1>4 DEF KeyAt
<1>6. k \in suspect'
  BY <1>1, <1>3, <1>4, <1>5 DEF ShapeInv
<1>7. \A j \in Record \ suspect' : db'[j] = db[j]
  <2>1. db \in [Record -> Doc \cup {NoDoc}]
    BY <1>3 DEF TypeOK
  <2> HIDE DEF k, Doc
  <2> QED
    BY <1>1, <1>6, <2>1
<1>8. /\ Places(c)' = Places(c) /\ Stored' = Stored /\ NoCollect(c)' = NoCollect(c)
      /\ \A i : KeyAt(c, i)' = KeyAt(c, i)
  BY <1>1 DEF Places, Stored, NoCollect, KeyAt, store, request
<1>9. Undisturbed(c)
  <2>1. OthersSame(c)
    BY <1>1, <1>2 DEF OthersSame, request, locals
  <2> QED
    BY <1>1, <1>5, <1>7, <2>1 DEF Undisturbed, store, locals
<1>10. CleanKept(c)
  <2>1. \A j : j \notin suspect' => ~ ChangesKey(c, j)
    BY <1>5 DEF ChangesKey
  <2>2. Stored \subseteq Record
    BY DEF Stored
  <2> QED
    BY <1>1, <1>7, <1>8, <2>1, <2>2 DEF CleanKept, store
<1>11. SuspectInv'
  BY <1>1, <1>2, <1>9, SuspectKept DEF request, Running
<1>12. ClientInv(c)'
  <2>1. ShapeInv(c)'
    <3>1. KeysInv(c)'
      BY <1>1, <1>3, <1>8 DEF KeysInv, request, Running
    <3> QED
      BY <1>2, <3>1 DEF ShapeInv
  <2>2. CopyInv(c)' /\ ChangeInv(c)'
    BY <1>5, <1>8 DEF CopyInv, ChangeInv
  <2>3. InrecInv(c)' /\ AbsentInv(c)'
    BY <1>2 DEF InrecInv, AbsentInv
  <2>4. CompleteInv(c)'
    BY <1>4, <1>5 DEF CompleteInv
  <2> QED
    BY <2>1, <2>2, <2>3, <2>4 DEF ClientInv
<1> QED
  BY <1>9, <1>10, <1>11, <1>12, AgreeStep

-----------------------------------------------------------------------------
(* It holds at first.                                                      *)
LEMMA InitAgrees == Init => AgreeInv
<1> SUFFICES ASSUME Init PROVE AgreeInv
  OBVIOUS
<1>1. \A c \in Client : pc[c] = "idle" /\ Places(c) = {} /\ ~ Running(c)
  BY DEF Init, Places, Running
<1>2. Stored = {}
  BY DEF Init, Stored
<1>3. ASSUME NEW c \in Client PROVE ClientInv(c)
  BY <1>1 DEF ClientInv, ShapeInv, KeysInv, CopyInv, ChangeInv, InrecInv, AbsentInv, CompleteInv
<1> QED
  BY <1>1, <1>2, <1>3 DEF AgreeInv, SuspectInv, CleanInv

(* Every step keeps it, until a Mutate changes a key.                      *)
LEMMA NextAgrees == MongoInv /\ AgreeInv /\ [Next]_vars => rekeyed' \/ AgreeInv'
<1> SUFFICES ASSUME MongoInv, AgreeInv, [Next]_vars, ~ rekeyed' PROVE AgreeInv'
  OBVIOUS
<1>1. ASSUME NEW c \in Client, Process(c) PROVE AgreeInv'
  BY <1>1, GetByRefAgrees, ReadOneAgrees, HasRefAgrees, LinkAgrees, LookAgrees, InsertAgrees,
     MergeAgrees, TaintAgrees, AllOfLastAgrees, CountAgrees, LengthAgrees, SelectAgrees,
     ReadAllAgrees, CollectAgrees, MergeParameterAgrees, MarshalAgrees, CreateAgrees,
     UpsertAgrees, ReadFailsAgrees, MutateFailsAgrees, UpsertFailsAgrees DEF Process
<1>2. CASE UNCHANGED vars
  BY <1>2, NothingAgrees DEF vars, store, request, locals, history
<1> QED
  BY <1>1, <1>2, StartAgrees, ReturnAgrees, WriterAgrees DEF Next

(* After such a Mutate the model stops.                                    *)
LEMMA RekeyedStops == rekeyed /\ [Next]_vars => rekeyed'
BY DEF Next, vars, history

(* So it holds until then.                                                 *)
THEOREM AgreementInvariant == Spec => [](rekeyed \/ AgreeInv)
<1>1. Init => rekeyed \/ AgreeInv
  BY InitAgrees
<1>2. (rekeyed \/ MongoInv) /\ (rekeyed \/ AgreeInv) /\ [Next]_vars => rekeyed' \/ AgreeInv'
  BY NextAgrees, RekeyedStops
<1> QED
  BY <1>1, <1>2, Invariant, PTL DEF Spec

(* StoreAgreesHolds: a record that the store keeps (storage.Store) is what *)
(* the database has once no chain that may touch it is on its way, for     *)
(* every chain, number of clients and records: whichever of Find, All and  *)
(* Mutate added it, and whoever else holds its map; until a Mutate gives a *)
(* map a key it did not have.  What the history names suspect is left out. *)
THEOREM StoreAgreesHolds == Spec => []StoreAgrees
<1>1. (rekeyed \/ MongoInv) /\ (rekeyed \/ AgreeInv) => StoreAgrees
  <2> SUFFICES ASSUME MongoInv, AgreeInv, NEW k \in Stored \ suspect,
                      \A c \in Client : Running(c) => k \notin Footprint(chain[c])
               PROVE  db[k] # NoDoc /\ heap[records[k]] = MapOf(k, db[k])
    BY DEF StoreAgrees
  <2>1. k \in Record
    BY DEF Stored
  <2>2. \A c \in Client : ~ ChangesKey(c, k)
    BY <2>1, ChangesItsOwn
  <2> QED
    BY <2>2 DEF AgreeInv, CleanInv, Clean, Same
<1> QED
  BY <1>1, Invariant, AgreementInvariant, PTL

(* AnswersAgreeHolds: an answer shows its records as the database has      *)
(* them, and that of a query for all shows them all, for every chain,      *)
(* number of clients and records: All may take them from the store because *)
(* it has as many as it counted, and Find what a reference leads to        *)
(* (mongodocs.go); until a Mutate gives a map a key it did not have.  What *)
(* the history names suspect is left out.                                  *)
THEOREM AnswersAgreeHolds == Spec => []AnswersAgree
<1>1. (rekeyed \/ MongoInv) /\ (rekeyed \/ AgreeInv) => AnswersAgree
  <2> SUFFICES ASSUME MongoInv, AgreeInv, NEW c \in Client, pc[c] = "answered"
               PROVE  LET answer == {heap[r] : r \in Range(data[c])} IN
                      /\ (\A i \in DOMAIN chain[c] : chain[c][i].op # "collect") =>
                           \A m \in answer : m.key \notin suspect => db[m.key] = DocOf(m)
                      /\ suspect = {} /\ Complete(chain[c]) => {m.key : m \in answer} = InDb
    BY DEF AnswersAgree
  <2>1. TypeOK /\ KeysInv(c) /\ CopyInv(c) /\ CompleteInv(c)
    BY DEF MongoInv, AgreeInv, ClientInv, ShapeInv
  <2>2. data[c] # NoResponse
    BY DEF MongoInv, PlaceInv
  <2>3. Range(data[c]) = {data[c][i] : i \in Places(c)}
    BY <2>1, <2>2, Facts DEF Places
  <2>4. {heap[r] : r \in Range(data[c])} = {MapAt(c, i) : i \in Places(c)}
    BY <2>3 DEF MapAt
  <2>5. ASSUME \A i \in DOMAIN chain[c] : chain[c][i].op # "collect",
               NEW i \in Places(c), KeyAt(c, i) \notin suspect
        PROVE  db[KeyAt(c, i)] = DocOf(MapAt(c, i))
    <3>1. NoCollect(c) /\ ~ Changing(c, i)
      BY <2>5 DEF NoCollect, Changing
    <3>2. KeyAt(c, i) \in Record
      BY <2>1, <3>1 DEF KeysInv
    <3>3. /\ db[KeyAt(c, i)] # NoDoc
          /\ MapAt(c, i).val = db[KeyAt(c, i)].val
          /\ MapAt(c, i).rest = db[KeyAt(c, i)].rest
      BY <2>1, <2>5, <3>1, <3>2 DEF CopyInv, Exact
    <3>4. db[KeyAt(c, i)] \in Doc
      BY <2>1, <3>2, <3>3 DEF TypeOK
    <3> QED
      BY <3>3, <3>4 DEF DocOf, Doc
  <2>6. suspect = {} /\ Complete(chain[c]) => {KeyAt(c, i) : i \in Places(c)} = InDb
    BY <2>1, <2>2 DEF CompleteInv, Running
  <2> QED
    BY <2>4, <2>5, <2>6 DEF MapAt, KeyAt
<1> QED
  BY <1>1, Invariant, AgreementInvariant, PTL
=============================================================================
