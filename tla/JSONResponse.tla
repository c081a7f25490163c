---------------------------- MODULE JSONResponse ----------------------------
(***************************************************************************)
(* The delta protocol: JSONResponseWriter.Write (writers.go:79-178) puts   *)
(* the tainted records of the record store into the delta store, empties   *)
(* them, and answers the request with what changed since the client's      *)
(* diff tag.  Every call it makes on the delta store is a call of          *)
(* DiffStore, made by the goroutine that serves the request; requests of   *)
(* other clients and changes of records run in between.                    *)
(*                                                                         *)
(* A goroutine serves one client, which sends the delta_id of its last     *)
(* answer as the diff_tag of its next request.                             *)
(***************************************************************************)
EXTENDS DiffStore

CONSTANTS
  Diffing,  \* the clients whose requests ask for deltas (ctx.Diffs)
  Watch     \* the diff_watch of each client, {} for everything

(* The writer may make any call; which ones it makes is what follows. *)
ASSUME WriterWorkloadAssumption == Workload = Request
ASSUME DiffingAssumption == Diffing \subseteq Goroutine
ASSUME WatchAssumption == Watch \in [Goroutine -> SUBSET Record]

VARIABLES
  tainted,    \* storage.under.tainted
  unreported, \* changes no request has read from tainted yet (history)
  at,         \* where each goroutine is in Write
  tag,        \* ctx.DiffTag: the tag the client sends
  last        \* key, the newest delta the writer saw

writer == <<tainted, unreported, at, tag, last>>
wvars == <<vars, writer>>

(* Between two requests the client holds an answer with deltas, one        *)
(* without, an error, or none because the writer panicked.                 *)
Resting == {"deltas", "plain", "error", "nothing"}
Writing == {"put", "keys", "has", "pull"}

(* The writer's variables have their types. *)
WriterTypeOK ==
  /\ tainted \in SUBSET Record
  /\ unreported \in SUBSET Record
  /\ at \in [Goroutine -> Resting \cup Writing]
  /\ tag \in [Goroutine -> Tag]
  /\ last \in [Goroutine -> Tag]

WriterInit ==
  /\ Init
  /\ tainted = {}
  /\ unreported = {}
  /\ at = [g \in Goroutine |-> "plain"]
  /\ tag = [g \in Goroutine |-> NoTag]
  /\ last = [g \in Goroutine |-> NoTag]

(* Add on a record the store already holds (storage.go:526-532), by the    *)
(* handler of any request.                                                 *)
Taint(r) ==
  /\ tainted' = tainted \cup {r}
  /\ unreported' = unreported \cup {r}
  /\ UNCHANGED <<vars, at, tag, last>>

(* Write with an error hands it on and does nothing else. *)
PassError(g) ==
  /\ at[g] \in Resting
  /\ at' = [at EXCEPT ![g] = "error"]
  /\ UNCHANGED <<vars, tainted, unreported, tag, last>>

(* br.diff.Put(br.store.TaintedRecords()) *)
PutTainted(g) ==
  /\ at[g] \in Resting
  /\ Call(g, [op |-> "Put", recs |-> tainted, id |-> NoTag])
  /\ at' = [at EXCEPT ![g] = "put"]
  /\ unreported' = unreported \ tainted
  /\ UNCHANGED <<tainted, tag, last>>

Returned(g, point) == at[g] = point /\ pc[g] = "done"

(* br.store.ClearTainted(), then the answer without deltas ... *)
AnswerPlain(g) ==
  /\ Returned(g, "put")
  /\ g \notin Diffing
  /\ tainted' = {}
  /\ at' = [at EXCEPT ![g] = "plain"]
  /\ UNCHANGED <<vars, unreported, tag, last>>

(* Mutant: the uuid that Put returned is taken for the newest one. *)
AskNoKeys(g) ==
  /\ Returned(g, "put")
  /\ g \in Diffing
  /\ tainted' = {}
  /\ at' = [at EXCEPT ![g] = "keys"]
  /\ UNCHANGED <<vars, unreported, tag, last>>

(* ... or the search for the newest delta. *)
AskKeys(g) ==
  /\ Returned(g, "put")
  /\ g \in Diffing
  /\ tainted' = {}
  /\ Call(g, [op |-> "Keys", recs |-> {}, id |-> NoTag])
  /\ at' = [at EXCEPT ![g] = "keys"]
  /\ UNCHANGED <<unreported, tag, last>>

Newest(tags) == IF tags = <<>> THEN NoTag ELSE Last(tags)

AskHas(g) ==
  /\ Returned(g, "keys")
  /\ last' = [last EXCEPT ![g] = Newest(reply[g].tags)]
  /\ Call(g, [op |-> "Has", recs |-> {}, id |-> tag[g]])
  /\ at' = [at EXCEPT ![g] = "has"]
  /\ UNCHANGED <<tainted, unreported, tag>>

(* Mutant: the deltas since the newest key, not since the tag. *)
DeltaCallSinceKey(g, known) ==
  [op |-> CASE known /\ Watch[g] # {}  -> "AnalyzeWith"
            [] known /\ Watch[g] = {}  -> "PullFrom"
            [] ~known /\ Watch[g] # {} -> "Analyze"
            [] OTHER                   -> "Get",
   recs |-> Watch[g],
   id |-> last[g]]

(* Mutant: a watch list is always compared with the deltas since a tag. *)
DeltaCallWatching(g, known) ==
  [op |-> CASE Watch[g] # {}           -> "AnalyzeWith"
            [] known /\ Watch[g] = {}  -> "PullFrom"
            [] OTHER                   -> "Get",
   recs |-> Watch[g],
   id |-> IF known THEN tag[g] ELSE last[g]]

(* The call that fetches the deltas: since the tag when the store knows    *)
(* it; otherwise all of the watched ones, or the newest delta alone.       *)
DeltaCall(g, known) ==
  [op |-> CASE known /\ Watch[g] # {}  -> "AnalyzeWith"
            [] known /\ Watch[g] = {}  -> "PullFrom"
            [] ~known /\ Watch[g] # {} -> "Analyze"
            [] OTHER                   -> "Get",
   recs |-> Watch[g],
   id |-> IF known THEN tag[g] ELSE last[g]]

AskDeltas(g) ==
  /\ Returned(g, "has")
  /\ Call(g, DeltaCall(g, reply[g].tags # <<>>))
  /\ at' = [at EXCEPT ![g] = "pull"]
  /\ UNCHANGED <<tainted, unreported, tag, last>>

(* The answer: delta_id is the newest key, deltas what the call returned. *)
AnswerDeltas(g) ==
  /\ Returned(g, "pull")
  /\ tag' = [tag EXCEPT ![g] = last[g]]
  /\ at' = [at EXCEPT ![g] = "deltas"]
  /\ UNCHANGED <<vars, tainted, unreported, last>>

(* A panic of the delta store unwinds Write and is swallowed by            *)
(* panics.Defer in DocRoute.Serve (engine.go:215-221).                     *)
Swallow(g) ==
  /\ at[g] \in Writing
  /\ pc[g] = "panicked"
  /\ at' = [at EXCEPT ![g] = "nothing"]
  /\ UNCHANGED <<vars, tainted, unreported, tag, last>>

Write(g) ==
  \/ AnswerPlain(g) \/ AskKeys(g) \/ AskHas(g) \/ AskDeltas(g) \/ AnswerDeltas(g)
  \/ Swallow(g)

WriterNext ==
  \/ \E g \in Goroutine : Write(g) \/ PutTainted(g) \/ PassError(g)
  \/ \E r \in Record : Taint(r)
  \/ UNCHANGED writer /\ (Tick \/ \E g \in Goroutine : Step(g))

WriterSafeSpec == WriterInit /\ [][WriterNext]_wvars

(* Write is straight-line code: a goroutine in it keeps running, and gets  *)
(* the lock of the delta store when it waits for it.                       *)
WriterSpec ==
  WriterSafeSpec
  /\ \A g \in Goroutine : SF_wvars(UNCHANGED writer /\ Step(g)) /\ WF_wvars(Write(g))

-----------------------------------------------------------------------------
Watched(g) == IF Watch[g] = {} THEN Record ELSE Watch[g]

(* Nothing is missed between two answers: with a tag the store knows, the  *)
(* answer names every watched record of every delta after the sent tag up  *)
(* to the delta_id it carries, whatever other requests put meanwhile.  It  *)
(* is why key is read before the deltas are (writers.go:117, 158, 168).    *)
NoDeltaSkipped ==
  \A g \in Goroutine :
    Returned(g, "pull") /\ call[g].op \in {"PullFrom", "AnalyzeWith"} =>
      \A i, j, k \in 1..Len(diffs) :
        i < j /\ j <= k /\ diffs[i].key = tag[g] /\ diffs[k].key = last[g] =>
          diffs[j].recs \cap Watched(g) \subseteq reply[g].recs

(* The delta_id of an answer is the tag that was sent or one put after it, *)
(* and still names a delta, so the next answer continues from there        *)
(* (writers.go:117-123, 171).                                              *)
TagsAdvance ==
  [][\A g \in Goroutine : AnswerDeltas(g) /\ MaxAge = 0 =>
       /\ tag[g] # NoTag => tag'[g] # NoTag
       /\ tag'[g] # NoTag => HasKey(tag'[g]) /\ tag'[g] >= tag[g]]_wvars

(* Every request ends, if only in a swallowed panic (engine.go:215-221).   *)
RequestsEnd == \A g \in Goroutine : at[g] \in Writing ~> at[g] \in Resting

(* "Record the diff record and store it for reporting" (writers.go:84): a  *)
(* change that no request has read yet is still among the tainted records. *)
NoChangeLost == unreported \subseteq tainted

(* "If we have no diffing tag then collect all the diffs"                  *)
(* (writers.go:125): a client that watches records and comes without a tag *)
(* is given every one of them that a delta up to the delta_id of its       *)
(* answer names.  A client that watches none is given the newest delta     *)
(* alone (writers.go:144), which is why this is said of watchers only.     *)
FirstWatchCollectsAll ==
  \A g \in Goroutine :
    Returned(g, "pull") /\ Watch[g] # {} /\ ~HasKey(tag[g]) =>
      \A j, k \in 1..Len(diffs) :
        j <= k /\ diffs[k].key = last[g] =>
          diffs[j].recs \cap Watch[g] \subseteq reply[g].recs
=============================================================================
