----------------------------- MODULE ChangeLog ------------------------------
(***************************************************************************)
(* What a delta store that never expires promises its callers: it behaves  *)
(* as one append-only log of deltas on which every call takes effect at    *)
(* one instant between its start and its return, and every call returns.   *)
(* Emptying the log is the one way an entry is lost.                       *)
(***************************************************************************)
EXTENDS DiffsAPI

VARIABLES
  log,     \* the deltas in the order they were put, <<[key, recs], ...>>
  minted,  \* how many uuids name a delta so far
  phase,   \* per goroutine: "idle", "pending" or "done"
  call,    \* the request it made last
  reply    \* the answer it got last

vars == <<log, minted, phase, call, reply>>

Entry == [key : Uuid, recs : SUBSET Record]

TypeInvariant ==
  /\ log \in Seq(Entry)
  /\ minted \in 0..MaxPuts
  /\ phase \in [Goroutine -> {"idle", "pending", "done"}]
  /\ call \in [Goroutine -> Request]
  /\ reply \in [Goroutine -> Reply]

Init ==
  /\ log = <<>>
  /\ minted = 0
  /\ phase = [g \in Goroutine |-> "idle"]
  /\ call = [g \in Goroutine |-> NoRequest]
  /\ reply = [g \in Goroutine |-> NoReply]

(* The records of all entries from position n on. *)
ChangedFrom(n) ==
  {r \in Record : \E i \in n..Len(log) : i \in 1..Len(log) /\ r \in log[i].recs}

(* Everything changed after the delta named id, nothing when id is unknown. *)
ChangedSince(id) ==
  {r \in Record :
     \E i, j \in 1..Len(log) : i < j /\ log[i].key = id /\ r \in log[j].recs}

Known(id) == \E i \in 1..Len(log) : log[i].key = id

Answer(g, entries, answer) ==
  /\ phase[g] = "pending"
  /\ phase' = [phase EXCEPT ![g] = "done"]
  /\ log' = entries
  /\ minted' = IF Len(entries) > Len(log) THEN minted + 1 ELSE minted
  /\ reply' = [reply EXCEPT ![g] = answer]
  /\ UNCHANGED call

Call(g, request) ==
  /\ phase[g] \in {"idle", "done"}
  /\ phase' = [phase EXCEPT ![g] = "pending"]
  /\ call' = [call EXCEPT ![g] = request]
  /\ UNCHANGED <<log, minted, reply>>

Put(g) ==
  /\ call[g].op = "Put"
  /\ \/ /\ call[g].recs = {}
        /\ Answer(g, log, Tags(<<NoTag>>))
     \/ /\ call[g].recs # {}
        /\ minted < MaxPuts
        /\ Answer(g, Append(log, [key |-> minted + 1, recs |-> call[g].recs]),
                  Tags(<<minted + 1>>))

Get(g) ==
  /\ call[g].op = "Get"
  /\ Answer(g, log, Records({r \in Record :
       \E i \in 1..Len(log) : log[i].key = call[g].id /\ r \in log[i].recs}))

PullFrom(g) ==
  /\ call[g].op = "PullFrom"
  /\ Answer(g, log, Records(ChangedSince(call[g].id)))

Has(g) ==
  /\ call[g].op = "Has"
  /\ Answer(g, log, Tags(IF Known(call[g].id) THEN <<call[g].id>> ELSE <<>>))

Keys(g) ==
  /\ call[g].op = "Keys"
  /\ Answer(g, log, Tags([i \in 1..Len(log) |-> log[i].key]))

Diffs(g) ==
  /\ call[g].op = "Diffs"
  /\ Answer(g, log, Records(ChangedFrom(1)))

Clear(g) ==
  /\ call[g].op = "Clear"
  /\ Answer(g, <<>>, NoReply)

Analyze(g) ==
  /\ call[g].op = "Analyze"
  /\ Answer(g, log, Records(call[g].recs \cap ChangedFrom(1)))

AnalyzeWith(g) ==
  /\ call[g].op = "AnalyzeWith"
  /\ Answer(g, log, Records(call[g].recs \cap ChangedSince(call[g].id)))

Serve(g) ==
  \/ Put(g) \/ Get(g) \/ PullFrom(g) \/ Has(g) \/ Keys(g)
  \/ Diffs(g) \/ Clear(g) \/ Analyze(g) \/ AnalyzeWith(g)

Next == \E g \in Goroutine : Serve(g) \/ \E request \in Request : Call(g, request)

SafeSpec == Init /\ [][Next]_vars

Spec == SafeSpec /\ \A g \in Goroutine : WF_vars(Serve(g))
=============================================================================
