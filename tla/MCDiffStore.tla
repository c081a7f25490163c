---------------------------- MODULE MCDiffStore -----------------------------
(***************************************************************************)
(* Small instances of DiffStore for TLC.                                   *)
(***************************************************************************)
EXTENDS DiffStore

CONSTANTS r1, r2

Ask(op, recs, id) == [op |-> op, recs |-> recs, id |-> id]

(* Every operation: two deltas that differ, the empty one, and the lookups *)
(* by an unknown tag and by the oldest uuid.                               *)
EveryOperation ==
  {Ask("Put", recs, NoTag) : recs \in {{}, {r1}, {r1, r2}}}
    \cup {Ask(op, {}, 1) : op \in {"Get", "PullFrom", "Has"}}
    \cup {Ask(op, {}, NoTag) : op \in {"Get", "Keys", "Diffs", "Clear"}}
    \cup {Ask("Analyze", {r1}, NoTag), Ask("AnalyzeWith", {r2}, 1)}

(* What the expiry of deltas is about: puts, the lookup that panics on a   *)
(* stale index, a call that does not clean, and Clear.                     *)
AroundExpiry ==
  {Ask("Put", {r1}, NoTag), Ask("Get", {}, 2), Ask("Has", {}, 1), Ask("Clear", {}, NoTag)}
=============================================================================
