------------------------------ MODULE DiffsAPI ------------------------------
(***************************************************************************)
(* The vocabulary of the Diffs interface (diff.go:14-24): the calls that   *)
(* can be made on a delta store and the answers they get.  A delta is the  *)
(* set of records one request changed; Put names it with a fresh uuid.     *)
(*                                                                         *)
(* Uuids are opaque and never reused, so they are numbered in the order    *)
(* in which their deltas enter a store.  NoTag stands for every string     *)
(* that names no delta: the empty diff tag of a first request, and the     *)
(* uuid Put returns for an empty delta, which it never stores.             *)
(***************************************************************************)
EXTENDS Naturals, Sequences

CONSTANTS
  Goroutine,  \* the goroutines that call the store
  Record,     \* record keys, as TaintedRecords reports them
  MaxPuts     \* how many deltas are ever stored (a bound on the model)

ASSUME MaxPutsAssumption == MaxPuts \in Nat

Uuid == 1..MaxPuts
NoTag == 0
Tag == Uuid \cup {NoTag}

Operation == {"Put", "Get", "PullFrom", "Has", "Keys", "Diffs", "Clear",
              "Analyze", "AnalyzeWith"}

(* The arguments an operation does not take are {} and NoTag. *)
Request == [op : Operation, recs : SUBSET Record, id : Tag]

NoRequest == [op |-> "Has", recs |-> {}, id |-> NoTag]

(* Lists of records are answered as sets (PullFrom, Diffs and the truth    *)
(* maps have no order), lists of uuids in the order of the list; Has       *)
(* answers <<id>> for true and <<>> for false.                             *)
Reply == [recs : SUBSET Record, tags : Seq(Tag)]

Records(R) == [recs |-> R, tags |-> <<>>]
Tags(T) == [recs |-> {}, tags |-> T]
NoReply == Records({})
=============================================================================
