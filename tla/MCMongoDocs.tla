---------------------------- MODULE MCMongoDocs -----------------------------
(* Small constants for TLC. *)
EXTENDS MongoDocs, TLC

CONSTANTS c1, c2, r1, r2

MCClient == {c1, c2}
MCRecord == {r1, r2}
MCRef == 1..12

find(k) == [op |-> "find", key |-> k, amount |-> 1]
all(n) == [op |-> "all", key |-> NoRecord, amount |-> n]
collect(k) == [op |-> "collect", key |-> k, amount |-> 1]
mutate(k) == [op |-> "mutate", key |-> k, amount |-> 1]

(* Ask; ask again; ask for two; change or make r1; change all; change a    *)
(* projection, with the key and without; the first of the first; a Mutate  *)
(* of nothing; and a Mutate with another key than was asked for.           *)
MCChains == {<<find(r1)>>, <<find(r1), find(r2)>>, <<find(r1), mutate(r1)>>,
             <<find(r2), mutate(NoRecord)>>,
             <<all(-1)>>, <<all(-1), mutate(NoRecord)>>, <<all(1), all(1)>>,
             <<find(r1), collect(r1), mutate(NoRecord)>>,
             <<all(-1), collect(NoRecord), mutate(NoRecord)>>, <<mutate(r1)>>,
             <<find(r1), mutate(r2)>>, <<all(-1), mutate(r1)>>}

MCSymmetry == Permutations(MCClient)
=============================================================================
