--------------------------- MODULE MCJSONResponse ---------------------------
(***************************************************************************)
(* Small instances of JSONResponse: c1 asks for deltas and watches one     *)
(* record, c2 asks for every delta, c3 asks for none.                      *)
(***************************************************************************)
EXTENDS JSONResponse

CONSTANTS r1, r2, c1, c2, c3

WatchOf == [g \in Goroutine |-> IF g = c1 THEN {r1} ELSE {}]
WantDeltas == Goroutine \ {c3}
AnyRequest == Request
=============================================================================
