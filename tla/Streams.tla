------------------------------ MODULE Streams -------------------------------
(***************************************************************************)
(* StreamOS.Handle and ResponseStream (streams/streams.go) over the part   *)
(* of sumex they use.  The engine takes the queries of a request one after *)
(* the other; a query is a chain of steps.  For each step Handle           *)
(* subscribes to the outport, injects the step into the inport, and waits  *)
(* for an answer under the request id.  Every hop of a message is a        *)
(* goroutine per subscriber (sumex.go:222-242), so messages overtake each  *)
(* other.  All processors get every step: the one it is for answers, or    *)
(* panics and sends nothing, the others refuse it with a plain error,      *)
(* which every subscriber sees and none takes.                             *)
(*                                                                         *)
(* A request id is what the client sent.  It names all steps of all        *)
(* queries of a request, and the requests of one Servo share its uuid      *)
(* (client.go:242), be they handled at once or one after the other.        *)
(***************************************************************************)
EXTENDS Naturals, Sequences

CONSTANTS
  Queries,      \* what a request may ask: the number of steps of each query
  Others,       \* how many processors a step is not for
  MaxRequests,  \* bound: requests, numbered in the order of their coming
  Wait,         \* Config.Wait, in ticks
  NoMessage     \* nothing received yet

Request == 1..MaxRequests

(* Ids are numbered too, none above the number of the request it came with. *)
Rid == Request

ASSUME QueriesAreChains == Queries \subseteq Seq(Nat \ {0}) \ {<<>>}
ASSUME BoundsAreNumbers ==
  MaxRequests \in Nat \ {0} /\ Wait \in Nat \ {0} /\ Others \in Nat

VARIABLES
  pc,            \* Handle: where each request is
  asked, rid,    \* its queries and its id
  query, index,  \* the query and the step it is at
  previous,      \* the step whose response is previousRes, or none
  replies,       \* what it was answered, in order
  got,           \* ResponseStream: what it took for the step
  waited,        \* its timer, in ticks
  mail,          \* messages in the streams of Receive and ReceiveError
  inbox,         \* steps in the goroutines to their processors and back
  refusals,      \* how many are with processors that will refuse them
  doubtful       \* ids that met a timeout or were shared (history)

handling == <<pc, asked, rid, query, index, previous, replies>>
receiving == <<waited, mail>>
working == <<inbox, refusals>>
vars == <<handling, got, receiving, working, doubtful>>

Job == [of : Request, query : Nat \ {0}, index : Nat \ {0}]
NoJob == <<>>

Work == [rid : Rid, job : Job, last : Job \cup {NoJob}]
Message == [kind : {"answer", "error", "timeout"}, rid : Rid, job : Job]
Reply == [kind : {"data", "error"}, job : Job]

ASSUME NothingIsNoMessage == NoMessage \notin Message

Active(n) == pc[n] \in {"inject", "await"}

(* TypeOK: every variable has its type. *)
TypeOK ==
  /\ pc \in [Request -> {"new", "inject", "await", "done"}]
  /\ asked \in [Request -> Queries \cup {<<>>}]
  /\ rid \in [Request -> Rid]
  /\ query \in [Request -> Nat \ {0}]
  /\ index \in [Request -> Nat \ {0}]
  /\ previous \in [Request -> Job \cup {NoJob}]
  /\ replies \in [Request -> Seq(Reply)]
  /\ got \in [Request -> Message \cup {NoMessage}]
  /\ waited \in [Request -> 0..Wait]
  /\ mail \in [Request -> SUBSET Message]
  /\ inbox \subseteq Work
  /\ refusals \in Nat
  /\ doubtful \subseteq Rid

Init ==
  /\ pc = [n \in Request |-> "new"]
  /\ asked = [n \in Request |-> <<>>]
  /\ rid = [n \in Request |-> n]
  /\ query = [n \in Request |-> 1]
  /\ index = [n \in Request |-> 1]
  /\ previous = [n \in Request |-> NoJob]
  /\ replies = [n \in Request |-> <<>>]
  /\ got = [n \in Request |-> NoMessage]
  /\ waited = [n \in Request |-> 0]
  /\ mail = [n \in Request |-> {}]
  /\ inbox = {}
  /\ refusals = 0
  /\ doubtful = {}

-----------------------------------------------------------------------------
Steps(n) == asked[n][query[n]]
JobOf(n) == [of |-> n, query |-> query[n], index |-> index[n]]

(* The select of ResponseStream runs from the subscription to the outport, *)
(* with which a step begins, until it takes something.  The streams of     *)
(* earlier steps stay subscribed, but nobody reads them.                   *)
Listening(n) == Active(n) /\ got[n] = NoMessage

(* A client comes with its queries under an id, perhaps one that was used  *)
(* before or is in use.                                                    *)
Serve(n, queries, id) ==
  /\ pc[n] = "new"
  /\ \A earlier \in Request : earlier < n => pc[earlier] # "new"
  /\ id <= n
  /\ asked' = [asked EXCEPT ![n] = queries]
  /\ rid' = [rid EXCEPT ![n] = id]
  /\ pc' = [pc EXCEPT ![n] = "inject"]
  /\ doubtful' = IF \E other \in Request : Active(other) /\ rid[other] = id
                 THEN doubtful \cup {id} ELSE doubtful
  /\ UNCHANGED <<query, index, previous, replies, got, receiving, working>>

(* s.inport.Inject: the inport sends the step to every processor.          *)
Inject(n) ==
  /\ pc[n] = "inject"
  /\ pc' = [pc EXCEPT ![n] = "await"]
  /\ inbox' = inbox \cup
       {[rid |-> rid[n], job |-> JobOf(n), last |-> previous[n]]}
  /\ refusals' = refusals + Others
  /\ UNCHANGED <<asked, rid, query, index, previous, replies, got, receiving,
                 doubtful>>

-----------------------------------------------------------------------------
(* Processors. *)

(* Mutant: the request id is not compared. *)
MatchesAny(n, m) == TRUE

Matches(n, m) == m.rid = rid[n]

(* The outport sends a response, or an error with a request id, to its     *)
(* subscribers of the moment.  A ResponseStream that has no use for it     *)
(* goes into its select anew, with a new timer; to others it is on its way. *)
Publish(m) ==
  /\ mail' = [n \in Request |-> IF Listening(n) /\ Matches(n, m)
                                THEN mail[n] \cup {m} ELSE mail[n]]
  /\ waited' = [n \in Request |-> IF Listening(n) /\ ~Matches(n, m)
                                  THEN 0 ELSE waited[n]]

(* A worker of the processor the step is for: Do answers, fails or panics. *)
(* The goroutines from here to the outport take their time; it is part of  *)
(* the time w spends in inbox.                                             *)
Process(w) ==
  /\ inbox' = inbox \ {w}
  /\ \/ \E kind \in {"answer", "error"} :
          Publish([kind |-> kind, rid |-> w.rid, job |-> w.job])
     \/ UNCHANGED <<mail, waited>>
  /\ UNCHANGED <<handling, got, refusals, doubtful>>

(* Another processor returns ErrInvalidRequestType, an error without id.   *)
Refuse ==
  /\ refusals > 0
  /\ refusals' = refusals - 1
  /\ waited' = [n \in Request |-> IF Listening(n) THEN 0 ELSE waited[n]]
  /\ UNCHANGED <<handling, got, mail, inbox, doubtful>>

-----------------------------------------------------------------------------
(* The select of ResponseStream. *)

Select(n, m) ==
  /\ got' = [got EXCEPT ![n] = m]
  /\ mail' = [mail EXCEPT ![n] = {}]
  /\ waited' = [waited EXCEPT ![n] = 0]

Take(n, m) ==
  /\ Listening(n)
  /\ m \in mail[n]
  /\ Select(n, m)
  /\ UNCHANGED <<handling, working, doubtful>>

(* Mutant: the time is compared off by one. *)
ExpiredLater(n) == waited[n] > Wait

Expired(n) == waited[n] = Wait

(* time.After(maxWait): an error under the own id is made here.            *)
TimeOut(n) ==
  /\ Listening(n)
  /\ Expired(n)
  /\ Select(n, [kind |-> "timeout", rid |-> rid[n], job |-> JobOf(n)])
  /\ doubtful' = doubtful \cup {rid[n]}
  /\ UNCHANGED <<handling, working>>

(* Mutant: the timer goes on when it has expired. *)
RunningOn(n) == Listening(n)

Running(n) == Listening(n) /\ waited[n] < Wait

Tick ==
  /\ \E n \in Request : Running(n)
  /\ waited' = [n \in Request |-> IF Running(n) THEN waited[n] + 1 ELSE waited[n]]
  /\ UNCHANGED <<handling, got, mail, working, doubtful>>

-----------------------------------------------------------------------------
(* The select of Handle, and what follows. *)

Received(n) == pc[n] = "await" /\ got[n] # NoMessage

Forget(n) == got' = [got EXCEPT ![n] = NoMessage]

(* Mutant: the response is not kept for the next step. *)
ProceedForgetting(n) ==
  /\ Received(n)
  /\ got[n].kind = "answer"
  /\ index[n] < Steps(n)
  /\ index' = [index EXCEPT ![n] = @ + 1]
  /\ pc' = [pc EXCEPT ![n] = "inject"]
  /\ Forget(n)
  /\ UNCHANGED <<asked, rid, query, previous, replies, receiving, working, doubtful>>

(* A response of a step that is not the last goes to the next step.        *)
Proceed(n) ==
  /\ Received(n)
  /\ got[n].kind = "answer"
  /\ index[n] < Steps(n)
  /\ previous' = [previous EXCEPT ![n] = got[n].job]
  /\ index' = [index EXCEPT ![n] = @ + 1]
  /\ pc' = [pc EXCEPT ![n] = "inject"]
  /\ Forget(n)
  /\ UNCHANGED <<asked, rid, query, replies, receiving, working, doubtful>>

(* Handle returns; the engine goes on to the next query (engine.go:311).   *)
NextQuery(n) ==
  /\ query' = [query EXCEPT ![n] = @ + 1]
  /\ index' = [index EXCEPT ![n] = 1]
  /\ previous' = [previous EXCEPT ![n] = NoJob]
  /\ pc' = [pc EXCEPT ![n] = IF query[n] < Len(asked[n]) THEN "inject" ELSE "done"]
  /\ Forget(n)
  /\ UNCHANGED <<asked, rid, receiving, working, doubtful>>

Write(n, kind) ==
  replies' = [replies EXCEPT ![n] = Append(@, [kind |-> kind, job |-> got[n].job])]

(* The response of the last step is the answer of the query.               *)
Finish(n) ==
  /\ Received(n)
  /\ got[n].kind = "answer"
  /\ index[n] = Steps(n)
  /\ Write(n, "data")
  /\ NextQuery(n)

(* Mutant: an error does not end the loop over the steps. *)
FailAndGoOn(n) ==
  /\ Received(n)
  /\ got[n].kind # "answer"
  /\ Write(n, "error")
  /\ IF index[n] < Steps(n)
     THEN /\ index' = [index EXCEPT ![n] = @ + 1]
          /\ pc' = [pc EXCEPT ![n] = "inject"]
          /\ Forget(n)
          /\ UNCHANGED <<asked, rid, query, previous, receiving, working, doubtful>>
     ELSE NextQuery(n)

(* An error or a timeout is the answer of the query and ends its chain.    *)
Fail(n) ==
  /\ Received(n)
  /\ got[n].kind # "answer"
  /\ Write(n, "error")
  /\ NextQuery(n)

-----------------------------------------------------------------------------
Step(n) == \/ Inject(n) \/ TimeOut(n)
           \/ \E m \in mail[n] : Take(n, m)
           \/ Proceed(n) \/ Finish(n) \/ Fail(n)

Next == \/ \E n \in Request, queries \in Queries, id \in Rid : Serve(n, queries, id)
        \/ \E n \in Request : Step(n)
        \/ \E w \in inbox : Process(w)
        \/ Refuse
        \/ Tick

(* Goroutines that can go on do, and time passes.  Processors owe nothing: *)
(* the database behind them may hang.                                      *)
Fairness == WF_vars(Tick) /\ \A n \in Request : WF_vars(Step(n))

Spec == Init /\ [][Next]_vars /\ Fairness

-----------------------------------------------------------------------------
(* OneReplyPerQuery: Handle writes one answer per query, whatever became   *)
(* of its steps; BatchResponseWriter counts on that (writers.go:57).       *)
OneReplyPerQuery == \A n \in Request : Len(replies[n]) = query[n] - 1

(* RepliesAreTheirs: unless the request id met a timeout or was used by    *)
(* two requests at once, the i-th reply is about the i-th query: its last  *)
(* response, or an error of one of its steps.  With either of the two, a   *)
(* request may be given the answer of another (streams.go:93).             *)
RepliesAreTheirs ==
  \A n \in Request : rid[n] \notin doubtful =>
    \A i \in DOMAIN replies[n] :
      LET job == replies[n][i].job IN
      /\ job.of = n
      /\ job.query = i
      /\ replies[n][i].kind = "data" => job.index = asked[n][i]

Before(job) == IF job.index = 1 THEN NoJob
               ELSE [of |-> job.of, query |-> job.query, index |-> job.index - 1]

(* WorkIsInOrder: under the same proviso, a step is in the hands of its    *)
(* processor only while its request waits for it, so no Mutate is applied  *)
(* after its request was answered; and it works on the response of the     *)
(* step before it, so a Mutate changes the records its own query selected. *)
WorkIsInOrder ==
  \A w \in inbox : w.rid \notin doubtful =>
    /\ pc[w.job.of] = "await" /\ got[w.job.of] = NoMessage
    /\ w.job = JobOf(w.job.of)
    /\ w.last = Before(w.job)

(* RequestsEnd: requests are answered in the end, although each message    *)
(* for another request starts the timer of one again (streams.go:123), for *)
(* there are finitely many of those.                                       *)
RequestsEnd ==
  (\E n \in Request : Active(n)) ~> (\A n \in Request : ~Active(n))
=============================================================================
