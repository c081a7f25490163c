--------------------------- MODULE StreamsProofs ----------------------------
(***************************************************************************)
(* Theorems about Streams, for all queries, requests and bounds.           *)
(***************************************************************************)
EXTENDS Streams, TLAPS

Clean(n) == rid[n] \notin doubtful

(* A request that has not come has nothing; one at work is at one of its   *)
(* steps; and only a select that runs keeps messages.                      *)
PlaceInv ==
  \A n \in Request :
    /\ pc[n] = "new" => /\ index[n] = 1 /\ previous[n] = NoJob
                        /\ query[n] = 1 /\ replies[n] = <<>>
    /\ Active(n) => /\ asked[n] \in Queries
                    /\ query[n] \in 1..Len(asked[n])
                    /\ index[n] \in 1..Steps(n)
    /\ ~Active(n) => got[n] = NoMessage
    /\ ~Listening(n) => mail[n] = {}

(* Two requests at work under one id make it doubtful.                     *)
DoubtInv ==
  \A n, other \in Request :
    Active(n) /\ Active(other) /\ rid[n] = rid[other] /\ n # other => ~Clean(n)

(* A step goes under the id of its request.                                *)
WorkInv ==
  \A w \in inbox : w.rid = rid[w.job.of] /\ pc[w.job.of] # "new"

(* Messages kept are for the id; with a clean id they answer the step that *)
(* waits, which is then in no processor's hands.                           *)
MailInv ==
  \A n \in Request : \A m \in mail[n] :
    /\ m.rid = rid[n] /\ m.kind # "timeout"
    /\ Clean(n) => /\ m.job = JobOf(n) /\ pc[n] = "await"
                   /\ \A w \in inbox : w.job.of # n

(* So does what was taken.                                                 *)
GotInv ==
  \A n \in Request : got[n] # NoMessage /\ Clean(n) =>
    /\ pc[n] = "await"
    /\ got[n].job = JobOf(n)

(* The response kept is that of the step before.                           *)
PreviousInv ==
  \A n \in Request : Active(n) /\ Clean(n) =>
    previous[n] = Before(JobOf(n))

Inv == /\ TypeOK /\ PlaceInv /\ DoubtInv /\ WorkInv /\ MailInv /\ GotInv
       /\ PreviousInv /\ OneReplyPerQuery /\ RepliesAreTheirs /\ WorkIsInOrder

-----------------------------------------------------------------------------
(* Lemmas about data. *)

(* A function of sequences with an element appended to one of them.        *)
LEMMA AppendedTo ==
  ASSUME NEW D, NEW S, NEW f \in [D -> Seq(S)], NEW d \in D, NEW x \in S
  PROVE  [f EXCEPT ![d] = Append(@, x)] \in [D -> Seq(S)]
<1>1. Append(f[d], x) \in Seq(S)
  OBVIOUS
<1> QED
  BY <1>1

(* What a sequence holds after an append.                                  *)
LEMMA Appended ==
  ASSUME NEW S, NEW s \in Seq(S), NEW x \in S
  PROVE  /\ Len(Append(s, x)) = Len(s) + 1
         /\ DOMAIN Append(s, x) = 1..(Len(s) + 1)
         /\ \A i \in 1..Len(s) : Append(s, x)[i] = s[i]
         /\ Append(s, x)[Len(s) + 1] = x
OBVIOUS

(* A request at work has a query with steps.                               *)
LEMMA StepsType ==
  ASSUME TypeOK, PlaceInv, NEW n \in Request, Active(n)
  PROVE  /\ Steps(n) \in Nat \ {0}
         /\ asked[n] \in Seq(Nat \ {0})
         /\ Len(asked[n]) \in Nat \ {0}
         /\ query[n] \in 1..Len(asked[n])
         /\ index[n] \in 1..Steps(n)
<1>1. /\ asked[n] \in Queries
      /\ query[n] \in 1..Len(asked[n]) /\ index[n] \in 1..Steps(n)
  BY DEF PlaceInv
<1>2. asked[n] \in Seq(Nat \ {0}) /\ asked[n] # <<>>
  BY <1>1, QueriesAreChains
<1>3. Len(asked[n]) \in Nat \ {0}
  BY <1>2
<1>4. Steps(n) \in Nat \ {0}
  BY <1>1, <1>2 DEF Steps
<1> QED
  BY <1>1, <1>2, <1>3, <1>4

(* The step a request is at is a job.                                      *)
LEMMA JobOfType ==
  ASSUME TypeOK, NEW n \in Request
  PROVE  JobOf(n) \in Job
BY DEF TypeOK, JobOf, Job

(* A message is something.                                                 *)
LEMMA MessageIsSomething ==
  ASSUME NEW m \in Message
  PROVE  m # NoMessage /\ m.job \in Job /\ m.rid \in Rid
         /\ m.kind \in {"answer", "error", "timeout"}
BY NothingIsNoMessage DEF Message

-----------------------------------------------------------------------------
(* Types. *)

(* The initial states have their types.                                    *)
LEMMA InitTypeOK == Init => TypeOK
<1> SUFFICES ASSUME Init PROVE TypeOK
  OBVIOUS
<1>1. MaxRequests \in Nat \ {0} /\ Wait \in Nat \ {0}
  BY BoundsAreNumbers
<1>2. replies \in [Request -> Seq(Reply)]
  BY DEF Init
<1>3. waited \in [Request -> 0..Wait]
  BY <1>1 DEF Init
<1> QED
  BY <1>1, <1>2, <1>3 DEF Init, TypeOK, Rid, Request

(* What the writing of an answer does to the types.                        *)
LEMMA WriteType ==
  ASSUME TypeOK, NEW n \in Request, Received(n), NEW kind \in {"data", "error"},
         Write(n, kind)
  PROVE  replies' \in [Request -> Seq(Reply)]
<1>1. got[n] \in Message
  BY DEF TypeOK, Received
<1>2. [kind |-> kind, job |-> got[n].job] \in Reply
  BY <1>1, MessageIsSomething DEF Reply
<1>3. replies \in [Request -> Seq(Reply)]
  BY DEF TypeOK
<1>4. [replies EXCEPT ![n] = Append(@, [kind |-> kind, job |-> got[n].job])]
        \in [Request -> Seq(Reply)]
  BY ONLY <1>2, <1>3, AppendedTo
<1> QED
  BY <1>4 DEF Write

(* The move to the next query keeps the other types.                       *)
LEMMA NextQueryTypeOK ==
  ASSUME TypeOK, NEW n \in Request, NextQuery(n),
         replies' \in [Request -> Seq(Reply)]
  PROVE  TypeOK'
<1> USE DEF TypeOK
<1>1. query' \in [Request -> Nat \ {0}] /\ index' \in [Request -> Nat \ {0}]
  BY DEF NextQuery
<1>2. pc' \in [Request -> {"new", "inject", "await", "done"}]
  BY DEF NextQuery
<1>3. /\ previous' \in [Request -> Job \cup {NoJob}]
      /\ got' \in [Request -> Message \cup {NoMessage}]
  BY DEF NextQuery, Forget
<1> QED
  BY <1>1, <1>2, <1>3 DEF NextQuery, receiving, working

(* Every step keeps the types.                                             *)
LEMMA NextTypeOK == TypeOK /\ [Next]_vars => TypeOK'
<1> SUFFICES ASSUME TypeOK, [Next]_vars PROVE TypeOK'
  OBVIOUS
<1> USE DEF TypeOK
<1>1. ASSUME NEW n \in Request, NEW queries \in Queries, NEW id \in Rid,
             Serve(n, queries, id)
      PROVE  TypeOK'
  <2>1. doubtful' \subseteq Rid
    BY <1>1 DEF Serve
  <2>2. /\ asked' \in [Request -> Queries \cup {<<>>}]
        /\ rid' \in [Request -> Rid]
        /\ pc' \in [Request -> {"new", "inject", "await", "done"}]
    BY <1>1 DEF Serve
  <2> QED
    BY <1>1, <2>1, <2>2 DEF Serve, receiving, working
<1>2. ASSUME NEW n \in Request, Inject(n) PROVE TypeOK'
  <2>1. [rid |-> rid[n], job |-> JobOf(n), last |-> previous[n]] \in Work
    BY JobOfType DEF Work
  <2>2. inbox' \subseteq Work
    BY <1>2, <2>1 DEF Inject
  <2>3. refusals' \in Nat
    BY <1>2, BoundsAreNumbers DEF Inject
  <2>4. pc' \in [Request -> {"new", "inject", "await", "done"}]
    BY <1>2 DEF Inject
  <2> QED
    BY <1>2, <2>2, <2>3, <2>4 DEF Inject, receiving
<1>3. ASSUME NEW n \in Request, TimeOut(n) PROVE TypeOK'
  <2>1. [kind |-> "timeout", rid |-> rid[n], job |-> JobOf(n)] \in Message
    BY JobOfType DEF Message
  <2>2. /\ got' \in [Request -> Message \cup {NoMessage}]
        /\ mail' \in [Request -> SUBSET Message]
        /\ waited' \in [Request -> 0..Wait]
    BY <1>3, <2>1, BoundsAreNumbers DEF TimeOut, Select
  <2>3. doubtful' \subseteq Rid
    BY <1>3 DEF TimeOut
  <2> QED
    BY <1>3, <2>2, <2>3 DEF TimeOut, handling, working
<1>4. ASSUME NEW n \in Request, NEW m \in mail[n], Take(n, m) PROVE TypeOK'
  <2>1. m \in Message
    OBVIOUS
  <2>2. /\ got' \in [Request -> Message \cup {NoMessage}]
        /\ mail' \in [Request -> SUBSET Message]
        /\ waited' \in [Request -> 0..Wait]
    BY <1>4, <2>1, BoundsAreNumbers DEF Take, Select
  <2> QED
    BY <1>4, <2>2 DEF Take, handling, working
<1>5. ASSUME NEW n \in Request, Proceed(n) PROVE TypeOK'
  <2>1. got[n].job \in Job
    BY <1>5, MessageIsSomething DEF Proceed, Received
  <2>2. /\ previous' \in [Request -> Job \cup {NoJob}]
        /\ index' \in [Request -> Nat \ {0}]
        /\ pc' \in [Request -> {"new", "inject", "await", "done"}]
        /\ got' \in [Request -> Message \cup {NoMessage}]
    BY <1>5, <2>1 DEF Proceed, Forget
  <2> QED
    BY <1>5, <2>2 DEF Proceed, receiving, working
<1>6. ASSUME NEW n \in Request, Finish(n) \/ Fail(n) PROVE TypeOK'
  BY <1>6, WriteType, NextQueryTypeOK DEF Finish, Fail
<1>7. ASSUME NEW w \in inbox, Process(w) PROVE TypeOK'
  <2>1. ASSUME NEW kind \in {"answer", "error"},
               Publish([kind |-> kind, rid |-> w.rid, job |-> w.job])
        PROVE  mail' \in [Request -> SUBSET Message] /\ waited' \in [Request -> 0..Wait]
    <3>1. [kind |-> kind, rid |-> w.rid, job |-> w.job] \in Message
      BY DEF Message, Work
    <3> QED
      BY <2>1, <3>1, BoundsAreNumbers DEF Publish
  <2>2. mail' \in [Request -> SUBSET Message] /\ waited' \in [Request -> 0..Wait]
    BY <1>7, <2>1 DEF Process
  <2> QED
    BY <1>7, <2>2 DEF Process, handling
<1>8. CASE Refuse
  <2>1. refusals' \in Nat /\ waited' \in [Request -> 0..Wait]
    BY <1>8, BoundsAreNumbers DEF Refuse
  <2> QED
    BY <1>8, <2>1 DEF Refuse, handling
<1>9. CASE Tick
  <2>1. waited' \in [Request -> 0..Wait]
    BY <1>9, BoundsAreNumbers DEF Tick, Running
  <2> QED
    BY <1>9, <2>1 DEF Tick, handling, working
<1>10. CASE UNCHANGED vars
  BY <1>10 DEF vars, handling, receiving, working
<1> QED
  BY <1>1, <1>2, <1>3, <1>4, <1>5, <1>6, <1>7, <1>8, <1>9, <1>10 DEF Next, Step

(* TypeCorrect: every variable always has its type.                        *)
THEOREM TypeCorrect == Spec => []TypeOK
<1> QED
  BY InitTypeOK, NextTypeOK, PTL DEF Spec
-----------------------------------------------------------------------------
(* Answers and the order of work. *)

(* A step of a request that leaves its requests, its replies and the place *)
(* where it is as they are keeps what is said of them; doubts only grow.   *)
LEMMA HandlingKept ==
  ASSUME Inv, UNCHANGED handling, doubtful \subseteq doubtful'
  PROVE  /\ DoubtInv' /\ PreviousInv' /\ OneReplyPerQuery' /\ RepliesAreTheirs'
<1> USE DEF Inv, Clean, Active, JobOf
<1>0. UNCHANGED <<pc, asked, rid, query, index, previous, replies>>
  BY DEF handling
<1> USE <1>0
<1>1. DoubtInv'
  BY DEF DoubtInv
<1>2. PreviousInv'
  BY DEF PreviousInv, Before, NoJob
<1>3. OneReplyPerQuery'
  BY DEF OneReplyPerQuery
<1>4. RepliesAreTheirs'
  BY DEF RepliesAreTheirs
<1> QED
  BY <1>1, <1>2, <1>3, <1>4

(* The initial states.                                                     *)
LEMMA InitInv == Init => Inv
<1> SUFFICES ASSUME Init PROVE Inv
  OBVIOUS
<1>1. PlaceInv /\ DoubtInv
  BY DEF Init, PlaceInv, DoubtInv, Active, Listening
<1>2. WorkInv /\ MailInv /\ GotInv /\ PreviousInv /\ WorkIsInOrder
  BY DEF Init, WorkInv, MailInv, GotInv, PreviousInv, WorkIsInOrder, Active
<1>3. OneReplyPerQuery /\ RepliesAreTheirs
  <2>1. \A n \in Request : query[n] = 1 /\ replies[n] = <<>>
    BY DEF Init
  <2> QED
    BY <2>1 DEF OneReplyPerQuery, RepliesAreTheirs
<1> QED
  BY <1>1, <1>2, <1>3, InitTypeOK DEF Inv

(* A request that comes: others at work under its id are in doubt, and so  *)
(* is it.                                                                  *)
LEMMA ServeInv ==
  ASSUME Inv, TypeOK', NEW n \in Request, NEW queries \in Queries, NEW id \in Rid,
         Serve(n, queries, id)
  PROVE  Inv'
<1> USE DEF Inv, Clean
<1>1. /\ asked' = [asked EXCEPT ![n] = queries]
      /\ rid' = [rid EXCEPT ![n] = id]
      /\ pc' = [pc EXCEPT ![n] = "inject"]
      /\ pc[n] = "new" /\ doubtful \subseteq doubtful'
      /\ \A other \in Request : Active(other) /\ rid[other] = id => id \in doubtful'
      /\ UNCHANGED <<query, index, previous, replies, got, mail, inbox>>
  BY DEF Serve, receiving, working
<1>2. /\ index[n] = 1 /\ previous[n] = NoJob /\ query[n] = 1 /\ replies[n] = <<>>
      /\ got[n] = NoMessage /\ mail[n] = {}
  BY <1>1 DEF PlaceInv, Active, Listening
<1>3. PlaceInv'
  <2>1. queries \in Seq(Nat \ {0}) /\ queries # <<>>
    BY QueriesAreChains
  <2>2. 1 \in 1..Len(queries) /\ 1 \in 1..queries[1]
    BY <2>1
  <2>3. asked'[n] = queries
    BY <1>1 DEF TypeOK
  <2> QED
    BY <1>1, <1>2, <2>2, <2>3 DEF PlaceInv, TypeOK, Active, Listening, Steps
<1>4. DoubtInv'
  BY <1>1 DEF DoubtInv, TypeOK, Active
<1>5. \A w \in inbox : w.job.of # n
  BY <1>1 DEF WorkInv
<1>6. \A w \in inbox : w \in Work /\ w.job.of \in Request
  BY DEF TypeOK, Work, Job
<1>7. WorkInv' /\ WorkIsInOrder'
  BY <1>1, <1>5, <1>6 DEF WorkInv, WorkIsInOrder, TypeOK, JobOf
<1>8. MailInv' /\ GotInv'
  BY <1>1, <1>2 DEF MailInv, GotInv, TypeOK, JobOf
<1>9. PreviousInv'
  <2>1. index'[n] = 1 /\ previous'[n] = NoJob
    BY <1>1, <1>2
  <2>2. previous'[n] = Before(JobOf(n)')
    BY <2>1 DEF Before, JobOf
  <2>3. \A i : JobOf(i)' = JobOf(i)
    BY <1>1 DEF JobOf
  <2> QED
    BY <1>1, <2>2, <2>3 DEF PreviousInv, TypeOK, Active
<1>10. OneReplyPerQuery'
  BY <1>1 DEF OneReplyPerQuery
<1>11. RepliesAreTheirs'
  BY <1>1, <1>2 DEF RepliesAreTheirs, TypeOK
<1> QED
  BY <1>3, <1>4, <1>7, <1>8, <1>9, <1>10, <1>11

(* A step that is injected is the only one of its request, unless the id   *)
(* is in doubt.                                                            *)
LEMMA InjectInv ==
  ASSUME Inv, TypeOK', NEW n \in Request, Inject(n)
  PROVE  Inv'
<1> USE DEF Inv, Clean
<1> DEFINE new == [rid |-> rid[n], job |-> JobOf(n), last |-> previous[n]]
<1>1. /\ pc[n] = "inject" /\ pc' = [pc EXCEPT ![n] = "await"]
      /\ inbox' = inbox \cup {new}
      /\ UNCHANGED <<asked, rid, query, index, previous, replies, got, mail, doubtful>>
  BY DEF Inject, receiving
<1>2. PlaceInv'
  BY <1>1 DEF PlaceInv, TypeOK, Active, Listening, Steps
<1>3. DoubtInv' /\ PreviousInv'
  BY <1>1 DEF DoubtInv, PreviousInv, TypeOK, Active, JobOf
<1>4. OneReplyPerQuery' /\ RepliesAreTheirs'
  BY <1>1 DEF OneReplyPerQuery, RepliesAreTheirs
<1>5. new.job.of = n /\ new.rid = rid[n] /\ new.last = previous[n]
      /\ new.job = JobOf(n) /\ new.job.index = index[n]
  BY DEF JobOf
<1>6. \A w \in inbox : w.job.of \in Request /\ w.rid = rid[w.job.of]
  BY DEF TypeOK, Work, Job, WorkInv
<1> HIDE DEF new
<1>7. WorkInv'
  BY <1>1, <1>5, <1>6 DEF WorkInv, TypeOK
<1>8. Clean(n) => got[n] = NoMessage
  BY <1>1 DEF GotInv
<1>9. WorkIsInOrder'
  <2>1. ASSUME Clean(n)
        PROVE  previous[n] = Before(JobOf(n))
    BY <1>1, <2>1 DEF PreviousInv, Active
  <2>2. ASSUME NEW w \in inbox, w.rid \notin doubtful
        PROVE  /\ pc'[w.job.of] = "await" /\ got[w.job.of] = NoMessage
               /\ w.job = JobOf(w.job.of)
               /\ w.last = Before(w.job)
    BY <1>1, <1>6, <2>2 DEF WorkIsInOrder, TypeOK
  <2>3. pc'[n] = "await"
    BY <1>1 DEF TypeOK
  <2>4. \A i : JobOf(i)' = JobOf(i)
    BY <1>1 DEF JobOf
  <2> QED
    BY <1>1, <1>5, <1>8, <2>1, <2>2, <2>3, <2>4 DEF WorkIsInOrder
<1>10. MailInv'
  <2>1. ASSUME NEW i \in Request, NEW m \in mail[i], Clean(i)
        PROVE  m.job = JobOf(i) /\ pc[i] = "await" /\ \A w \in inbox : w.job.of # i
    BY <2>1 DEF MailInv
  <2>2. \A i \in Request : \A m \in mail[i] : m.rid = rid[i] /\ m.kind # "timeout"
    BY DEF MailInv
  <2> QED
    BY <1>1, <1>5, <2>1, <2>2 DEF MailInv, TypeOK, JobOf
<1>11. GotInv'
  BY <1>1 DEF GotInv, TypeOK, JobOf
<1> QED
  BY <1>2, <1>3, <1>4, <1>7, <1>9, <1>10, <1>11

(* The answer to a step goes to the one request of its id that listens,    *)
(* which is the one that asked unless the id is in doubt.                  *)
LEMMA ProcessInv ==
  ASSUME Inv, TypeOK', NEW w \in inbox, Process(w)
  PROVE  Inv'
<1> USE DEF Inv, Clean
<1>1. inbox' = inbox \ {w} /\ UNCHANGED <<handling, got, doubtful>>
  BY DEF Process
<1>2. UNCHANGED <<pc, asked, rid, query, index, previous, replies, got, doubtful>>
  BY <1>1 DEF handling
<1>3. DoubtInv' /\ PreviousInv' /\ OneReplyPerQuery' /\ RepliesAreTheirs'
  BY <1>1, HandlingKept
<1>4. WorkInv' /\ GotInv' /\ WorkIsInOrder'
  <2>1. \A i : JobOf(i)' = JobOf(i)
    BY <1>2 DEF JobOf
  <2> QED
    BY <1>1, <1>2, <2>1 DEF WorkInv, GotInv, WorkIsInOrder
<1>5. ASSUME NEW i \in Request, NEW m \in mail'[i], m \notin mail[i]
      PROVE  /\ Listening(i) /\ m.rid = rid[i] /\ m.kind # "timeout"
             /\ m.rid = w.rid /\ m.job = w.job
  <2>0. mail' # mail
    BY <1>5
  <2>1. PICK kind \in {"answer", "error"} :
               Publish([kind |-> kind, rid |-> w.rid, job |-> w.job])
    BY <2>0 DEF Process
  <2> DEFINE new == [kind |-> kind, rid |-> w.rid, job |-> w.job]
  <2>2. new.rid = w.rid /\ new.job = w.job /\ new.kind # "timeout"
    OBVIOUS
  <2>3. mail' = [j \in Request |-> IF Listening(j) /\ new.rid = rid[j]
                                   THEN mail[j] \cup {new} ELSE mail[j]]
    BY <2>1 DEF Publish, Matches
  <2> HIDE DEF new
  <2>4. Listening(i) /\ new.rid = rid[i] /\ m = new
    BY <1>5, <2>3
  <2> QED
    BY <2>2, <2>4
<1>6. PlaceInv'
  <2>1. \A i \in Request : ~Listening(i) => mail'[i] = {}
    BY <1>5 DEF PlaceInv, TypeOK
  <2> QED
    BY <1>2, <2>1 DEF PlaceInv, Active, Listening, Steps
<1>7. MailInv'
  <2> SUFFICES ASSUME NEW i \in Request, NEW m \in mail'[i]
               PROVE  /\ m.rid = rid[i] /\ m.kind # "timeout"
                      /\ Clean(i) => /\ m.job = JobOf(i) /\ pc[i] = "await"
                                     /\ \A v \in inbox' : v.job.of # i
    BY <1>2 DEF MailInv, JobOf
  <2>1. CASE m \in mail[i]
    BY <1>1, <2>1 DEF MailInv
  <2>2. CASE /\ Listening(i) /\ m.rid = rid[i] /\ m.kind # "timeout"
             /\ m.rid = w.rid /\ m.job = w.job
    <3> SUFFICES ASSUME Clean(i)
                 PROVE  /\ m.job = JobOf(i) /\ pc[i] = "await"
                        /\ \A v \in inbox' : v.job.of # i
      BY <2>2
    <3>1. w.rid \notin doubtful /\ w.job.of \in Request /\ rid[w.job.of] = rid[i]
      BY <2>2 DEF TypeOK, Work, Job, WorkInv
    <3>2. /\ pc[w.job.of] = "await" /\ w.job = JobOf(w.job.of) /\ w.last = Before(w.job)
      BY <3>1 DEF WorkIsInOrder
    <3>3. w.job.of = i
      BY <2>2, <3>1, <3>2 DEF DoubtInv, Listening, Active
    <3>4. ASSUME NEW v \in inbox, v.job.of = i
          PROVE  v = w
      <4>1. v.rid = w.rid
        BY <2>2, <3>4 DEF WorkInv
      <4>2. v.job = JobOf(i) /\ v.last = Before(v.job)
        BY <3>1, <3>4, <4>1 DEF WorkIsInOrder
      <4>3. v.job = w.job /\ v.last = w.last
        BY <3>2, <3>3, <4>2
      <4>4. v \in Work /\ w \in Work
        BY DEF TypeOK
      <4> QED
        BY ONLY <4>1, <4>3, <4>4 DEF Work
    <3> QED
      BY <1>1, <2>2, <3>2, <3>3, <3>4
  <2> QED
    BY <1>5, <2>1, <2>2
<1> QED
  BY <1>3, <1>4, <1>6, <1>7

(* What a request takes for its step; a timeout puts its id in doubt.      *)
LEMMA SelectInv ==
  ASSUME Inv, TypeOK', NEW n \in Request, NEW m \in Message, Listening(n),
         Select(n, m), UNCHANGED <<handling, working>>, doubtful \subseteq doubtful',
         rid[n] \notin doubtful' =>
           /\ m.job = JobOf(n) /\ pc[n] = "await"
           /\ \A w \in inbox : w.job.of # n
  PROVE  Inv'
<1> USE DEF Inv, Clean
<1>1. /\ got' = [got EXCEPT ![n] = m] /\ mail' = [mail EXCEPT ![n] = {}]
      /\ UNCHANGED <<pc, asked, rid, query, index, previous, replies, inbox>>
  BY DEF Select, handling, working
<1>2. DoubtInv' /\ PreviousInv' /\ OneReplyPerQuery' /\ RepliesAreTheirs'
  BY HandlingKept
<1>3. got'[n] = m /\ mail'[n] = {} /\ m # NoMessage
  BY <1>1, MessageIsSomething DEF TypeOK
<1>4. \A i \in Request : i # n => got'[i] = got[i] /\ mail'[i] = mail[i]
  BY <1>1 DEF TypeOK
<1>5. \A i : JobOf(i)' = JobOf(i) /\ Active(i)' = Active(i)
  BY <1>1 DEF JobOf, Active
<1>6. PlaceInv'
  BY <1>1, <1>3, <1>4, <1>5 DEF PlaceInv, Listening, Steps
<1>7. WorkInv' /\ MailInv'
  BY <1>1, <1>3, <1>4, <1>5 DEF WorkInv, MailInv
<1>8. GotInv'
  BY <1>1, <1>3, <1>4, <1>5 DEF GotInv
<1>9. WorkIsInOrder'
  <2>1. ASSUME NEW w \in inbox, w.rid \notin doubtful'
        PROVE  w.job.of \in Request /\ w.job.of # n
    <3>1. w.job.of \in Request /\ w.rid = rid[w.job.of]
      BY DEF TypeOK, Work, Job, WorkInv
    <3> QED
      BY <2>1, <3>1
  <2> QED
    BY <1>1, <1>4, <1>5, <2>1 DEF WorkIsInOrder
<1> QED
  BY <1>2, <1>6, <1>7, <1>8, <1>9

(* A message taken is for the step that waits.                             *)
LEMMA TakeInv ==
  ASSUME Inv, TypeOK', NEW n \in Request, NEW m \in mail[n], Take(n, m)
  PROVE  Inv'
<1>1. m \in Message
  BY DEF Inv, TypeOK
<1>2. rid[n] \notin doubtful =>
        m.job = JobOf(n) /\ pc[n] = "await" /\ \A w \in inbox : w.job.of # n
  BY DEF Inv, MailInv, Clean
<1>3. Listening(n) /\ Select(n, m) /\ UNCHANGED <<handling, working, doubtful>>
  BY DEF Take
<1> QED
  BY <1>1, <1>2, <1>3, SelectInv

(* The error of a timeout is taken under an id in doubt.                   *)
LEMMA TimeOutInv ==
  ASSUME Inv, TypeOK', NEW n \in Request, TimeOut(n)
  PROVE  Inv'
<1> DEFINE m == [kind |-> "timeout", rid |-> rid[n], job |-> JobOf(n)]
<1>1. m \in Message
  BY JobOfType DEF Message, Inv, TypeOK
<1>2. /\ Listening(n) /\ Select(n, m) /\ UNCHANGED <<handling, working>>
      /\ doubtful' = doubtful \cup {rid[n]}
  BY DEF TimeOut
<1> HIDE DEF m
<1> QED
  BY <1>1, <1>2, SelectInv

(* A step that only tells times changes nothing of this.                   *)
LEMMA IdleInv ==
  ASSUME Inv, TypeOK', UNCHANGED <<handling, got, mail, inbox, doubtful>>
  PROVE  Inv'
<1> USE DEF Inv
<1>1. UNCHANGED <<pc, asked, rid, query, index, previous, replies, got, mail, inbox, doubtful>>
  BY DEF handling
<1>2. DoubtInv' /\ PreviousInv' /\ OneReplyPerQuery' /\ RepliesAreTheirs'
  BY HandlingKept
<1>3. \A i : /\ JobOf(i)' = JobOf(i) /\ Active(i)' = Active(i)
             /\ Listening(i)' = Listening(i) /\ Steps(i)' = Steps(i)
             /\ Clean(i)' = Clean(i)
  BY <1>1 DEF JobOf, Active, Listening, Steps, Clean
<1>4. PlaceInv' /\ WorkInv'
  BY <1>1, <1>3 DEF PlaceInv, WorkInv
<1>5. MailInv' /\ GotInv' /\ WorkIsInOrder'
  BY <1>1, <1>3 DEF MailInv, GotInv, WorkIsInOrder
<1> QED
  BY <1>2, <1>4, <1>5

(* A request that has taken a message has no other, and none of its steps  *)
(* is with a processor, unless its id is in doubt.                         *)
LEMMA ReceivedFacts ==
  ASSUME Inv, NEW n \in Request, Received(n)
  PROVE  /\ Active(n) /\ pc[n] # "new" /\ mail[n] = {}
         /\ Clean(n) => got[n].job = JobOf(n) /\ previous[n] = Before(JobOf(n))
         /\ \A w \in inbox : w.rid \notin doubtful => w.job.of # n
<1> USE DEF Inv
<1>1. Active(n) /\ pc[n] # "new" /\ mail[n] = {}
  BY DEF Received, Active, Listening, PlaceInv
<1>2. Clean(n) => got[n].job = JobOf(n) /\ previous[n] = Before(JobOf(n))
  BY <1>1 DEF Received, GotInv, PreviousInv
<1>3. \A w \in inbox : w.rid \notin doubtful => w.job.of # n
  BY DEF Received, WorkIsInOrder
<1> QED
  BY <1>1, <1>2, <1>3

(* A step of Handle that forgets what it took and moves its request keeps  *)
(* what is said of messages and of work.                                   *)
LEMMA MoveInv ==
  ASSUME Inv, TypeOK', NEW n \in Request, Received(n), Forget(n),
         UNCHANGED <<asked, rid, receiving, working, doubtful>>,
         NEW where \in {"inject", "done"}, pc' = [pc EXCEPT ![n] = where],
         \A i \in Request : i # n =>
           /\ query'[i] = query[i] /\ index'[i] = index[i]
           /\ previous'[i] = previous[i] /\ replies'[i] = replies[i]
  PROVE  DoubtInv' /\ WorkInv' /\ MailInv' /\ GotInv' /\ WorkIsInOrder'
<1> USE DEF Inv, Clean
<1>1. /\ got' = [got EXCEPT ![n] = NoMessage]
      /\ UNCHANGED <<asked, rid, mail, inbox, doubtful>>
  BY DEF Forget, receiving, working
<1>2. \A i \in Request : i # n => JobOf(i)' = JobOf(i)
  BY DEF JobOf
<1>3. \A w \in inbox : w.job.of \in Request /\ w.rid = rid[w.job.of]
  BY DEF TypeOK, Work, Job, WorkInv
<1>4. \A i \in Request : pc'[i] = IF i = n THEN where ELSE pc[i]
  BY DEF TypeOK
<1>5. DoubtInv'
  BY <1>1, <1>4, ReceivedFacts DEF DoubtInv, Active
<1>6. WorkInv'
  BY <1>1, <1>3, <1>4 DEF WorkInv
<1>7. MailInv'
  BY <1>1, <1>2, <1>4, ReceivedFacts DEF MailInv
<1>8. GotInv'
  BY <1>1, <1>2, <1>4 DEF GotInv, TypeOK
<1>9. WorkIsInOrder'
  <2> SUFFICES ASSUME NEW w \in inbox, w.rid \notin doubtful
               PROVE  /\ pc'[w.job.of] = "await" /\ got'[w.job.of] = NoMessage
                      /\ w.job = JobOf(w.job.of)' /\ w.last = Before(w.job)
    BY <1>1 DEF WorkIsInOrder
  <2>1. w.job.of \in Request /\ w.job.of # n
    BY <1>3, ReceivedFacts
  <2>2. /\ pc[w.job.of] = "await" /\ got[w.job.of] = NoMessage
        /\ w.job = JobOf(w.job.of) /\ w.last = Before(w.job)
    BY DEF WorkIsInOrder
  <2>3. got'[w.job.of] = got[w.job.of]
    BY <1>1, <2>1 DEF TypeOK
  <2> QED
    BY <1>2, <1>4, <2>1, <2>2, <2>3
<1> QED
  BY <1>5, <1>6, <1>7, <1>8, <1>9

(* The response of a step is kept for the next.                            *)
LEMMA ProceedInv ==
  ASSUME Inv, TypeOK', NEW n \in Request, Proceed(n)
  PROVE  Inv'
<1> USE DEF Inv, Clean
<1>1. /\ Received(n) /\ index[n] < Steps(n) /\ Forget(n)
      /\ previous' = [previous EXCEPT ![n] = got[n].job]
      /\ index' = [index EXCEPT ![n] = @ + 1]
      /\ pc' = [pc EXCEPT ![n] = "inject"]
      /\ UNCHANGED <<asked, rid, query, replies, receiving, working, doubtful>>
  BY DEF Proceed
<1>2. UNCHANGED <<mail, inbox>> /\ got' = [got EXCEPT ![n] = NoMessage]
  BY <1>1 DEF receiving, working, Forget
<1>3. DoubtInv' /\ WorkInv' /\ MailInv' /\ GotInv' /\ WorkIsInOrder'
  BY <1>1, MoveInv DEF TypeOK
<1>4. PlaceInv'
  <2>1. /\ asked[n] \in Queries /\ query[n] \in 1..Len(asked[n])
        /\ index[n] \in 1..Steps(n) /\ Steps(n) \in Nat
    BY <1>1, ReceivedFacts, StepsType DEF PlaceInv
  <2>2. index[n] + 1 \in 1..Steps(n)
    BY <1>1, <2>1
  <2> QED
    BY <1>1, <1>2, <2>1, <2>2, ReceivedFacts DEF PlaceInv, TypeOK, Active, Listening, Steps
<1>5. PreviousInv'
  <2>1. ASSUME Clean(n)
        PROVE  previous'[n] = Before(JobOf(n)')
    <3>1. previous'[n] = [of |-> n, query |-> query[n], index |-> index[n]]
      BY <1>1, <2>1, ReceivedFacts DEF TypeOK, JobOf
    <3>2. /\ index[n] \in Nat \ {0} /\ index'[n] = index[n] + 1
          /\ index'[n] # 1 /\ index'[n] - 1 = index[n]
      <4>1. index[n] \in Nat \ {0} /\ index'[n] = index[n] + 1
        BY <1>1 DEF TypeOK
      <4> QED
        BY ONLY <4>1
    <3>3. JobOf(n)' = [of |-> n, query |-> query[n], index |-> index'[n]]
      BY <1>1 DEF JobOf
    <3>4. Before(JobOf(n)') = [of |-> n, query |-> query[n], index |-> index'[n] - 1]
      BY <3>2, <3>3 DEF Before
    <3> QED
      BY ONLY <3>1, <3>2, <3>4
  <2>2. \A i \in Request : i # n => JobOf(i)' = JobOf(i) /\ previous'[i] = previous[i]
    BY <1>1 DEF JobOf, TypeOK
  <2>3. \A i \in Request : i # n => Active(i)' = Active(i)
    BY <1>1 DEF Active, TypeOK
  <2> QED
    BY <1>1, <2>1, <2>2, <2>3 DEF PreviousInv
<1>6. OneReplyPerQuery' /\ RepliesAreTheirs'
  BY <1>1 DEF OneReplyPerQuery, RepliesAreTheirs
<1> QED
  BY <1>3, <1>4, <1>5, <1>6

(* The answer of a query, from its last response or an error of a step.    *)
LEMMA AnswerInv ==
  ASSUME Inv, TypeOK', NEW n \in Request, Received(n),
         NEW kind \in {"data", "error"}, kind = "data" => index[n] = Steps(n),
         Write(n, kind), NextQuery(n)
  PROVE  Inv'
<1> USE DEF Inv, Clean
<1> DEFINE reply == [kind |-> kind, job |-> got[n].job]
           where == IF query[n] < Len(asked[n]) THEN "inject" ELSE "done"
<1>1. /\ query' = [query EXCEPT ![n] = @ + 1]
      /\ index' = [index EXCEPT ![n] = 1]
      /\ previous' = [previous EXCEPT ![n] = NoJob]
      /\ pc' = [pc EXCEPT ![n] = where] /\ Forget(n)
      /\ UNCHANGED <<asked, rid, receiving, working, doubtful>>
  BY DEF NextQuery
<1>2. replies' = [replies EXCEPT ![n] = Append(@, reply)]
  BY DEF Write
<1>3. /\ got[n] \in Message /\ reply \in Reply
      /\ reply.kind = kind /\ reply.job = got[n].job
  <2>1. got[n] \in Message
    BY DEF Received, TypeOK
  <2> QED
    BY <2>1, MessageIsSomething DEF Reply
<1>4. where \in {"inject", "done"} /\ (where = "inject" => query[n] < Len(asked[n]))
  OBVIOUS
<1> HIDE DEF reply, where
<1>5. UNCHANGED <<mail, inbox>> /\ got' = [got EXCEPT ![n] = NoMessage]
  BY <1>1 DEF receiving, working, Forget
<1>6. DoubtInv' /\ WorkInv' /\ MailInv' /\ GotInv' /\ WorkIsInOrder'
  <2>1. \A i \in Request : i # n =>
           /\ query'[i] = query[i] /\ index'[i] = index[i]
           /\ previous'[i] = previous[i] /\ replies'[i] = replies[i]
    BY <1>1, <1>2 DEF TypeOK
  <2> QED
    BY <1>1, <1>4, <2>1, MoveInv
<1>7. /\ asked[n] \in Queries /\ asked[n] \in Seq(Nat \ {0})
      /\ Len(asked[n]) \in Nat \ {0} /\ query[n] \in 1..Len(asked[n])
  BY ReceivedFacts, StepsType DEF PlaceInv
<1>8. PlaceInv'
  <2>1. where = "inject" =>
          /\ query[n] + 1 \in 1..Len(asked[n]) /\ 1 \in 1..asked[n][query[n] + 1]
    BY <1>4, <1>7
  <2>2. /\ query'[n] = query[n] + 1 /\ index'[n] = 1 /\ asked'[n] = asked[n]
        /\ pc'[n] = where /\ got'[n] = NoMessage /\ mail'[n] = {}
    <3>1. query'[n] = query[n] + 1 /\ index'[n] = 1 /\ asked'[n] = asked[n]
      BY <1>1 DEF TypeOK
    <3>2. pc'[n] = where /\ got'[n] = NoMessage
      BY <1>1, <1>5 DEF TypeOK
    <3> QED
      BY <1>5, <3>1, <3>2, ReceivedFacts
  <2>3. \A i \in Request : i # n =>
           /\ query'[i] = query[i] /\ index'[i] = index[i] /\ asked'[i] = asked[i]
           /\ previous'[i] = previous[i] /\ replies'[i] = replies[i]
           /\ pc'[i] = pc[i] /\ got'[i] = got[i] /\ mail'[i] = mail[i]
    BY <1>1, <1>2, <1>5 DEF TypeOK
  <2>4. \A i \in Request : i # n =>
           /\ Active(i)' = Active(i) /\ Listening(i)' = Listening(i)
           /\ Steps(i)' = Steps(i)
    BY <2>3 DEF Active, Listening, Steps
  <2>5. /\ Active(n)' <=> where = "inject"
        /\ Steps(n)' = asked[n][query[n] + 1]
        /\ where # "new"
    BY <1>4, <2>2 DEF Active, Steps
  <2> QED
    BY <1>4, <1>7, <2>1, <2>2, <2>3, <2>4, <2>5 DEF PlaceInv
<1>9. PreviousInv'
  <2>1. previous'[n] = Before(JobOf(n)')
    <3>1. index'[n] = 1 /\ previous'[n] = NoJob
      BY <1>1 DEF TypeOK
    <3> QED
      BY <3>1 DEF Before, JobOf
  <2>2. \A i \in Request : i # n =>
          /\ JobOf(i)' = JobOf(i) /\ previous'[i] = previous[i]
          /\ Active(i)' = Active(i)
    BY <1>1 DEF JobOf, Active, TypeOK
  <2> QED
    BY <1>1, <2>1, <2>2 DEF PreviousInv
<1>10. /\ replies[n] \in Seq(Reply) /\ Len(replies[n]) = query[n] - 1
       /\ replies'[n] = Append(replies[n], reply)
  BY <1>2 DEF TypeOK, OneReplyPerQuery
<1>11. OneReplyPerQuery'
  <2>1. Len(replies'[n]) = query[n]
    BY <1>3, <1>7, <1>10, Appended
  <2>2. \A i \in Request : i # n => replies'[i] = replies[i] /\ query'[i] = query[i]
    BY <1>1, <1>2 DEF TypeOK
  <2>3. query'[n] - 1 = query[n]
    BY <1>1, <1>7 DEF TypeOK
  <2> QED
    BY <2>1, <2>2, <2>3 DEF OneReplyPerQuery
<1>12. RepliesAreTheirs'
  <2>1. ASSUME Clean(n), NEW i \in DOMAIN replies'[n]
        PROVE  /\ replies'[n][i].job.of = n
               /\ replies'[n][i].job.query = i
               /\ replies'[n][i].kind = "data" => replies'[n][i].job.index = asked[n][i]
    <3>1. DOMAIN replies'[n] = 1..query[n]
      <4>1. DOMAIN replies'[n] = 1..(Len(replies[n]) + 1)
        BY <1>3, <1>10, Appended
      <4>2. Len(replies[n]) + 1 = query[n]
        BY <1>7, <1>10
      <4> QED
        BY <4>1, <4>2
    <3>2. CASE i = query[n]
      <4>1. replies'[n][i] = reply
        BY <1>3, <1>7, <1>10, <3>2, Appended
      <4>2. reply.job = JobOf(n)
        BY <1>3, <2>1, ReceivedFacts
      <4>3. /\ JobOf(n).of = n /\ JobOf(n).query = query[n] /\ JobOf(n).index = index[n]
        BY DEF JobOf
      <4> QED
        BY <1>3, <3>2, <4>1, <4>2, <4>3 DEF Steps
    <3>3. CASE i # query[n]
      <4>1. i \in 1..Len(replies[n])
        BY <1>7, <1>10, <3>1, <3>3
      <4>2. i \in DOMAIN replies[n] /\ replies'[n][i] = replies[n][i]
        BY <1>3, <1>10, <4>1, Appended
      <4> QED
        BY <2>1, <4>2 DEF RepliesAreTheirs
    <3> QED
      BY <3>2, <3>3
  <2>2. \A i \in Request : i # n => replies'[i] = replies[i]
    BY <1>2 DEF TypeOK
  <2> QED
    BY <1>1, <2>1, <2>2 DEF RepliesAreTheirs
<1> QED
  BY <1>6, <1>8, <1>9, <1>11, <1>12

(* Every step keeps the invariant.                                         *)
LEMMA NextInv == Inv /\ [Next]_vars => Inv'
<1> SUFFICES ASSUME Inv, [Next]_vars PROVE Inv'
  OBVIOUS
<1>0. TypeOK'
  BY NextTypeOK DEF Inv
<1>1. ASSUME NEW n \in Request, Proceed(n) PROVE Inv'
  BY <1>0, <1>1, ProceedInv
<1>2. ASSUME NEW n \in Request, Finish(n) PROVE Inv'
  BY <1>0, <1>2, AnswerInv DEF Finish
<1>3. ASSUME NEW n \in Request, Fail(n) PROVE Inv'
  BY <1>0, <1>3, AnswerInv DEF Fail
<1>4. ASSUME Refuse \/ Tick \/ UNCHANGED vars PROVE Inv'
  <2>1. UNCHANGED <<handling, got, mail, inbox, doubtful>>
    BY <1>4 DEF Refuse, Tick, vars, receiving, working
  <2> QED
    BY <1>0, <2>1, IdleInv
<1>5. ASSUME NEW n \in Request, Step(n) PROVE Inv'
  BY <1>0, <1>1, <1>2, <1>3, <1>5, InjectInv, TimeOutInv, TakeInv DEF Step
<1> QED
  BY <1>0, <1>4, <1>5, ServeInv, ProcessInv DEF Next

(* EveryQueryAnswered: a request is answered once per query.                   *)
THEOREM EveryQueryAnswered == Spec => []OneReplyPerQuery
<1>1. Inv => OneReplyPerQuery
  BY DEF Inv
<1> QED
  BY <1>1, InitInv, NextInv, PTL DEF Spec

(* RepliesCorrect: while no timeout and no second request meets its id, a  *)
(* request gets the answers to its own queries, in their order.            *)
THEOREM RepliesCorrect == Spec => []RepliesAreTheirs
<1>1. Inv => RepliesAreTheirs
  BY DEF Inv
<1> QED
  BY <1>1, InitInv, NextInv, PTL DEF Spec

(* WorkCorrect: under the same proviso no step is worked on after its      *)
(* request was answered, and each works on the response of the one before. *)
THEOREM WorkCorrect == Spec => []WorkIsInOrder
<1>1. Inv => WorkIsInOrder
  BY DEF Inv
<1> QED
  BY <1>1, InitInv, NextInv, PTL DEF Spec
=============================================================================
