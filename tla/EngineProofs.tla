---------------------------- MODULE EngineProofs ----------------------------
(***************************************************************************)
(* Proofs about Engine for any clients, registrars, documents, paths and   *)
(* requests, and with any failures: its types, and that a reply answers    *)
(* the queries of its request; and for one registrar, that what it         *)
(* registered is found and stays.                                          *)
(*                                                                         *)
(* RepliesMatchQueries is not inductive: it says nothing of a batch on its *)
(* way.  ServingInv adds that a request being served has no reply, that    *)
(* the answers gathered for it are fewer than the query it is at, and that *)
(* they are the answers to all the earlier queries, in order, unless one   *)
(* of these panicked; then the batch stays short for good.  OnTime says    *)
(* that without a panic the batch is not short, so that AnsweredOnce holds *)
(* when the last query completes it.                                       *)
(***************************************************************************)
EXTENDS Engine, TLAPS

ReplyFits(c) ==
  /\ Len(replies[c]) <= 1
  /\ \A i \in 1..Len(replies[c]) :
       /\ replies[c][i].of = Positions(Total(c))
       /\ Total(c) > 1 => replies[c][i].kind = "data"

BatchFits(c) ==
  /\ replies[c] = <<>>
  /\ at[c] <= Total(c)
  /\ Len(collected[c]) < at[c]
  /\ Len(collected[c]) = at[c] - 1 => collected[c] = Positions(at[c] - 1)

FitsFor(c) == IF pc[c] = "idle" THEN ReplyFits(c) ELSE BatchFits(c)
ServingInv == \A c \in Client : FitsFor(c)

OnTime(c) ==
  c \notin panicked =>
    IF pc[c] = "idle" THEN at[c] > 1 => Len(replies[c]) = 1
    ELSE Total(c) > 1 => Len(collected[c]) = at[c] - 1

BatchesOnTime == \A c \in Client : OnTime(c)

-----------------------------------------------------------------------------
(* The list of positions grows by its next position.                       *)
LEMMA NextPosition ==
  ASSUME NEW n \in Nat
  PROVE  Append(Positions(n), n + 1) = Positions(n + 1)
  BY DEF Positions

(* A function of sequences with an element appended to one of them. *)
LEMMA AppendedTo ==
  ASSUME NEW D, NEW S, NEW f \in [D -> Seq(S)], NEW d \in D, NEW x \in S
  PROVE  [f EXCEPT ![d] = Append(@, x)] \in [D -> Seq(S)]
  <1>1. Append(f[d], x) \in Seq(S)
    OBVIOUS
  <1> QED
    BY <1>1

(* The first element of a list. *)
LEMMA EmptyAppended ==
  ASSUME NEW x
  PROVE  Append(<<>>, x) = <<x>>
  OBVIOUS

(* What the writing of one answer and the move to the next query do to the *)
(* types of the variables they change.                                     *)
LEMMA AnswerTypes ==
  ASSUME TypeOK, NEW c \in Client, NEW kind \in {"data", "error"}, Answer(c, kind)
  PROVE  /\ at' \in [Client -> Nat \ {0}]
         /\ pc' \in [Client -> {"idle", "lookup", "serve", "handle"}]
         /\ route' \in [Client -> Router \cup {NoRouter}]
         /\ collected' \in [Client -> Seq(Nat)]
         /\ replies' \in [Client -> Seq(Reply)]
         /\ panicked' \subseteq Client
  <1> USE DEF TypeOK
  <1>1. at[c] \in Nat \ {0}
    OBVIOUS
  <1>2. /\ at' \in [Client -> Nat \ {0}]
        /\ pc' \in [Client -> {"idle", "lookup", "serve", "handle"}]
        /\ route' \in [Client -> Router \cup {NoRouter}]
    BY <1>1 DEF Answer, NextQuery
  <1>3. panicked' \subseteq Client
    <2>1. \/ panicked' = panicked
          \/ panicked' = panicked \cup {c}
      BY DEF Answer, Write, Deliver
    <2> QED
      BY <2>1
  <1>4. CASE Total(c) > 1
    <2> DEFINE gathered == Append(collected[c], at[c])
    <2>1. gathered \in Seq(Nat)
      BY <1>1
    <2>2. collected' = [collected EXCEPT ![c] = gathered]
      BY <1>4 DEF Answer, Write
    <2>3. collected' \in [Client -> Seq(Nat)]
      BY <2>1, <2>2
    <2>4. [kind |-> "data", of |-> gathered] \in Reply
      BY <2>1 DEF Reply
    <2>5. \/ replies' = [replies EXCEPT ![c] = Append(@, [kind |-> "data", of |-> gathered])]
          \/ replies' = replies
      BY <1>4 DEF Answer, Write, Deliver
    <2>6. replies' \in [Client -> Seq(Reply)]
      <3>1. replies \in [Client -> Seq(Reply)]
        OBVIOUS
      <3>2. [replies EXCEPT ![c] = Append(@, [kind |-> "data", of |-> gathered])]
              \in [Client -> Seq(Reply)]
        BY ONLY <2>4, <3>1, AppendedTo
      <3> QED
        BY <2>5, <3>1, <3>2
    <2> QED
      BY <1>2, <1>3, <2>3, <2>6
  <1>5. CASE ~(Total(c) > 1)
    <2>1. [kind |-> kind, of |-> <<at[c]>>] \in Reply
      BY <1>1 DEF Reply
    <2>2. \/ replies' = [replies EXCEPT ![c] = Append(@, [kind |-> kind, of |-> <<at[c]>>])]
          \/ replies' = replies
      BY <1>5 DEF Answer, Write, Deliver
    <2>3. replies' \in [Client -> Seq(Reply)]
      <3>1. replies \in [Client -> Seq(Reply)]
        OBVIOUS
      <3>2. [replies EXCEPT ![c] = Append(@, [kind |-> kind, of |-> <<at[c]>>])]
              \in [Client -> Seq(Reply)]
        BY ONLY <2>1, <3>1, AppendedTo
      <3> QED
        BY <2>2, <3>1, <3>2
    <2>4. collected' = collected
      BY <1>5 DEF Answer, Write
    <2> QED
      BY <1>2, <1>3, <2>3, <2>4
  <1> QED
    BY <1>4, <1>5

(* The same for a query that is passed over because its document panicked. *)
LEMMA NextQueryTypes ==
  ASSUME TypeOK, NEW c \in Client, NextQuery(c)
  PROVE  /\ at' \in [Client -> Nat \ {0}]
         /\ pc' \in [Client -> {"idle", "lookup", "serve", "handle"}]
         /\ route' \in [Client -> Router \cup {NoRouter}]
  BY DEF TypeOK, NextQuery

(* The registration of a document keeps the types. *)
LEMMA RegistrationTypes ==
  ASSUME TypeOK, Registration
  PROVE  TypeOK'
  <1> USE DEF TypeOK
  <1>1. PICK p \in Registrar : \/ \E j \in Job : LookRoute(p, j)
                               \/ MakeRoute(p) \/ LookDoc(p) \/ PutDoc(p)
    BY DEF Registration
  <1>2. job[p] \in Job
    OBVIOUS
  <1>3. <<job[p].root, job[p].sub>> \in Root \X Sub
    BY <1>2 DEF Job
  <1>4. CASE \E j \in Job : LookRoute(p, j)
    <2>1. PICK j \in Job : LookRoute(p, j)
      BY <1>4
    <2>2. routers[j.root] \in Router \cup {NoRouter}
      BY DEF Job
    <2>3. /\ job' \in [Registrar -> Job]
          /\ router' \in [Registrar -> Router \cup {NoRouter}]
          /\ rpc' \in [Registrar -> {"idle", "makeRoute", "lookDoc", "putDoc"}]
      BY <2>1, <2>2 DEF LookRoute
    <2> QED
      BY <2>1, <2>3 DEF LookRoute, routes, serving
  <1>5. CASE MakeRoute(p)
    <2>1. made' \in Router /\ made' \in 0..MaxRouters
      BY <1>5, RoutersAreCounted DEF MakeRoute, Router
    <2>2. /\ routers' \in [Root -> Router \cup {NoRouter}]
          /\ router' \in [Registrar -> Router \cup {NoRouter}]
          /\ rpc' \in [Registrar -> {"idle", "makeRoute", "lookDoc", "putDoc"}]
      BY <1>5, <2>1 DEF MakeRoute
    <2> QED
      BY <1>5, <2>1, <2>2 DEF MakeRoute, serving
  <1>6. CASE LookDoc(p)
    <2>1. rpc' \in [Registrar -> {"idle", "makeRoute", "lookDoc", "putDoc"}]
      BY <1>6 DEF LookDoc
    <2>2. registered' \subseteq Root \X Sub
      BY <1>3, <1>6 DEF LookDoc, Returned
    <2> QED
      BY <1>6, <2>1, <2>2 DEF LookDoc, routes, serving
  <1>7. CASE PutDoc(p)
    <2>1. \A d \in Router : [documents[d] EXCEPT ![job[p].sub] = job[p].doc]
                               \in [Sub -> Doc \cup {NoDoc}]
      BY <1>2 DEF Job
    <2>2. documents' \in [Router -> [Sub -> Doc \cup {NoDoc}]]
      BY <1>7, <2>1 DEF PutDoc
    <2>3. rpc' \in [Registrar -> {"idle", "makeRoute", "lookDoc", "putDoc"}]
      BY <1>7 DEF PutDoc
    <2>4. registered' \subseteq Root \X Sub
      BY <1>3, <1>7 DEF PutDoc, Returned
    <2> QED
      BY <1>7, <2>2, <2>3, <2>4 DEF PutDoc, serving
  <1> QED
    BY <1>1, <1>4, <1>5, <1>6, <1>7

(* Serving a request keeps the types; that the current query is one of the *)
(* request, so that its path has a root, is part of ServingInv.            *)
LEMMA ServingTypes ==
  ASSUME TypeOK, ServingInv, Serving
  PROVE  TypeOK'
  <1> USE DEF TypeOK
  <1>1. PICK c \in Client : \/ ServeNothing(c)
                            \/ \E queries \in Requests : Serve(c, queries)
                            \/ Step(c)
    BY DEF Serving
  <1>2. CASE ServeNothing(c)
    <2>1. [kind |-> "error", of |-> <<>>] \in Reply
      BY DEF Reply
    <2>2. \/ replies' = [replies EXCEPT ![c] = <<[kind |-> "error", of |-> <<>>]>>]
          \/ replies' = [replies EXCEPT ![c] = <<>>]
      BY <1>2 DEF ServeNothing
    <2>3. replies' \in [Client -> Seq(Reply)]
      <3>1. /\ <<[kind |-> "error", of |-> <<>>]>> \in Seq(Reply)
            /\ <<>> \in Seq(Reply)
        BY <2>1
      <3>2. replies \in [Client -> Seq(Reply)]
        OBVIOUS
      <3> QED
        BY ONLY <2>2, <3>1, <3>2
    <2>4. /\ request' \in [Client -> Seq(Query)]
          /\ at' \in [Client -> Nat \ {0}]
          /\ collected' \in [Client -> Seq(Nat)]
          /\ panicked' \subseteq Client
      BY <1>2 DEF ServeNothing, Start
    <2> QED
      BY <1>2, <2>3, <2>4 DEF ServeNothing, Start, routes, registering
  <1>3. CASE \E queries \in Requests : Serve(c, queries)
    <2>1. PICK queries \in Requests : Serve(c, queries)
      BY <1>3
    <2>2. queries \in Seq(Query)
      BY RequestsAreQueries
    <2>3. /\ request' \in [Client -> Seq(Query)]
          /\ at' \in [Client -> Nat \ {0}]
          /\ collected' \in [Client -> Seq(Nat)]
          /\ replies' \in [Client -> Seq(Reply)]
          /\ panicked' \subseteq Client
          /\ pc' \in [Client -> {"idle", "lookup", "serve", "handle"}]
      BY <2>1, <2>2 DEF Serve, Start
    <2> QED
      BY <2>1, <2>3 DEF Serve, Start, routes, registering
  <1>4. CASE Refuse(c)
    BY <1>4, AnswerTypes DEF Refuse, routes, registering
  <1>5. CASE Lookup(c)
    <2>1. request[c][at[c]].root \in Root
      <3>1. request[c] \in Seq(Query) /\ at[c] \in Nat \ {0}
        OBVIOUS
      <3>2. at[c] <= Len(request[c])
        BY <1>5 DEF Lookup, ServingInv, FitsFor, BatchFits, Total
      <3>3. request[c][at[c]] \in Query
        BY <3>1, <3>2
      <3> QED
        BY <3>3 DEF Query
    <2> QED
      BY <1>5, <2>1 DEF Lookup, RouteOf, QueryOf, routes, registering
  <1>6. CASE RefuseSub(c)
    BY <1>6, AnswerTypes DEF RefuseSub, routes, registering
  <1>7. CASE Generate(c)
    <2>1. pc' \in [Client -> {"idle", "lookup", "serve", "handle"}]
      BY <1>7 DEF Generate
    <2> QED
      BY <1>7, <2>1 DEF Generate, routes, registering
  <1>8. CASE Handle(c)
    <2>1. PICK kind \in {"data", "error"} : Answer(c, kind)
      BY <1>8 DEF Handle
    <2> QED
      BY <1>8, <2>1, AnswerTypes DEF Handle, routes, registering
  <1>9. CASE HandlePanics(c)
    BY <1>9, NextQueryTypes DEF HandlePanics, routes, registering
  <1> QED
    BY <1>1, <1>2, <1>3, <1>4, <1>5, <1>6, <1>7, <1>8, <1>9 DEF Step

-----------------------------------------------------------------------------
(* The answer to the last query of a request completes a reply that fits,  *)
(* and any other one leaves the batch fitting.                             *)
LEMMA AnswerFits ==
  ASSUME TypeOK, ServingInv, NEW c \in Client, NEW kind \in {"data", "error"},
         pc[c] # "idle", Answer(c, kind), request' = request
  PROVE  FitsFor(c)'
  <1> USE DEF TypeOK
  <1>1. /\ replies[c] = <<>> /\ at[c] <= Total(c) /\ Len(collected[c]) < at[c]
        /\ Len(collected[c]) = at[c] - 1 => collected[c] = Positions(at[c] - 1)
    BY DEF ServingInv, FitsFor, BatchFits
  <1>2. at[c] \in Nat \ {0} /\ Total(c) \in Nat /\ collected[c] \in Seq(Nat)
    BY DEF Total
  <1>3. Total(c)' = Total(c)
    BY DEF Total
  <1>4. at'[c] = at[c] + 1 /\ pc'[c] = IF at[c] < Total(c) THEN "lookup" ELSE "idle"
    BY DEF Answer, NextQuery
  <1>5. CASE Total(c) > 1
    <2> DEFINE gathered == Append(collected[c], at[c])
    <2>1. collected'[c] = gathered
      BY <1>5 DEF Answer, Write
    <2>2. Len(gathered) = Len(collected[c]) + 1 /\ Len(collected[c]) \in Nat
      BY <1>2
    <2>3. Len(gathered) = at[c] => gathered = Positions(at[c])
      <3>1. SUFFICES ASSUME Len(gathered) = at[c] PROVE gathered = Positions(at[c])
        OBVIOUS
      <3>2. collected[c] = Positions(at[c] - 1)
        BY <1>1, <1>2, <2>2, <3>1
      <3>3. at[c] - 1 \in Nat /\ (at[c] - 1) + 1 = at[c]
        BY <1>2
      <3>4. Append(Positions(at[c] - 1), (at[c] - 1) + 1) = Positions((at[c] - 1) + 1)
        BY <3>3, NextPosition
      <3> QED
        BY <3>2, <3>3, <3>4
    <2>4. CASE at[c] < Total(c)
      <3>1. ~(Len(gathered) >= Total(c))
        BY <1>1, <1>2, <2>2, <2>4
      <3>2. replies' = replies
        BY <1>5, <3>1 DEF Answer, Write
      <3>3. BatchFits(c)'
        BY <1>1, <1>2, <1>3, <1>4, <2>1, <2>2, <2>3, <2>4, <3>2 DEF BatchFits
      <3> QED
        BY <1>4, <2>4, <3>3 DEF FitsFor
    <2>5. CASE ~(at[c] < Total(c))
      <3>1. at[c] = Total(c) /\ pc'[c] = "idle"
        BY <1>1, <1>2, <1>4, <2>5
      <3>2. CASE Len(gathered) >= Total(c)
        <4>1. gathered = Positions(Total(c))
          BY <1>1, <1>2, <2>2, <2>3, <3>1, <3>2
        <4>2. \/ replies' = [replies EXCEPT ![c] = Append(@, [kind |-> "data", of |-> gathered])]
              \/ replies' = replies
          BY <1>5, <3>2 DEF Answer, Write, Deliver
        <4>3. \/ replies'[c] = <<[kind |-> "data", of |-> gathered]>>
              \/ replies'[c] = <<>>
          BY <1>1, <4>2, EmptyAppended
        <4>4. ReplyFits(c)'
          <5>1. CASE replies'[c] = <<>>
            BY <5>1 DEF ReplyFits
          <5>2. CASE replies'[c] = <<[kind |-> "data", of |-> gathered]>>
            BY <1>3, <4>1, <5>2 DEF ReplyFits
          <5> QED
            BY <4>3, <5>1, <5>2
        <4> QED
          BY <3>1, <4>4 DEF FitsFor
      <3>3. CASE ~(Len(gathered) >= Total(c))
        <4>1. replies' = replies
          BY <1>5, <3>3 DEF Answer, Write
        <4>2. ReplyFits(c)'
          BY <1>1, <4>1 DEF ReplyFits
        <4> QED
          BY <3>1, <4>2 DEF FitsFor
      <3> QED
        BY <3>2, <3>3
    <2> QED
      BY <2>4, <2>5
  <1>6. CASE ~(Total(c) > 1)
    <2>1. Total(c) = 1 /\ at[c] = 1 /\ pc'[c] = "idle"
      BY <1>1, <1>2, <1>4, <1>6
    <2>2. \/ replies'[c] = <<[kind |-> kind, of |-> <<at[c]>>]>>
          \/ replies'[c] = <<>>
      <3>1. \/ replies' = [replies EXCEPT ![c] = Append(@, [kind |-> kind, of |-> <<at[c]>>])]
            \/ replies' = replies
        BY <1>6 DEF Answer, Write, Deliver
      <3> QED
        BY <1>1, <3>1, EmptyAppended
    <2>3. <<at[c]>> = Positions(1)
      BY <2>1 DEF Positions
    <2>4. ReplyFits(c)'
      <3>1. CASE replies'[c] = <<>>
        BY <3>1 DEF ReplyFits
      <3>2. CASE replies'[c] = <<[kind |-> kind, of |-> <<at[c]>>]>>
        BY <1>3, <2>1, <2>3, <3>2 DEF ReplyFits
      <3> QED
        BY <2>2, <3>1, <3>2
    <2> QED
      BY <2>1, <2>4 DEF FitsFor
  <1> QED
    BY <1>5, <1>6

(* A step of one client leaves what another one is served with. *)
LEMMA OthersFit ==
  ASSUME ServingInv, NEW c \in Client, FitsFor(c)',
         \A b \in Client \ {c} : /\ pc'[b] = pc[b] /\ request'[b] = request[b]
                                 /\ at'[b] = at[b] /\ collected'[b] = collected[b]
                                 /\ replies'[b] = replies[b]
  PROVE  ServingInv'
  <1>1. SUFFICES ASSUME NEW b \in Client \ {c} PROVE FitsFor(b)'
    BY DEF ServingInv
  <1>2. FitsFor(b)
    BY DEF ServingInv
  <1> QED
    BY <1>2 DEF FitsFor, ReplyFits, BatchFits, Total

(* Every step keeps ServingInv. *)
LEMMA ServingStep ==
  ASSUME TypeOK, ServingInv, [Next]_vars
  PROVE  ServingInv'
  <1> USE DEF TypeOK
  <1>1. CASE UNCHANGED <<pc, request, at, collected, replies>>
    BY <1>1 DEF ServingInv, FitsFor, ReplyFits, BatchFits, Total
  <1>2. CASE Serving
    <2>1. PICK c \in Client : \/ ServeNothing(c)
                              \/ \E queries \in Requests : Serve(c, queries)
                              \/ Step(c)
      BY <1>2 DEF Serving
    <2>2. CASE ServeNothing(c)
      <3>1. /\ request'[c] = <<>> /\ pc'[c] = "idle"
            /\ \/ replies'[c] = <<[kind |-> "error", of |-> <<>>]>>
               \/ replies'[c] = <<>>
        BY <2>2 DEF ServeNothing, Start
      <3>2. Positions(0) = <<>>
        BY DEF Positions
      <3>3. ReplyFits(c)'
        <4>1. CASE replies'[c] = <<>>
          BY <4>1 DEF ReplyFits
        <4>2. CASE replies'[c] = <<[kind |-> "error", of |-> <<>>]>>
          <5>1. Total(c)' = 0
            BY <3>1 DEF Total
          <5> QED
            BY <3>2, <4>2, <5>1 DEF ReplyFits
        <4> QED
          BY <3>1, <4>1, <4>2
      <3>4. FitsFor(c)'
        BY <3>1, <3>3 DEF FitsFor
      <3> QED
        BY <2>2, <3>4, OthersFit DEF ServeNothing, Start
    <2>3. CASE \E queries \in Requests : Serve(c, queries)
      <3>1. PICK queries \in Requests : Serve(c, queries)
        BY <2>3
      <3>2. queries \in Seq(Query) /\ Len(queries) >= 1
        BY <3>1, RequestsAreQueries DEF Serve
      <3>3. /\ request'[c] = queries /\ pc'[c] = "lookup" /\ at'[c] = 1
            /\ collected'[c] = <<>> /\ replies'[c] = <<>>
        BY <3>1 DEF Serve, Start
      <3>4. Positions(0) = <<>>
        BY DEF Positions
      <3>5. FitsFor(c)'
        BY <3>2, <3>3, <3>4 DEF FitsFor, BatchFits, Total
      <3> QED
        BY <3>1, <3>5, OthersFit DEF Serve, Start
    <2>4. ASSUME NEW kind \in {"data", "error"}, pc[c] # "idle", Answer(c, kind),
                 request' = request
          PROVE  ServingInv'
      <3>1. FitsFor(c)'
        BY <2>4, AnswerFits
      <3>2. \A b \in Client \ {c} : /\ pc'[b] = pc[b] /\ at'[b] = at[b]
                                    /\ collected'[b] = collected[b]
                                    /\ replies'[b] = replies[b]
        BY <2>4 DEF Answer, Write, Deliver, NextQuery
      <3> QED
        BY <2>4, <3>1, <3>2, OthersFit
    <2>5. CASE Refuse(c)
      BY <2>4, <2>5 DEF Refuse
    <2>6. CASE Lookup(c)
      <3>1. FitsFor(c)'
        BY <2>6 DEF Lookup, ServingInv, FitsFor, BatchFits, Total
      <3> QED
        BY <2>6, <3>1, OthersFit DEF Lookup
    <2>7. CASE RefuseSub(c)
      BY <2>4, <2>7 DEF RefuseSub
    <2>8. CASE Generate(c)
      <3>1. FitsFor(c)'
        BY <2>8 DEF Generate, ServingInv, FitsFor, BatchFits, Total
      <3> QED
        BY <2>8, <3>1, OthersFit DEF Generate
    <2>9. CASE Handle(c)
      BY <2>4, <2>9 DEF Handle
    <2>10. CASE HandlePanics(c)
      <3>1. pc[c] # "idle" /\ NextQuery(c) /\ UNCHANGED <<request, collected, replies>>
        BY <2>10 DEF HandlePanics
      <3>2. BatchFits(c)
        BY <3>1 DEF ServingInv, FitsFor
      <3>3. at[c] \in Nat \ {0} /\ Total(c) \in Nat /\ Len(collected[c]) \in Nat
        BY DEF Total
      <3>4. /\ at'[c] = at[c] + 1
            /\ pc'[c] = IF at[c] < Total(c) THEN "lookup" ELSE "idle"
        BY <3>1 DEF NextQuery
      <3>5. FitsFor(c)'
        <4>1. CASE at[c] < Total(c)
          <5>1. BatchFits(c)'
            BY <3>1, <3>2, <3>3, <3>4, <4>1 DEF BatchFits, Total
          <5> QED
            BY <3>4, <4>1, <5>1 DEF FitsFor
        <4>2. CASE ~(at[c] < Total(c))
          <5>1. ReplyFits(c)'
            BY <3>1, <3>2 DEF BatchFits, ReplyFits
          <5> QED
            BY <3>4, <4>2, <5>1 DEF FitsFor
        <4> QED
          BY <4>1, <4>2
      <3> QED
        BY <3>1, <3>5, OthersFit DEF NextQuery
    <2> QED
      BY <2>1, <2>2, <2>3, <2>5, <2>6, <2>7, <2>8, <2>9, <2>10 DEF Step
  <1>3. CASE Registration
    BY <1>1, <1>3 DEF Registration, LookRoute, MakeRoute, LookDoc, PutDoc, serving
  <1>4. CASE UNCHANGED vars
    BY <1>1, <1>4 DEF vars, serving
  <1> QED
    BY <1>2, <1>3, <1>4 DEF Next

(* The writing of an answer takes an unpanicked batch one query further,   *)
(* and the last one completes it.                                          *)
LEMMA AnswerOnTime ==
  ASSUME TypeOK, ServingInv, BatchesOnTime, NEW c \in Client,
         NEW kind \in {"data", "error"}, pc[c] # "idle", Answer(c, kind),
         request' = request
  PROVE  OnTime(c)'
  <1> USE DEF TypeOK
  <1>1. SUFFICES ASSUME c \notin panicked'
                 PROVE  IF pc'[c] = "idle" THEN at'[c] > 1 => Len(replies'[c]) = 1
                        ELSE Total(c)' > 1 => Len(collected'[c]) = at'[c] - 1
    BY DEF OnTime
  <1>2. c \notin panicked
    <2>1. panicked \subseteq panicked'
      BY DEF Answer, Write, Deliver
    <2> QED
      BY <1>1, <2>1
  <1>3. replies[c] = <<>> /\ at[c] <= Total(c)
    BY DEF ServingInv, FitsFor, BatchFits
  <1>4. Total(c) > 1 => Len(collected[c]) = at[c] - 1
    BY <1>2 DEF BatchesOnTime, OnTime
  <1>5. at[c] \in Nat \ {0} /\ Total(c) \in Nat /\ collected[c] \in Seq(Nat)
    BY DEF Total
  <1>6. at'[c] = at[c] + 1 /\ pc'[c] = IF at[c] < Total(c) THEN "lookup" ELSE "idle"
    BY DEF Answer, NextQuery
  <1>7. Total(c)' = Total(c)
    BY DEF Total
  <1>8. ASSUME NEW reply, Deliver(c, reply)
        PROVE  Len(replies'[c]) = 1
    <2>1. replies' = [replies EXCEPT ![c] = Append(@, reply)]
      BY <1>1, <1>8 DEF Deliver
    <2>2. replies'[c] = <<reply>>
      BY <1>3, <2>1, EmptyAppended
    <2> QED
      BY <2>2
  <1>9. CASE Total(c) > 1
    <2> DEFINE gathered == Append(collected[c], at[c])
    <2>1. collected'[c] = gathered /\ Len(gathered) = at[c]
      BY <1>4, <1>5, <1>9 DEF Answer, Write
    <2>2. CASE at[c] < Total(c)
      BY <1>5, <1>6, <2>1, <2>2
    <2>3. CASE ~(at[c] < Total(c))
      <3>1. Len(gathered) >= Total(c)
        BY <1>5, <2>1, <2>3
      <3>2. Deliver(c, [kind |-> "data", of |-> gathered])
        BY <1>9, <3>1 DEF Answer, Write
      <3>3. Len(replies'[c]) = 1
        BY <1>8, <3>2
      <3> QED
        BY <1>6, <2>3, <3>3
    <2> QED
      BY <2>2, <2>3
  <1>10. CASE ~(Total(c) > 1)
    <2>1. pc'[c] = "idle"
      BY <1>3, <1>5, <1>6, <1>10
    <2>2. Deliver(c, [kind |-> kind, of |-> <<at[c]>>])
      BY <1>10 DEF Answer, Write
    <2>3. Len(replies'[c]) = 1
      BY <1>8, <2>2
    <2> QED
      BY <2>1, <2>3
  <1> QED
    BY <1>9, <1>10

(* Another client's batch is as long as before. *)
LEMMA OthersOnTime ==
  ASSUME BatchesOnTime, NEW c \in Client, OnTime(c)',
         \A b \in Client \ {c} : /\ pc'[b] = pc[b] /\ request'[b] = request[b]
                                 /\ at'[b] = at[b] /\ collected'[b] = collected[b]
                                 /\ replies'[b] = replies[b]
                                 /\ b \in panicked' <=> b \in panicked
  PROVE  BatchesOnTime'
  <1>1. SUFFICES ASSUME NEW b \in Client \ {c} PROVE OnTime(b)'
    BY DEF BatchesOnTime
  <1>2. OnTime(b)
    BY DEF BatchesOnTime
  <1> QED
    BY <1>2 DEF OnTime, Total

(* Every step keeps the batches as long as they should be. *)
LEMMA OnTimeStep ==
  ASSUME TypeOK, ServingInv, BatchesOnTime, [Next]_vars
  PROVE  BatchesOnTime'
  <1> USE DEF TypeOK
  <1>1. CASE UNCHANGED serving
    BY <1>1 DEF serving, BatchesOnTime, OnTime, Total
  <1>2. CASE Serving
    <2>1. PICK c \in Client : \/ ServeNothing(c)
                              \/ \E queries \in Requests : Serve(c, queries)
                              \/ Step(c)
      BY <1>2 DEF Serving
    <2>2. CASE ServeNothing(c)
      <3>1. at'[c] = 1 /\ pc'[c] = "idle"
        BY <2>2 DEF ServeNothing, Start
      <3>2. OnTime(c)'
        BY <3>1 DEF OnTime
      <3> QED
        BY <2>2, <3>2, OthersOnTime DEF ServeNothing, Start
    <2>3. CASE \E queries \in Requests : Serve(c, queries)
      <3>1. PICK queries \in Requests : Serve(c, queries)
        BY <2>3
      <3>2. pc'[c] = "lookup" /\ at'[c] = 1 /\ collected'[c] = <<>>
        BY <3>1 DEF Serve, Start
      <3>3. OnTime(c)'
        BY <3>2 DEF OnTime
      <3> QED
        BY <3>1, <3>3, OthersOnTime DEF Serve, Start
    <2>4. ASSUME NEW kind \in {"data", "error"}, pc[c] # "idle", Answer(c, kind),
                 request' = request
          PROVE  BatchesOnTime'
      <3>1. OnTime(c)'
        BY <2>4, AnswerOnTime
      <3>2. \A b \in Client \ {c} : /\ pc'[b] = pc[b] /\ at'[b] = at[b]
                                    /\ collected'[b] = collected[b]
                                    /\ replies'[b] = replies[b]
        BY <2>4 DEF Answer, Write, Deliver, NextQuery
      <3>3. \A b \in Client \ {c} : b \in panicked' <=> b \in panicked
        BY <2>4 DEF Answer, Write, Deliver
      <3> QED
        BY <2>4, <3>1, <3>2, <3>3, OthersOnTime
    <2>5. CASE Refuse(c)
      BY <2>4, <2>5 DEF Refuse
    <2>6. CASE Lookup(c)
      <3>1. OnTime(c)'
        BY <2>6 DEF Lookup, BatchesOnTime, OnTime, Total
      <3> QED
        BY <2>6, <3>1, OthersOnTime DEF Lookup
    <2>7. CASE RefuseSub(c)
      BY <2>4, <2>7 DEF RefuseSub
    <2>8. CASE Generate(c)
      <3>1. OnTime(c)'
        BY <2>8 DEF Generate, BatchesOnTime, OnTime, Total
      <3> QED
        BY <2>8, <3>1, OthersOnTime DEF Generate
    <2>9. CASE Handle(c)
      BY <2>4, <2>9 DEF Handle
    <2>10. CASE HandlePanics(c)
      <3>1. OnTime(c)'
        BY <2>10 DEF HandlePanics, OnTime
      <3> QED
        BY <2>10, <3>1, OthersOnTime DEF HandlePanics, NextQuery
    <2> QED
      BY <2>1, <2>2, <2>3, <2>5, <2>6, <2>7, <2>8, <2>9, <2>10 DEF Step
  <1>3. CASE Registration
    BY <1>1, <1>3 DEF Registration, LookRoute, MakeRoute, LookDoc, PutDoc
  <1>4. CASE UNCHANGED vars
    BY <1>1, <1>4 DEF vars
  <1> QED
    BY <1>2, <1>3, <1>4 DEF Next

(* The invariant holds in the initial states ... *)
LEMMA ServingInit == Init => TypeOK /\ ServingInv /\ BatchesOnTime
  <1> SUFFICES ASSUME Init PROVE TypeOK /\ ServingInv /\ BatchesOnTime
    OBVIOUS
  <1>1. (CHOOSE j \in Job : TRUE) \in Job
    <2>1. PICK r \in Root, s \in Sub, d \in Doc : TRUE
      BY PathsExist
    <2>2. [root |-> r, sub |-> s, doc |-> d] \in Job
      BY DEF Job
    <2> QED
      BY <2>2
  <1>2. TypeOK
    <2>1. job \in [Registrar -> Job]
      BY <1>1 DEF Init
    <2>2. made \in 0..MaxRouters
      BY RoutersAreCounted DEF Init
    <2>3. /\ routers \in [Root -> Router \cup {NoRouter}]
          /\ documents \in [Router -> [Sub -> Doc \cup {NoDoc}]]
          /\ rpc \in [Registrar -> {"idle", "makeRoute", "lookDoc", "putDoc"}]
          /\ router \in [Registrar -> Router \cup {NoRouter}]
          /\ registered \subseteq Root \X Sub
      BY DEF Init
    <2>4. /\ pc \in [Client -> {"idle", "lookup", "serve", "handle"}]
          /\ request \in [Client -> Seq(Query)]
          /\ at \in [Client -> Nat \ {0}]
          /\ route \in [Client -> Router \cup {NoRouter}]
          /\ collected \in [Client -> Seq(Nat)]
          /\ replies \in [Client -> Seq(Reply)]
          /\ panicked \subseteq Client
      BY DEF Init
    <2> QED
      BY <2>1, <2>2, <2>3, <2>4 DEF TypeOK
  <1>3. ServingInv
    <2> SUFFICES ASSUME NEW c \in Client PROVE FitsFor(c)
      BY DEF ServingInv
    <2>1. pc[c] = "idle" /\ replies[c] = <<>>
      BY DEF Init
    <2> QED
      BY <2>1 DEF FitsFor, ReplyFits
  <1>4. BatchesOnTime
    BY DEF Init, BatchesOnTime, OnTime
  <1> QED
    BY <1>2, <1>3, <1>4

(* ... and is kept by every step. *)
LEMMA EngineInvariant == Spec => [](TypeOK /\ ServingInv /\ BatchesOnTime)
  <1>1. TypeOK /\ ServingInv /\ BatchesOnTime /\ [Next]_vars
          => (TypeOK /\ ServingInv /\ BatchesOnTime)'
    <2> SUFFICES ASSUME TypeOK, ServingInv, BatchesOnTime, [Next]_vars
                 PROVE  TypeOK' /\ ServingInv' /\ BatchesOnTime'
      OBVIOUS
    <2>1. UNCHANGED vars => TypeOK'
      BY DEF TypeOK, vars, routes, registering, serving
    <2>2. TypeOK'
      BY <2>1, RegistrationTypes, ServingTypes DEF Next
    <2> QED
      BY <2>2, ServingStep, OnTimeStep
  <1> QED
    BY <1>1, ServingInit, PTL DEF Spec

(* The engine's variables have their types, for any number of clients and  *)
(* registrars (engine.go, type CoEngine and DocRoute).                     *)
THEOREM EngineTypeCorrect == Spec => []TypeOK
  BY EngineInvariant, PTL

(* Any batch, any clients, any failures: a request has at most one reply,  *)
(* which answers its queries in their order (BatchResponseWriter.Write).   *)
THEOREM RepliesMatch == Spec => []RepliesMatchQueries
  <1>1. TypeOK /\ ServingInv => RepliesMatchQueries
    <2> SUFFICES ASSUME TypeOK, ServingInv, NEW c \in Client PROVE ReplyFits(c)
      BY DEF RepliesMatchQueries, ReplyFits
    <2>1. FitsFor(c)
      BY DEF ServingInv
    <2>2. CASE pc[c] = "idle"
      BY <2>1, <2>2 DEF FitsFor
    <2>3. CASE pc[c] # "idle"
      BY <2>1, <2>3 DEF FitsFor, BatchFits, ReplyFits
    <2> QED
      BY <2>2, <2>3
  <1> QED
    BY <1>1, EngineInvariant, PTL

(* Any batch, any clients: a request that met no panic has one reply when  *)
(* Serve returns, whichever of its queries failed (engine.go:302-316).     *)
THEOREM Answered == Spec => []AnsweredOnce
  <1>1. TypeOK /\ ServingInv /\ BatchesOnTime => AnsweredOnce
    BY DEF BatchesOnTime, OnTime, AnsweredOnce
  <1> QED
    BY <1>1, EngineInvariant, PTL

-----------------------------------------------------------------------------
(* Registration.  Route and Document look and store in separate steps, so  *)
(* of two registrars one may store over the other's DocRoute; with one     *)
(* what was found is still true when it stores.                            *)

OneRegistrar == \A p, q \in Registrar : p = q

(* What the registrar relies on where it is.                               *)
Registering(p) ==
  /\ rpc[p] = "makeRoute" => routers[job[p].root] = NoRouter
  /\ rpc[p] \in {"lookDoc", "putDoc"} =>
       router[p] = routers[job[p].root] /\ router[p] # NoRouter
  /\ rpc[p] = "putDoc" => documents[router[p]][job[p].sub] = NoDoc

RegistrarsInv == (\A p \in Registrar : Registering(p)) /\ RegisteredAreFound

(* The registrar looks for the DocRoute.                                   *)
LEMMA LookRouteInv ==
  ASSUME OneRegistrar, TypeOK, RegistrarsInv, NEW p \in Registrar, NEW j \in Job, LookRoute(p, j)
  PROVE  RegistrarsInv'
<1>1. /\ job'[p] = j /\ router'[p] = routers[j.root]
      /\ rpc'[p] = IF routers[j.root] = NoRouter THEN "makeRoute" ELSE "lookDoc"
      /\ UNCHANGED <<routers, documents, registered>>
  BY DEF TypeOK, LookRoute, routes
<1>2. Registering(p)'
  BY <1>1 DEF Registering
<1>3. RegisteredAreFound'
  BY <1>1 DEF RegistrarsInv, RegisteredAreFound
<1> QED
  BY <1>2, <1>3 DEF OneRegistrar, RegistrarsInv

(* It makes one, of a root that has none.                                  *)
LEMMA MakeRouteInv ==
  ASSUME OneRegistrar, TypeOK, RegistrarsInv, NEW p \in Registrar, MakeRoute(p)
  PROVE  RegistrarsInv'
<1>1. /\ rpc[p] = "makeRoute" /\ made' = made + 1 /\ made' # NoRouter
      /\ routers' = [routers EXCEPT ![job[p].root] = made']
      /\ router'[p] = made' /\ rpc'[p] = "lookDoc"
      /\ UNCHANGED <<documents, job, registered>>
  BY RoutersAreCounted DEF TypeOK, MakeRoute, NoRouter
<1>2. job[p].root \in Root /\ routers[job[p].root] = NoRouter
  BY <1>1 DEF TypeOK, Job, RegistrarsInv, Registering
<1>3. routers'[job[p].root] = made'
  BY <1>1, <1>2 DEF TypeOK
<1>4. Registering(p)'
  BY <1>1, <1>3 DEF Registering
<1>5. \A r \in Root : routers[r] # NoRouter => routers'[r] = routers[r]
  BY <1>1, <1>2 DEF TypeOK
<1>6. RegisteredAreFound'
  <2> SUFFICES ASSUME NEW path \in registered
               PROVE  /\ routers'[path[1]] # NoRouter
                      /\ documents'[routers'[path[1]]][path[2]] # NoDoc
    BY <1>1 DEF RegisteredAreFound
  <2>1. path[1] \in Root
    BY DEF TypeOK
  <2> QED
    BY <1>1, <1>5, <2>1 DEF RegistrarsInv, RegisteredAreFound
<1> QED
  BY <1>4, <1>6 DEF OneRegistrar, RegistrarsInv

(* A path that is registered with a document is found.                     *)
LEMMA ReturnedIsFound ==
  ASSUME RegisteredAreFound, NEW p \in Registrar, Returned(p),
         \A path \in registered : documents[routers[path[1]]][path[2]] # NoDoc =>
           documents'[routers[path[1]]][path[2]] # NoDoc,
         UNCHANGED routers, routers[job[p].root] # NoRouter,
         documents'[routers[job[p].root]][job[p].sub] # NoDoc
  PROVE  RegisteredAreFound'
<1> SUFFICES ASSUME NEW path \in registered'
             PROVE  /\ routers'[path[1]] # NoRouter
                    /\ documents'[routers'[path[1]]][path[2]] # NoDoc
  BY DEF RegisteredAreFound
<1>1. CASE path \in registered
  BY <1>1 DEF RegisteredAreFound
<1>2. CASE path = <<job[p].root, job[p].sub>>
  BY <1>2
<1> QED
  BY <1>1, <1>2 DEF Returned

(* It looks for the document.                                              *)
LEMMA LookDocInv ==
  ASSUME OneRegistrar, TypeOK, RegistrarsInv, NEW p \in Registrar, LookDoc(p)
  PROVE  RegistrarsInv'
<1>1. /\ rpc[p] = "lookDoc" /\ UNCHANGED <<routers, documents, job, router>>
  BY DEF LookDoc, routes
<1>2. router[p] = routers[job[p].root] /\ router[p] # NoRouter
  BY <1>1 DEF RegistrarsInv, Registering
<1>3. CASE documents[router[p]][job[p].sub] = NoDoc
  <2>1. rpc'[p] = "putDoc" /\ UNCHANGED registered
    BY <1>3 DEF TypeOK, LookDoc
  <2>2. Registering(p)'
    BY <1>1, <1>2, <1>3, <2>1 DEF Registering
  <2>3. RegisteredAreFound'
    BY <1>1, <2>1 DEF RegistrarsInv, RegisteredAreFound
  <2> QED
    BY <2>2, <2>3 DEF OneRegistrar, RegistrarsInv
<1>4. CASE documents[router[p]][job[p].sub] # NoDoc
  <2>1. rpc'[p] = "idle" /\ Returned(p)
    BY <1>4 DEF TypeOK, LookDoc
  <2>2. Registering(p)'
    BY <2>1 DEF Registering
  <2>3. RegisteredAreFound'
    BY <1>1, <1>2, <1>4, <2>1, ReturnedIsFound DEF RegistrarsInv
  <2> QED
    BY <2>2, <2>3 DEF OneRegistrar, RegistrarsInv
<1> QED
  BY <1>3, <1>4

(* It stores its document where there was none.                            *)
LEMMA PutDocInv ==
  ASSUME OneRegistrar, TypeOK, RegistrarsInv, NEW p \in Registrar, PutDoc(p)
  PROVE  /\ RegistrarsInv'
         /\ \A d \in Router, s \in Sub : documents[d][s] # NoDoc =>
              documents'[d][s] = documents[d][s]
<1>1. /\ rpc[p] = "putDoc" /\ rpc'[p] = "idle" /\ Returned(p)
      /\ documents' = [documents EXCEPT ![router[p]] = [@ EXCEPT ![job[p].sub] = job[p].doc]]
      /\ UNCHANGED <<routers, job, router>>
  BY DEF TypeOK, PutDoc
<1>2. /\ router[p] = routers[job[p].root] /\ router[p] \in Router
      /\ job[p].root \in Root /\ job[p].sub \in Sub /\ job[p].doc # NoDoc
      /\ documents[router[p]][job[p].sub] = NoDoc
  BY <1>1, NoDocIsNone DEF TypeOK, Job, RegistrarsInv, Registering
<1>3. \A d \in Router, s \in Sub :
        documents'[d][s] = IF d = router[p] /\ s = job[p].sub THEN job[p].doc
                           ELSE documents[d][s]
  BY <1>1, <1>2 DEF TypeOK
<1>4. \A d \in Router, s \in Sub : documents[d][s] # NoDoc =>
        documents'[d][s] = documents[d][s]
  BY <1>2, <1>3
<1>5. \A path \in registered : routers[path[1]] \in Router /\ path[2] \in Sub
  BY DEF TypeOK, RegistrarsInv, RegisteredAreFound
<1>6. routers[job[p].root] # NoRouter
  BY <1>1, <1>2 DEF RegistrarsInv, Registering
<1>7. RegisteredAreFound'
  BY <1>1, <1>2, <1>3, <1>4, <1>5, <1>6, ReturnedIsFound DEF RegistrarsInv
<1>8. Registering(p)'
  BY <1>1 DEF Registering
<1> QED
  BY <1>4, <1>7, <1>8 DEF OneRegistrar, RegistrarsInv

(* A step of the engine keeps what is registered.                          *)
LEMMA RegistrarsStep ==
  ASSUME OneRegistrar, TypeOK, RegistrarsInv, [Next]_vars
  PROVE  /\ RegistrarsInv'
         /\ \A d \in Router, s \in Sub : documents[d][s] # NoDoc =>
              documents'[d][s] = documents[d][s]
<1>1. CASE Registration
  <2>1. PICK p \in Registrar : \/ \E j \in Job : LookRoute(p, j)
                               \/ MakeRoute(p) \/ LookDoc(p) \/ PutDoc(p)
    BY <1>1 DEF Registration
  <2>2. CASE PutDoc(p)
    BY <2>2, PutDocInv
  <2>3. CASE (\E j \in Job : LookRoute(p, j)) \/ MakeRoute(p) \/ LookDoc(p)
    <3>1. UNCHANGED documents
      BY <2>3 DEF LookRoute, MakeRoute, LookDoc, routes
    <3> QED
      BY <2>3, <3>1, LookRouteInv, MakeRouteInv, LookDocInv
  <2> QED
    BY <2>1, <2>2, <2>3
<1>2. CASE Serving \/ UNCHANGED vars
  <2>1. UNCHANGED <<routes, registering>>
    BY <1>2 DEF Serving, ServeNothing, Serve, Start, Step, Refuse, Lookup, RefuseSub, Generate,
                Handle, HandlePanics, vars
  <2> QED
    BY <2>1 DEF RegistrarsInv, Registering, RegisteredAreFound, routes, registering
<1> QED
  BY <1>1, <1>2 DEF Next

(* With one registrar, the invariant of registration.                      *)
LEMMA RegistrarsInvariant == ASSUME OneRegistrar PROVE Spec => [](TypeOK /\ RegistrarsInv)
<1>1. Init => RegistrarsInv
  BY DEF Init, RegistrarsInv, Registering, RegisteredAreFound
<1>2. TypeOK /\ RegistrarsInv /\ [Next]_vars => RegistrarsInv'
  BY RegistrarsStep
<1> QED
  BY <1>1, <1>2, EngineTypeCorrect, PTL DEF Spec

(* With one registrar, a path that was registered has a document, while    *)
(* any clients are served (engine.go:143-163, 369-398).                    *)
THEOREM RegisteredFoundHolds == ASSUME OneRegistrar PROVE Spec => []RegisteredAreFound
<1>1. RegistrarsInv => RegisteredAreFound
  BY DEF RegistrarsInv
<1> QED
  BY <1>1, RegistrarsInvariant, PTL

(* With one registrar, no registration replaces a document.                *)
THEOREM FirstDocumentHolds == ASSUME OneRegistrar PROVE Spec => FirstDocumentStays
<1>1. TypeOK /\ RegistrarsInv /\ [Next]_vars =>
        [\A d \in Router : \A s \in Sub :
           documents[d][s] # NoDoc => documents'[d][s] = documents[d][s]]_vars
  BY RegistrarsStep
<1> QED
  BY <1>1, RegistrarsInvariant, PTL DEF Spec, FirstDocumentStays
=============================================================================
