------------------------------- MODULE Engine -------------------------------
(***************************************************************************)
(* The engine (engine.go): two levels of routes to documents, the serving  *)
(* of a request query by query, and the writer that gathers the answers of *)
(* a batch (writers.go, BatchResponseWriter).                              *)
(*                                                                         *)
(* Registrars call Route(root).Document(sub, doc) while clients call       *)
(* Serve.  A look into the maps of routes and documents and a later        *)
(* store are two steps: docAdd and routeAdd are counters and lock nothing. *)
(* The process may also die when two goroutines use such a map at once;    *)
(* that outcome ends a behaviour and is left out.                          *)
(*                                                                         *)
(* An answer is the position of the query it answers.  The writer behind   *)
(* the batch writer (JSONResponseWriter, or the one given when NoJSON is   *)
(* set) passes on what it is given; JSONResponse has what it adds.         *)
(***************************************************************************)
EXTENDS Naturals, Sequences

CONSTANTS
  Client,      \* goroutines that serve requests
  Registrar,   \* goroutines that register documents
  Root, Sub,   \* the two parts of a path
  Doc,         \* documents, each with its query processor
  MaxRouters,  \* how many DocRoutes are ever made (a bound)
  Requests,    \* the lists of queries clients send
  Failures     \* what may go wrong: "document" panics, the last "writer" panics

(* A query names a path; it is valid when the parser finds three parts.    *)
Query == [valid : BOOLEAN, root : Root, sub : Sub]

ASSUME RequestsAreQueries == Requests \subseteq Seq(Query)
ASSUME PathsExist == Root # {} /\ Sub # {} /\ Doc # {}
ASSUME RoutersAreCounted == MaxRouters \in Nat

Router == 1..MaxRouters
NoRouter == 0

VARIABLES
  routers,     \* root -> DocRoute
  documents,   \* DocRoute -> sub -> document
  made,        \* DocRoutes made so far
  rpc, job, router,           \* registrars: where, what, and the DocRoute in hand
  registered,                 \* the paths whose registration returned (history)
  pc, request, at, route,     \* clients: where, queries, the current one, its DocRoute
  collected,   \* BatchResponseWriter.data: the queries answered, in order of reception
  replies,     \* what reached the writer given to Serve
  panicked     \* clients whose request met a panic (history)

routes == <<routers, documents, made>>
registering == <<rpc, job, router, registered>>
serving == <<pc, request, at, route, collected, replies, panicked>>
vars == <<routes, registering, serving>>

NoDoc == "none"
ASSUME NoDocIsNone == NoDoc \notin Doc
Job == [root : Root, sub : Sub, doc : Doc]
Reply == [kind : {"data", "error"}, of : Seq(Nat)]

(* TypeOK: every variable has its type. *)
TypeOK ==
  /\ routers \in [Root -> Router \cup {NoRouter}]
  /\ documents \in [Router -> [Sub -> Doc \cup {NoDoc}]]
  /\ made \in 0..MaxRouters
  /\ rpc \in [Registrar -> {"idle", "makeRoute", "lookDoc", "putDoc"}]
  /\ job \in [Registrar -> Job]
  /\ router \in [Registrar -> Router \cup {NoRouter}]
  /\ registered \subseteq Root \X Sub
  /\ pc \in [Client -> {"idle", "lookup", "serve", "handle"}]
  /\ request \in [Client -> Seq(Query)]
  /\ at \in [Client -> Nat \ {0}]
  /\ route \in [Client -> Router \cup {NoRouter}]
  /\ collected \in [Client -> Seq(Nat)]
  /\ replies \in [Client -> Seq(Reply)]
  /\ panicked \subseteq Client

Init ==
  /\ routers = [r \in Root |-> NoRouter]
  /\ documents = [d \in Router |-> [s \in Sub |-> NoDoc]]
  /\ made = 0
  /\ rpc = [p \in Registrar |-> "idle"]
  /\ job \in [Registrar -> {CHOOSE j \in Job : TRUE}]
  /\ router = [p \in Registrar |-> NoRouter]
  /\ registered = {}
  /\ pc = [c \in Client |-> "idle"]
  /\ request = [c \in Client |-> <<>>]
  /\ at = [c \in Client |-> 1]
  /\ route = [c \in Client |-> NoRouter]
  /\ collected = [c \in Client |-> <<>>]
  /\ replies = [c \in Client |-> <<>>]
  /\ panicked = {}

-----------------------------------------------------------------------------
(* Registration: Route(root), then Document(sub, doc) on what it returned. *)

LookRoute(p, j) ==
  /\ rpc[p] = "idle"
  /\ job' = [job EXCEPT ![p] = j]
  /\ router' = [router EXCEPT ![p] = routers[j.root]]
  /\ rpc' = [rpc EXCEPT ![p] = IF routers[j.root] = NoRouter THEN "makeRoute"
                               ELSE "lookDoc"]
  /\ UNCHANGED <<routes, registered, serving>>

(* Mutant: Route returns the router it made without storing it. *)
MakeRouteUnstored(p) ==
  /\ rpc[p] = "makeRoute"
  /\ made < MaxRouters
  /\ made' = made + 1
  /\ router' = [router EXCEPT ![p] = made']
  /\ rpc' = [rpc EXCEPT ![p] = "lookDoc"]
  /\ UNCHANGED <<routers, documents, job, registered, serving>>

MakeRoute(p) ==
  /\ rpc[p] = "makeRoute"
  /\ made < MaxRouters
  /\ made' = made + 1
  /\ routers' = [routers EXCEPT ![job[p].root] = made']
  /\ router' = [router EXCEPT ![p] = made']
  /\ rpc' = [rpc EXCEPT ![p] = "lookDoc"]
  /\ UNCHANGED <<documents, job, registered, serving>>

Returned(p) == registered' = registered \cup {<<job[p].root, job[p].sub>>}

(* Mutant: Document stores its document whatever it found. *)
LookDocForNothing(p) ==
  /\ rpc[p] = "lookDoc"
  /\ rpc' = [rpc EXCEPT ![p] = "putDoc"]
  /\ UNCHANGED <<routes, job, router, registered, serving>>

LookDoc(p) ==
  /\ rpc[p] = "lookDoc"
  /\ \/ /\ documents[router[p]][job[p].sub] = NoDoc
        /\ rpc' = [rpc EXCEPT ![p] = "putDoc"]
        /\ UNCHANGED registered
     \/ /\ documents[router[p]][job[p].sub] # NoDoc
        /\ rpc' = [rpc EXCEPT ![p] = "idle"]
        /\ Returned(p)
  /\ UNCHANGED <<routes, job, router, serving>>

PutDoc(p) ==
  /\ rpc[p] = "putDoc"
  /\ documents' = [documents EXCEPT ![router[p]] = [@ EXCEPT ![job[p].sub] = job[p].doc]]
  /\ rpc' = [rpc EXCEPT ![p] = "idle"]
  /\ Returned(p)
  /\ UNCHANGED <<routers, made, job, router, serving>>

-----------------------------------------------------------------------------
(* Writing an answer.  reply is what the outer writer is given, if it is.  *)

Deliver(c, reply) ==
  \/ replies' = [replies EXCEPT ![c] = Append(@, reply)] /\ UNCHANGED panicked
  \/ "writer" \in Failures /\ panicked' = panicked \cup {c} /\ UNCHANGED replies

Total(c) == Len(request[c])

(* Mutant: a batch leaves errors out. *)
WriteDataOnly(c, kind) ==
  IF Total(c) > 1
  THEN LET gathered == IF kind = "data" THEN Append(collected[c], at[c])
                       ELSE collected[c] IN
       /\ collected' = [collected EXCEPT ![c] = gathered]
       /\ IF Len(gathered) >= Total(c)
          THEN Deliver(c, [kind |-> "data", of |-> gathered])
          ELSE UNCHANGED <<replies, panicked>>
  ELSE Deliver(c, [kind |-> kind, of |-> <<at[c]>>]) /\ UNCHANGED collected

(* Mutant: the batch is complete one answer early. *)
WriteEarly(c, kind) ==
  IF Total(c) > 1
  THEN LET gathered == Append(collected[c], at[c]) IN
       /\ collected' = [collected EXCEPT ![c] = gathered]
       /\ IF Len(gathered) >= Total(c) - 1
          THEN Deliver(c, [kind |-> "data", of |-> gathered])
          ELSE UNCHANGED <<replies, panicked>>
  ELSE Deliver(c, [kind |-> kind, of |-> <<at[c]>>]) /\ UNCHANGED collected

(* BatchResponseWriter.Write when there are several queries, where an      *)
(* error is an answer like any other; the outer writer's Write for one.    *)
Write(c, kind) ==
  IF Total(c) > 1
  THEN LET gathered == Append(collected[c], at[c]) IN
       /\ collected' = [collected EXCEPT ![c] = gathered]
       /\ IF Len(gathered) >= Total(c)
          THEN Deliver(c, [kind |-> "data", of |-> gathered])
          ELSE UNCHANGED <<replies, panicked>>
  ELSE Deliver(c, [kind |-> kind, of |-> <<at[c]>>]) /\ UNCHANGED collected

(* The loop of CoEngine.Serve: on to the next query, or return. *)
NextQuery(c) ==
  /\ at' = [at EXCEPT ![c] = @ + 1]
  /\ pc' = [pc EXCEPT ![c] = IF at[c] < Total(c) THEN "lookup" ELSE "idle"]
  /\ route' = [route EXCEPT ![c] = NoRouter]

Answer(c, kind) == Write(c, kind) /\ NextQuery(c)

-----------------------------------------------------------------------------
(* Serve. *)

(* Mutant: queries are counted from zero. *)
StartAtZero(c, queries) ==
  /\ pc[c] = "idle"
  /\ request' = [request EXCEPT ![c] = queries]
  /\ at' = [at EXCEPT ![c] = 0]
  /\ collected' = [collected EXCEPT ![c] = <<>>]
  /\ UNCHANGED <<routes, registering, route>>

Start(c, queries) ==
  /\ pc[c] = "idle"
  /\ request' = [request EXCEPT ![c] = queries]
  /\ at' = [at EXCEPT ![c] = 1]
  /\ collected' = [collected EXCEPT ![c] = <<>>]
  /\ UNCHANGED <<routes, registering, route>>

Serve(c, queries) ==
  /\ queries # <<>>
  /\ Start(c, queries)
  /\ pc' = [pc EXCEPT ![c] = "lookup"]
  /\ replies' = [replies EXCEPT ![c] = <<>>]
  /\ panicked' = panicked \ {c}

(* The writer of an empty request is not wrapped yet. *)
ServeNothing(c) ==
  /\ Start(c, <<>>)
  /\ \/ /\ replies' = [replies EXCEPT ![c] = <<[kind |-> "error", of |-> <<>>]>>]
        /\ panicked' = panicked \ {c}
     \/ /\ "writer" \in Failures
        /\ replies' = [replies EXCEPT ![c] = <<>>]
        /\ panicked' = panicked \cup {c}
  /\ UNCHANGED pc

QueryOf(c) == request[c][at[c]]
RouteOf(c) == routers[QueryOf(c).root]

(* CoEngine.serve: a query that is too short, or has no route. *)
Refuse(c) ==
  /\ pc[c] = "lookup"
  /\ ~QueryOf(c).valid \/ RouteOf(c) = NoRouter
  /\ Answer(c, "error")
  /\ UNCHANGED <<routes, registering, request>>

Lookup(c) ==
  /\ pc[c] = "lookup"
  /\ QueryOf(c).valid /\ RouteOf(c) # NoRouter
  /\ route' = [route EXCEPT ![c] = RouteOf(c)]
  /\ pc' = [pc EXCEPT ![c] = "serve"]
  /\ UNCHANGED <<routes, registering, request, at, collected, replies, panicked>>

Registered(c) == documents[route[c]][QueryOf(c).sub] # NoDoc

(* DocRoute.Serve: no document, no request generated, or an error of the   *)
(* query processor, which may fail on what it likes.                       *)
RefuseSub(c) ==
  /\ pc[c] = "serve"
  /\ Answer(c, "error")
  /\ UNCHANGED <<routes, registering, request>>

Generate(c) ==
  /\ pc[c] = "serve"
  /\ Registered(c)
  /\ pc' = [pc EXCEPT ![c] = "handle"]
  /\ UNCHANGED <<routes, registering, request, at, route, collected, replies,
                 panicked>>

(* Document.Handle writes one response or one error (StreamOS).            *)
Handle(c) ==
  /\ pc[c] = "handle"
  /\ \E kind \in {"data", "error"} : Answer(c, kind)
  /\ UNCHANGED <<routes, registering, request>>

(* panics.Defer reports the panic to the log and the loop goes on.         *)
HandlePanics(c) ==
  /\ pc[c] = "handle"
  /\ "document" \in Failures
  /\ NextQuery(c)
  /\ panicked' = panicked \cup {c}
  /\ UNCHANGED <<routes, registering, request, collected, replies>>

-----------------------------------------------------------------------------
Registration == \E p \in Registrar : \/ \E j \in Job : LookRoute(p, j)
                                     \/ MakeRoute(p) \/ LookDoc(p) \/ PutDoc(p)

Step(c) == \/ Refuse(c) \/ Lookup(c) \/ RefuseSub(c) \/ Generate(c)
           \/ Handle(c) \/ HandlePanics(c)

Serving == \E c \in Client : \/ ServeNothing(c)
                             \/ \E queries \in Requests : Serve(c, queries)
                             \/ Step(c)

Next == Registration \/ Serving

Spec == Init /\ [][Next]_vars

-----------------------------------------------------------------------------
Positions(n) == [i \in 1..n |-> i]

(* RepliesMatchQueries: whatever panicked on the way, a request is replied *)
(* to at most once, and the reply answers every query of the request, the  *)
(* i-th entry the i-th query, as the client assumes (client.go:307); a     *)
(* batch is never replied to with an error.                                *)
RepliesMatchQueries ==
  \A c \in Client :
    /\ Len(replies[c]) <= 1
    /\ \A i \in 1..Len(replies[c]) :
         /\ replies[c][i].of = Positions(Total(c))
         /\ Total(c) > 1 => replies[c][i].kind = "data"

(* AnsweredOnce: a request that met no panic has exactly one reply when    *)
(* Serve returns, whichever of its queries failed.  With a panic it has    *)
(* none, although "ErrDocumentRoutePanic is returned when a document       *)
(* internal processing panics" (engine.go:165).                            *)
AnsweredOnce ==
  \A c \in Client \ panicked : pc[c] = "idle" /\ at[c] > 1 => Len(replies[c]) = 1

(* RegisteredAreFound: once Route and Document returned, a request for     *)
(* their path finds a document: "Route sets up a document router for       *)
(* handling subdocuments for this specific route" (engine.go:367).         *)
RegisteredAreFound ==
  \A path \in registered :
    /\ routers[path[1]] # NoRouter
    /\ documents[routers[path[1]]][path[2]] # NoDoc

(* FirstDocumentStays: "If a subrouter is already being used, the request  *)
(* is ignored" (engine.go:141).                                            *)
FirstDocumentStays ==
  [][\A d \in Router : \A s \in Sub :
       documents[d][s] # NoDoc => documents'[d][s] = documents[d][s]]_vars
=============================================================================
