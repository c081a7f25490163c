# Coquery in TLA+

Coquery answers queries about records over HTTP and tells its clients, answer by
answer, which records changed since their last one. A server keeps a store of
records and a store of *deltas*: each delta is a uuid with the keys of the records
that changed. A client sends the uuid of the last delta it knows (`diff_tag`) and
gets the keys that changed since, with the uuid of the newest delta.

Everything is shared between the goroutines of the HTTP server, with hand-made
locking, and both stores may forget what is old. That is what these modules are
about: the protocols between the parts, cut at the points where the locks are taken
and dropped. Line numbers refer to the files of the repository.

## Inventory

| Part | State | Operations | Talks to |
|---|---|---|---|
| Delta store, `diff.go` | `keys` (uuid to position), `diffs` (a list), lock `dl` | `Put Get PullFrom Has Keys Diffs Clear Analyze AnalyzeWith`, and `clean` at the start of each | called by the writer |
| JSON writer, `writers.go:67-180` | none; what a request's `Write` has in hand | `Write` | record store, delta store, the writer behind it |
| Batch writer, `writers.go:10-65` | `data`, `collected` | `Write` | called by documents, calls the JSON writer |
| Engine and routes, `engine.go` | `routers`, `documents`, the counters `routeAdd`, `docAdd` | `Route`, `Document`, `DocumentWith`, `Serve` | parser, documents, batch writer |
| Record store, `storage/storage.go` | `records`, `tainted`, `deleted`, references, `active`, locks `rl`, `afl`, `rfl` | `Add Get GetByRef AddRef AdjustRef ModRefBy Delete Remove RemoveByKey RemoveByValue ClearTainted ClearDeleted`, reads, `clean` | documents, JSON writer |
| Request generator and parser, `requests.go`, `parser/` | none | `Generate`, `ParseQuery`, `SplitQuery` | called by the engine |
| Streams, `streams/streams.go` over `vendor/.../sumex` | subscriptions of streams, channels | `Handle`, `ResponseStream`, `Stream` | the engine, the documents' processors |
| Mongo documents, `documents/mongodocs` | none of their own | `Find`, `All`, `Mutate` | record store, database |
| Collect, `documents/crossdocs` | none | `Do` | previous response |
| Mongo sessions, `db/mongo` | `masterList` | `New` | mgo |
| HTTP, `protocols/cohttp` | none | `ServeHTTP`, `ResWriter.Write` | engine |
| Client, `client/client.go` | `requests`, `locked`, `pendingTime`, `lastPack`, `updates`, lock `rl` | `Request`, `Serve`, `Updates` | transport |
| Transports, `client/web`, `client/js` | none | `Do` | HTTP |

`diffs/redis`, `diffs/boltdb`, `documents/sqldocs`, `protocols/sse`,
`protocols/websocket` and `db/sql` are package clauses without code; `vendor/` and
`example/` hold other people's code and a demonstration.

### What is hard, and what should hold

**Delta store.** `clean` runs at the start of every call (twice in `AnalyzeWith`, which
calls `PullFrom`). It takes a delta out of the list and leaves the indices of
later keys as they were, in the middle of a loop over a Go map, whose order is
arbitrary. After that an index may be too large: it names a later delta or none,
and indexing with it panics. What should hold all the same: a delta that is not
old is not lost, a reader never gets a delta older than the one it names, a call
ends and frees the lock. Without expiry, the store should be the log its callers
take it for.

**Delta protocol.** A request makes up to four calls on the delta store (through an
`Analyze` they are more) while others do the same. A client must not miss a delta
between two tags, its tag must advance, and a request must be answered.

**Record store.** Calls look in one lock section and act in another, counters are
read under one lock and written under the next, `clean` takes the two locks in the
other order. Maps are shared with the callers. Records, references, the tainted and
the deleted list should agree, and calls should return.

**Engine.** Two goroutines may register under the same path; a document may fail
or panic in the middle of a batch. A request should have one answer, with one
entry per query in the order of the queries, because the client assigns answers by
position.

**Client.** `Request` reads and appends to the stack under a *read* lock, and calls
`Serve`, which takes the write lock. Timers of older requests serve younger
requests. A handler should be called once, with its own answer, and be called.

**Streams.** Answers come back through goroutines, matched by a request id that all
steps of a query share, and that all requests of one client share too
(client.go:242); timeouts start again with each message; receivers are never
unsubscribed. A query should have one reply, its own, and a processor should not work
for a request that has gone on.

**Mongo documents.** They keep store and database in step without either knowing of the
other's failures, add what they read from the one to the other some time later, and
merge into maps the store and other clients hold. The copies of a record should agree
once nobody is at work on it, answers should show what the database has, and what
changed in the store should be reported.

PROJECT.json lists the hazards one by one, at their lines.

## Modules

| Module | Models | How |
|---|---|---|
| `DiffsAPI` | the interface `Diffs` | calls and answers |
| `ChangeLog` | what the callers of `Diffs` take it for | an append-only log; a call is invoked, takes effect in one step, returns |
| `DiffStore` | `diff.go` | one action per critical section or stretch without lock |
| `DiffStoreProofs` | | its theorems |
| `JSONResponse` | `JSONResponseWriter.Write` | extends `DiffStore`: a request makes the calls, each goroutine is a client that sends the tag it was given |
| `JSONResponseProofs` | | its theorems |
| `Store` | `storage.go` | one action per lock section |
| `StoreProofs` | | its theorems |
| `Engine` | `engine.go`, `BatchResponseWriter` | registrars and clients |
| `EngineProofs` | | its theorems |
| `Servo` | `client.go` | apps that call `Request`, the timers these leave |
| `ServoProofs` | | its theorems |
| `Streams` | `streams.go` over the part of `sumex.go` it uses | requests in `Handle`, messages on their way |
| `StreamsProofs` | | its theorems |
| `MongoDocs` | `find.go`, `all.go`, `mutate.go`, `collect.go` | clients that run chains of steps between a store and a collection |
| `MongoDocsProofs` | | its theorems: types, reports |
| `AgreementProofs` | | its theorems: the copies of a record agree |
| `MC*` | | small constants for TLC |

**DiffStore.** A goroutine is `idle`, in `clean` (`clean`, `lock`, `sweep`), in the
`body` of its method, `done`, or `panicked`. The clock is read in a step of its own
before the lock is asked for (297). `Sweep` visits any key it has not visited yet, as
Go's map order allows. Uuids are numbers in the order of their making; positions are
1-based where Go's are 0-based, with 0 for a uuid that is not in the map. A body is
one step, because each takes the lock for all of it. `GetPanics` and `SweepPanics`
are the index expressions that fail; the deferred unlock of both is in them.

**JSONResponse.** `Write` is followed from call to call: `PutTainted`, `AskKeys`,
`AskHas`, `AskDeltas`, each entering a method of `DiffStore`, and the two ways to
answer. `TaintedRecords` happens with the entry of `Put`, `ClearTainted` after its
return, so a record may be tainted in between. `Swallow` is the handler that keeps
panics from the process (engine.go:215).

**Store.** Records are Go maps with an identity: `records` gives the map a key is
stored as, `heap` what a map holds. `rl` is held across steps where the code
defers its unlock; `afl` is held across steps by `clean` alone. The counter
`active` stops at two, the only distinction `clean` makes. One reference key stands
for all. `ModRefBy`'s scan states never leave their initial branch within one
call, and are left out with it.

**Engine.** `Route(r).Document(s, d)` is four steps, since looking and storing are
separate. `Serve` walks the queries; a query is refused, or handled, or its document
panics. What a document, or the processor of its queries, decides is open, save
that `Handle` writes one answer unless it panics, as `StreamOS.Handle` does. `panicked`
is history: the clients whose request met a panic.

**Servo.** Time is counted in ticks, `Wait` of them being the batching interval. A
`Request` ranges over the stack (`ReadRequests`, 190), evaluates it anew for the append
(`ReadAgain`) and writes it back (`Stack`, both 199), in steps of their own under a read lock that
others hold too. So two that find a query new both stack it, or one loses its append. `Serve`
is cut at the lock, before and after the transport. The transport may fail and the
answer of a single query may have no records.

**Streams.** A request is in `inject` or `await`, at step `index` of its query
`query`. The streams of `ResponseStream` hear messages from the subscription
on, so `Listening` begins before the step is injected and ends when something is taken
(`got`); what comes from then on nobody reads. A message is on its way in `inbox`
(the goroutines to the processor, its work and the goroutines back are one stay,
of any length) and then in the `mail` of each request that listens and has its id; to
one with another id it is noise, which starts the timer again, and does so for all of them
in the same step. Errors without an id, which all processors a step is not for send, are
noise to everyone and are only counted (`refusals`). A processor answers, fails or panics;
when it panics it sends nothing. `doubtful` is history: ids that met a timeout or two requests
at once.

**MongoDocs.** One record store and one collection, which has any of the records at first. Maps have
identities as in `Store`, so a response may hold stored maps: those of `GetByRef` are the
stored ones, those of `Select` and the database are copies. A map is its key, the one
property `Mutate` sets, and whether it has the rest of its properties, which `Collect`
drops. `Add` is followed through its sections (`Look`, `Insert`, `Merge`, `Taint`), an upsert
is encoded (`Marshal`) before it lands (`Upsert`), and one that fails may have landed. A response
of new maps takes identities from a pool, a bound (`Room`), of which the run needs no more than
it has. What fails
or panics ends the chain, as `StreamOS.Handle` does. After that each client's writer goes through
its two sections of the store, `TaintedRecords` (writers.go:85) and `ClearTainted` (86), with other
clients in between; a client may also be done without, as a query in the middle of a batch is. A
chain may find several records, and a `Mutate` may have any key or none, as the parser lets it. One whose key
is another than that of a map it merges into changes the key of a map that the store may hold; the
first such `Mutate` (`rekeyed`) is a bound, the last step of the model. History: `suspect` has the keys of records
over which two chains met of which one writes (`Footprint`), whose upsert failed, whose collected
projection was upserted, or that a `Mutate` made in the database though the store had them (`Create`,
when it is not what the last `Find` looked for, `Sought`); `replaced` those whose stored map was
replaced by a second first `Add`; `reported` what a stored record held when it was
inserted or a writer last read it as tainted; `unread` the tainted keys no writer has read, and `missed` those of them that a
`ClearTainted` dropped.

## Runs

Runs that pass:

| Run | Bounds | Shows |
|---|---|---|
| `DiffStore_forever` | 2 goroutines, 2 puts, every call, no expiry | `TypeOK`; `IndexMatchesList`: the index is exact; `ImplementsChangeLog`: the store implements the log, with its liveness |
| `DiffStore_expiring` | 2 goroutines, 3 puts, age 1, time to 2 | `IndexNeverLags`, `KeepsFresh`: stale indices lead forward only, and never cost a live delta; `CallsEnd` |
| `JSONResponse_deltas` | 2 clients, one with a watch list, 3 puts, no expiry | `NoDeltaSkipped`, `FirstWatchCollectsAll`: a delta between two tags, or before the first tag of a watcher, is in the answer; `TagsAdvance` |
| `JSONResponse_expiring` | 2 clients, one without deltas, age 1, time to 1 | `RequestsEnd`: with an answer or a swallowed panic |
| `Store_shared` | 2 goroutines, 1 key, 2 maps, every call, no expiry | `TypeOK`, `TaintedAreRecords`; `CallsReturn`: no deadlock among the calls |
| `Store_access` | 2 goroutines, 2 keys, 2 maps, `clean` | `SurvivesAccess`: lost increments never cost an accessed record |
| `Engine_serving` | 1 client, batches of one to three, 1 registrar, 2 roots, subs and documents, panics of documents and the last writer | `TypeOK`, `RepliesMatchQueries`, `AnsweredOnce`, `RegisteredAreFound`, `FirstDocumentStays` |
| `Servo_handlers` | 2 apps, 2 queries, 3 requests, time to 4 | `TypeOK`, `HandlersGetTheirs`: at most one call of a handler, with its own answer, though a query may be stacked twice and an append lost |
| `Servo_startup` | 1 app, 2 requests at the start, time to 5 | `StartupIsServed` |
| `Streams_handle` | 2 requests of two queries or two steps, any ids, 1 refusing processor, wait 1 | `TypeOK`; `OneReplyPerQuery`; `RepliesAreTheirs`, `WorkIsInOrder`: an answer and a step are those of the query at hand, unless the id is doubtful; `RequestsEnd` |
| `MongoDocs_chains` | 2 clients, 2 chains of 12 kinds, 2 records, until `rekeyed` | `TypeOK`; `StoreAgrees`, `AnswersAgree`: store, database and answers agree but for `suspect` records; `ChangesAreTainted`: what no writer has read is tainted, but for `missed` and `replaced` records |

One run in which the code does not do what its comments say (a finding in
PROJECT.json, with the line that says it): in `JSONResponse_lost` a record tainted between
`TaintedRecords` and `ClearTainted` gets into no delta.

Other behaviours that depart from the comments are in the actions, as the code has
them, without a run of their own. No property above says otherwise:

* After `clean` has removed a delta, `PullFrom` may start too late and leave out deltas stored
  after the one it names, though diff.go:128 says it "pulls all the changes" (`Sweep`, `PulledFrom`).
* `clean` of the record store and a call may wait for each other's lock for ever
  (`Doom`, `CleanDelete`, against `CountNew` and its like).
* `clean` may leave an expired delta in the list for good, without a key (`Sweep`:
  the first removal shifts the list, and a later index names a younger delta).
* A client without a known tag and without a watch list gets the newest delta only (`DeltaCall`).
* Of two first `Add`s of a key at once, the later map replaces the earlier (`Find`, `Insert`).
* `GetByRef` returns nil maps for removed records (`Refs`, `SetRef`), and a key that is
  added again stays in the deleted list (`Insert`).
* A request whose document panics has no reply (`HandlePanics`). Of two registrations at
  once under a root or a path, the later replaces the earlier (`MakeRoute`, `PutDoc`).
* A second request for a stacked query loses its handler (`IsNew`, `ReadRequests`); two requests
  that append at once lose one, or stack one query twice (`ReadAgain`, `Stack`); `Request` waits for the
  lock it holds when the interval has passed (`Swap`); a single query without records has no
  handler called (`Answered`); a request that overlaps `Serve` may stay in the
  stack (`Unlock`, `Fire`).
* After a timeout, or with an id two requests use at once, `Handle` takes late or foreign
  answers for those it waits for (`Publish`, `Take`).
* A `Mutate` that comes first panics and waits for its timeout (`MutateFails`). One
  after `Collect` replaces the document in the database by the projection (`Upsert`). An
  upsert that fails leaves the store ahead of the database (`UpsertFails`). A parameter with another
  key than the record's changes the key of a stored map in place (`MergeParameter`), and a record made in the
  database is not looked for in the store (`Create`). Chains that meet over
  a record may leave its copies different for good: upserts land in another order than the
  store changed, or an old copy of the database is added after a change (`ReadAll`, `Look`).

Why the bounds are enough. In the delta store what goes wrong takes a removal below
a live index: two deltas, one expired, and a third put after it; two goroutines
bring every pair of sections side by side, a third only repeats what one of them did.
Two puts tell a position from its neighbour where nothing is removed. In
the writer, three puts are one before the tag, one after it and one between reading the
newest key and pulling. In the record store two maps of one key are what a merge, a
late taint and a removed reference need; with `clean` a second key gives its loop
and that of `GetByRef` something to be in the middle of. The engine keeps apart what
different clients have, so one client suffices for replies (any number is proved), and it
meets the registrar in every place of its four steps. A batch of two is the shortest
batch; the third query lets one fail in the middle. The client's two queries and three
requests have a query asked twice, or stacked twice, and another in the same stack, and time to 4
lets two intervals pass. `Servo_handlers` uses the symmetry of apps and of queries;
it checks invariants only. In `Streams`, two requests of two steps are
what an answer needs to be late, foreign or out of order, and the third is covered by
the proofs. Two clients in `MongoDocs` bring every pair of steps side by side; the chains have each
processor first and after each other, on one record and on all, with and without the key.
More clients and chains are covered by the proofs. `MongoDocs_chains` uses the symmetry of the clients and checks
invariants only.

`RegisteredAreFound` and `FirstDocumentStays` hold for one goroutine that registers, as a
server does before and while it serves; with two they do not, see above.
`StartupIsServed` is said of an app that makes its requests within the first interval and each
for another query, with answers that have records. That leaves out the hazards of a `Request` that comes
later: those, like all that a proviso excludes, stand in PROJECT.json without a property, and
with the action that shows them.

Deadlock is checked except in the runs of `Servo`, `Streams` and `MongoDocs`, where all
requests end for good at the bound, and in `Store_access`,
since a store with `clean` does deadlock, see above.

## Fairness

A goroutine that can run does run. Where it waits for a `sync.RWMutex`, strong
fairness is assumed: a waiting `Lock` keeps later readers out and an `Unlock` lets the
waiting readers in first, so a goroutine that could get the lock again and again
gets it. That covers `Step` in `DiffStore`, `Store` and `Servo`, and `Sweep` in
`Store`. `Write` in `JSONResponse` is straight-line code and has weak fairness.
No fairness is assumed of calls: nobody has to make one. In `Servo` the clock has weak
fairness and a transport answers, since `client/web` sets a timeout of 30 seconds;
`client/js` sets none, and for it the liveness properties of `Servo` presuppose that
the browser gives up. `Prompt` says that a call of `Request` takes less than a
tick: it is set in `Servo_startup`, where the requests are to be made within the interval,
and unset in `Servo_handlers`, where anything may take any time.

In `Streams` a goroutine of `Handle` or `ResponseStream` that can go on does (weak
fairness, since nobody can take back what it waits for), and the clock of `time.After`
ticks. Processors owe nothing: the timer answers for one that never does. `RequestsEnd`
holds because messages of other requests, each of which starts the timer again, come to
an end; against traffic without end it would not. `MongoDocs` states no fairness: its properties are
invariants.

## Proofs

`tlapm` checks, for any number of goroutines, clients, records, paths and any bound:

**DiffStoreProofs.** `TypeCorrect` from `StoreInv`, the types with `LockInv`: only the
goroutine in the loop of `clean` holds the lock, and the keys it has yet to visit are in the
map. `IndexNeverLagsHolds` from `OrderInv`, which adds to the property that uuids,
times and clock readings lie in the past, so that a new delta comes last in every
order. `clean` drops the delta it reads at the index, stale or not, and it has just
judged that one as old; the delta the uuid was made for was put no later than that one,
so it is old as well. Neither the list nor the map loses anything live: that is
`KeepsFreshHolds`. Both hold with expiry and without. With `MaxAge = 0`,
`IndexMatchesListHolds`, and `ImplementsLog`: every step is a step of `ChangeLog` or a
stutter, under the mapping of the list to the log and of every place inside a
method to "pending". The invariant for it, `NeverExpires`, is that a store without
expiry never enters the loop and never panics.

**JSONResponseProofs.** `WriterUsesStore`: for any age, each step of the writer is a step of the
delta store or leaves it alone, so what is proved of the store holds under it. `WriterKeepsFresh` draws the
conclusion where it matters, for a store that expires: no live delta is lost and no index
lags, whatever requests do. `NoDeltaSkippedHolds`: for
`MaxAge = 0`, an answer to a known tag names every watched record of every delta after it.
`WriterInv` ties each place in `Write` to the call the goroutine has made (`CallInv`) and
says that the newest tag it saw is in the store (`KnownInv`); the store only
grows, for the writer never calls `Clear`. `TagsAdvanceHolds`: a client's tag stays in the
store, and the key that `Keys` answers last is no older than any stored (`TagInv`).
`FirstWatchHolds`: a tag the store does not know when the deltas are asked for was not known
when `Has` was asked either, so the call is `Analyze`, of the whole list (`FirstInv`).

**EngineProofs.** `RepliesMatch`: with any batches and any panics a request has at most one
reply, whose i-th entry answers the i-th query. `ServingInv` says of a request on its way that
it has no reply and that its gathered answers are fewer than the number of the query
it is at; equal to all earlier ones, in order, if none panicked. A batch
with a panic stays short and is never sent. `Answered`: a request that met no panic has
exactly one reply. `BatchesOnTime` adds for it that without a panic nothing is missing
from the batch, so the last query completes it. `EngineTypeCorrect` needs `ServingInv`
too: that the query at hand exists is part of it. `RegisteredFoundHolds` and
`FirstDocumentHolds`, for one goroutine that registers: what it found when it looked is still so when
it stores (`Registering`).

**ServoProofs.** `TypeCorrect` and `HandlersCorrect`, for any apps, requests and
times. The stacks that matter are `requests` and the copies that apps have read and not yet
written back (`Stacks`); they may differ from each other, and none need have a query once. An app holds the read lock from its read to its return (`LockInv`),
so when a Serve swaps there are no copies, and what it takes is nowhere else afterwards
(`ApartInv`). A handler in a stack or with a Serve stands beside its own query, once, and not before its
app has stacked it (`FitInv`), and not after it was called (`CalledInv`).

**StreamsProofs.** All four invariants, for any requests, chains, ids and messages. The
heart is that with an id that is not doubtful only one request uses it, and that request has at most one message
or step anywhere: `WorkInv` says where steps are, `MailInv` and `GotInv` that a message is about
the step its request is at, `DoubtInv` that active requests with one id are doubtful. `PreviousInv`
adds that what the next step gets is the response before it.

**StoreProofs.** `TypeCorrect`, `TaintedHolds` and `SurvivesHolds`, for any goroutines, keys,
maps and calls, with expiry and without. `Counted` is the heart: a stored key has a counter,
or gets one before `rl` is free again, and counters are never taken away. So an access finds
one that is not zero, and stores two however many increments of others it overwrites; lost
increments never make a record look unused, and `CleanInv` keeps that until `clean` comes to
the key. `Place` says what a call relies on where it is: past its look-up `Add` has a map in hand, in the
loop of `GetByRef` every key has a counter (`RefsInv` says so of every key listed), and what
is about to be deleted has one too.

**MongoDocsProofs.** `TypeCorrect` and `ChangesTaintedHolds`, for any clients, chains and records.
A map may be in the store, in several responses and in the hands of `Add` at once,
and `Mutate` writes into it before it looks it up. That a stored map changes only under its own key, so that the client that changed
it is at `Add` of that very key, rests on the keys of maps: a stored map has the key it is stored
under (`StoredInv`), and a map without a key is in one client's hands alone (`ApartInv`). Both
end with a `Mutate` that changes a key, so the invariant is `rekeyed \/ MongoInv`. `ReportsInv` is
stronger than the property: a record that is not as reported is `unread`, which is part of tainted, for a writer
that has read a key clears it with all others, and only what came after its reading may be lost. `StepInv` says what a step of
one client owes the others: the keys of their maps stay; `Responded`, that new maps are
nobody else's.

**AgreementProofs.** `StoreAgreesHolds` and `AnswersAgreeHolds`, for any clients, chains and
records. Neither property says anything of a chain at work, so the invariant `AgreeInv` has to: a
`Mutate` changes its maps one by one, adds them one by one and then writes them one by one, and
between a change and its upsert the map, the stored map and the document differ. `Changing` says
which maps of a response are in that state. Of the others `CopyInv` says that they have what the
document has, of those `ChangeInv` that the stored map has what the changed one has, once it has
been added, or else differs in what the upsert is about to remove, which makes the record suspect.
The stored map is the document when nobody is changing it (`CleanInv`). What `Find` and `All` merge
into a stored map is therefore what it has (`InrecInv`). An empty response says that what the last `Find` looked for is not in
the database (`AbsentInv`), hence not stored; a `Mutate` that creates something else makes it suspect if it
is stored. `SuspectInv` is what keeps clients apart: two running
chains of which one writes have only suspect records in common, so each step owes the others no more
than `Undisturbed` says, and `AgreeStep` reduces it to the client that takes it. `CompleteInv` is
about a query for all: as long as nothing is suspect nobody else changes which records the database
has, so counting them first and reading them later, from either side, gives the same ones. All of this holds
until `rekeyed`, and from then on the two properties claim nothing.

The proof corrected the two properties. A chain may come to a later `Find`, so its footprint has
every record that it finds, and an answer that ends with a `Find` is not one for all records
(`Complete`); as first stated, TLC finds them violated by a `Find` after a `Find`, which is now
among the chains.

Assumptions are those named in the modules: bounds are numbers, workloads are calls, values for
"none" are not members, identities in the pool of `MongoDocs` are numbers, there is a path, a
document and a key, `GetByRef` is asked for a value, and each `find` of a
chain has a key (`FindsHaveKeys`). The theorems on the log and on the answers of the writer assume `MaxAge = 0`
(`WriterUsesStore` and `WriterKeepsFresh` do not), those on registration one
registrar (`OneRegistrar`), as their statements say.

Only model-checked: every liveness property (`CallsEnd`, `RequestsEnd`, `CallsReturn`,
`StartupIsServed`, and the liveness half of `ImplementsChangeLog`), which is out of reach of the
prover. Every invariant and every action property of the passing runs is a theorem.

## Not modelled

* Two goroutines in one Go map without a lock (`routers`, `documents`, `recordRefs`,
  `records` in `BuildRef`) may kill the process. That outcome ends a behaviour, so
  the modules leave it out and follow what happens otherwise. So is a slice
  header that is read while it is written, and two appends to the client's stack that fill the same
  place of one array: a slice is read and written whole.
* `BuildRef` is a loop of `AdjustRef` calls, and these are interleaved freely anyway. The
  reads `Select`, `Length` and the lists have no effect. Nested maps and the
  conversions of `MergeMaps` and the `Diff` functions are data.
* `Updates` of the client: its check needs `reply.Deltas`, which is never decoded, as
  `data.go:58-59` gives two fields one JSON name. Handlers that call the client again.
* The generator and the parser: strings without state. The engine has their outcomes.
* Several documents over one store (`All` of the one is then answered with records of the
  other, all.go:90), queries by another key than the store's (`Find` asks for nil
  unless the value is of digits, find.go:43), `Skip`, records that are removed or
  expire while a chain is at work, the store and its references after a `Mutate` has changed a
  key, dotted keys of `Collect`, mongo sessions.
* The queues of sumex inside a delivery, the number of its workers, and the
  receivers that are never unsubscribed: each message costs a goroutine that blocks for good.
* The document formats, HTTP, the database and the example.

The largest file of the repository is `example/app/index/app.js`, 36 thousand lines that GopherJS
generated from the client and the Go library. It is no source of this program, and
no definition here is translated from it; the Go files it was generated from are.

## Plan

Done: the delta store and its log, the writer on top of it, the record store, the
engine, the client, the streams, the mongo documents. What is left, in this order:

1. `Updates`: the client's update check on `Servo`, with the tag as it is decoded.
2. `Generate`: from methods and their arguments to requests, against a reference
   definition, over bounded inputs.
3. A composition of `MongoDocs` and `JSONResponse`, in which `Taint` of the latter becomes
   the steps of `Add`, and the two sections of the writer of `MongoDocs` the writer's calls on the delta
   store.
4. Two documents over one store in `MongoDocs`.

Theorems next: those of the modules to come; of the present ones only liveness is left.
