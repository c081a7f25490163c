------------------------------- MODULE Servo --------------------------------
(***************************************************************************)
(* The client (client/client.go, type Servo).  Request stacks a query and  *)
(* its handler; Serve sends what is stacked as one request and hands the   *)
(* answers to the handlers.  Serve is called by Request itself and by a    *)
(* goroutine each Request leaves behind, which waits for Wait.             *)
(*                                                                         *)
(* A handler is named by the number of its request.  rl is a read-write    *)
(* lock: Request keeps rl.RLock until it returns, Serve takes rl.Lock.     *)
(* `requests` is read and written under rl.RLock, so an append is a read   *)
(* and a write, and what goes before it is another read: others append in  *)
(* between.  A slice is read and written whole.                            *)
(* Time advances in ticks, and so do pendingTime and the timers.           *)
(*                                                                         *)
(* The transport and the server are external: a request may fail, and an   *)
(* answered one has one result for each of several queries, in the order   *)
(* of the queries, or the records of a single query, which may be none.    *)
(* Handlers call nothing of the client.  Updates is left out.              *)
(***************************************************************************)
EXTENDS Naturals, Sequences, Functions

CONSTANTS
  App,          \* goroutines that call Request
  Query,
  Wait,         \* Servo.wait, in ticks
  MaxTime,      \* a bound on the clock
  MaxRequests,  \* a bound on the calls of Request
  RequestTimes, \* when Request may be called
  Prompt,       \* TRUE if a call of Request takes less than a tick
  Failures,     \* what may go wrong: an "error", an "empty" answer
  NoOne         \* no goroutine

ASSUME TimesAreNumbers == Wait \in Nat \ {0} /\ MaxTime \in Nat /\ MaxRequests \in Nat
ASSUME FailuresAreKnown == Failures \subseteq {"error", "empty"}

Handler == 1..MaxRequests
Timer == Handler
Process == App \cup Timer
Handlers == [qry : Query, hl : Handler]

ASSUME NoOneIsNone == NoOne \notin Process
ASSUME AppsAreNoTimers == App \cap Timer = {}

VARIABLES
  requests,     \* what is stacked: each query with the handler it was stacked with
  locked, pendingTime, now,
  rlReaders,    \* who holds rl.RLock; rl.Lock is never held over a step
  asked,        \* how many requests were made
  asks,         \* the query of each request
  pc,
  mine,         \* the request an app is making
  read,         \* the stack as an app read it for its append
  due,          \* when a timer fires
  pendings,     \* what a Serve took from the stack
  called        \* the calls of handlers: whose, and the query whose answer it got

vars == <<requests, locked, pendingTime, now, rlReaders, asked, asks, pc, mine, read, due,
          pendings, called>>

NoAnswer == "error"

(* TypeOK: every variable has its type. *)
TypeOK ==
  /\ requests \in Seq(Handlers)
  /\ locked \in {0, 1}
  /\ pendingTime \in 0..MaxTime + Wait /\ now \in 0..MaxTime
  /\ rlReaders \subseteq App
  /\ asked \in 0..MaxRequests
  /\ asks \in [1..asked -> Query]
  /\ pc \in [Process -> {"idle", "rlock", "read", "append", "start", "serve", "unlock", "swap",
                         "send", "reset", "wait"}]
  /\ mine \in [App -> Handler \cup {0}]
  /\ read \in [App -> Seq(Handlers)]
  /\ due \in [Timer -> 0..MaxTime + Wait]
  /\ pendings \in [Process -> Seq(Handlers)]
  /\ called \in Seq([hl : Handler, with : Query \cup {NoAnswer}])

Init ==
  /\ requests = <<>>
  /\ locked = 1 /\ pendingTime = Wait /\ now = 0
  /\ rlReaders = {}
  /\ asked = 0 /\ asks = <<>>
  /\ pc = [p \in Process |-> "idle"]
  /\ mine = [a \in App |-> 0]
  /\ read = [a \in App |-> <<>>]
  /\ due = [t \in Timer |-> 0]
  /\ pendings = [p \in Process |-> <<>>]
  /\ called = <<>>

At(p, point) == pc[p] = point
Goto(p, point) == pc' = [pc EXCEPT ![p] = point]

-----------------------------------------------------------------------------
(* Request. *)

Request(a, q) ==
  /\ At(a, "idle")
  /\ now \in RequestTimes
  /\ asked < MaxRequests
  /\ asked' = asked + 1
  /\ asks' = Append(asks, q)
  /\ mine' = [mine EXCEPT ![a] = asked']
  /\ locked' = 1
  /\ Goto(a, "rlock")
  /\ UNCHANGED <<requests, pendingTime, now, rlReaders, read, due, pendings, called>>

QueryOf(a) == asks[mine[a]]
IsNew(a) == \A i \in DOMAIN requests : requests[i].qry # QueryOf(a)
Stacked(a) == [qry |-> QueryOf(a), hl |-> mine[a]]

(* The range over the stack.  The handler of a query that it finds there   *)
(* is appended to a copy.                                                  *)
ReadRequests(a) ==
  /\ At(a, "rlock")
  /\ rlReaders' = rlReaders \cup {a}
  /\ Goto(a, IF IsNew(a) THEN "read" ELSE "start")
  /\ UNCHANGED <<requests, locked, pendingTime, now, asked, asks, mine, read, due, pendings,
                 called>>

(* The append takes the stack as it is now and puts it back with one more. *)
ReadAgain(a) ==
  /\ At(a, "read")
  /\ read' = [read EXCEPT ![a] = requests]
  /\ Goto(a, "append")
  /\ UNCHANGED <<requests, locked, pendingTime, now, rlReaders, asked, asks, mine, due,
                 pendings, called>>

Stack(a) ==
  /\ At(a, "append")
  /\ requests' = Append(read[a], Stacked(a))
  /\ read' = [read EXCEPT ![a] = <<>>]
  /\ Goto(a, "start")
  /\ UNCHANGED <<locked, pendingTime, now, rlReaders, asked, asks, mine, due, pendings, called>>

StartTimer(a) ==
  /\ At(a, "start")
  /\ due' = [due EXCEPT ![mine[a]] = now + Wait]
  /\ pc' = [pc EXCEPT ![a] = "serve", ![mine[a]] = "wait"]
  /\ UNCHANGED <<requests, locked, pendingTime, now, rlReaders, asked, asks, mine, read,
                 pendings, called>>

(* Mutant: the flag is read the wrong way round. *)
FireUnlessUnlocked(t) ==
  /\ At(t, "wait")
  /\ now >= due[t]
  /\ Goto(t, IF locked > 0 THEN "idle" ELSE "serve")
  /\ UNCHANGED <<requests, locked, pendingTime, now, rlReaders, asked, asks, mine, read, due,
                 pendings, called>>

(* The goroutine a Request leaves behind. *)
Fire(t) ==
  /\ At(t, "wait")
  /\ now >= due[t]
  /\ Goto(t, IF locked > 0 THEN "serve" ELSE "idle")
  /\ UNCHANGED <<requests, locked, pendingTime, now, rlReaders, asked, asks, mine, read, due,
                 pendings, called>>

-----------------------------------------------------------------------------
(* Serve.  An app that returns from it returns from Request, where the     *)
(* deferred RUnlock runs.                                                  *)

Return(p) ==
  /\ Goto(p, "idle")
  /\ rlReaders' = rlReaders \ {p}

TooEarly(p) ==
  /\ At(p, "serve")
  /\ now < pendingTime
  /\ Return(p)
  /\ UNCHANGED <<requests, locked, pendingTime, now, asked, asks, mine, read, due, pendings,
                 called>>

Serve(p) ==
  /\ At(p, "serve")
  /\ now >= pendingTime
  /\ Goto(p, "unlock")
  /\ UNCHANGED <<requests, locked, pendingTime, now, rlReaders, asked, asks, mine, read, due,
                 pendings, called>>

Unlock(p) ==
  /\ At(p, "unlock")
  /\ locked' = 0
  /\ Goto(p, "swap")
  /\ UNCHANGED <<requests, pendingTime, now, rlReaders, asked, asks, mine, read, due, pendings,
                 called>>

(* Mutant: the stack is not emptied. *)
SwapKeeping(p) ==
  /\ At(p, "swap")
  /\ rlReaders = {}
  /\ pendings' = [pendings EXCEPT ![p] = requests]
  /\ Goto(p, "send")
  /\ UNCHANGED <<requests, locked, pendingTime, now, rlReaders, asked, asks, mine, read, due,
                 called>>

Swap(p) ==
  /\ At(p, "swap")
  /\ rlReaders = {}
  /\ pendings' = [pendings EXCEPT ![p] = requests]
  /\ requests' = <<>>
  /\ Goto(p, "send")
  /\ UNCHANGED <<locked, pendingTime, now, rlReaders, asked, asks, mine, read, due, called>>

(* pending.Emit for the handlers of what p took: the answer at position i  *)
(* goes to the i-th of them.                                               *)
Emit(p, answers) ==
  called' = called \o [i \in DOMAIN pendings[p] |->
                         [hl |-> pendings[p][i].hl, with |-> answers[i]]]

AnswersBut(p, failed) ==
  [i \in DOMAIN pendings[p] |-> IF i \in failed THEN NoAnswer ELSE pendings[p][i].qry]

(* A failed transport fails every query, and any of several may fail by    *)
(* itself (QueryFailed).  The records of a single query may be none, which *)
(* is a reply of inadequate length: no handler is called.                  *)
Answered(p) ==
  \/ \E failed \in SUBSET DOMAIN pendings[p] :
       /\ failed = {} \/ "error" \in Failures
       /\ Emit(p, AnswersBut(p, failed))
  \/ /\ "empty" \in Failures
     /\ Len(pendings[p]) = 1
     /\ UNCHANGED called

Send(p) ==
  /\ At(p, "send")
  /\ Answered(p)
  /\ pendings' = [pendings EXCEPT ![p] = <<>>]
  /\ Goto(p, "reset")
  /\ UNCHANGED <<requests, locked, pendingTime, now, rlReaders, asked, asks, mine, read, due>>

(* Mutant: the next window follows the last one. *)
ResetFromLast(p) ==
  /\ At(p, "reset")
  /\ pendingTime' = pendingTime + Wait
  /\ Return(p)
  /\ UNCHANGED <<requests, locked, now, asked, asks, mine, read, due, pendings, called>>

Reset(p) ==
  /\ At(p, "reset")
  /\ pendingTime' = now + Wait
  /\ Return(p)
  /\ UNCHANGED <<requests, locked, now, asked, asks, mine, read, due, pendings, called>>

-----------------------------------------------------------------------------
Tick ==
  /\ now < MaxTime
  /\ Prompt => \A a \in App : At(a, "idle")
  /\ now' = now + 1
  /\ UNCHANGED <<requests, locked, pendingTime, rlReaders, asked, asks, mine, read, due, pc,
                 pendings, called>>

Step(p) == \/ p \in App /\ (ReadRequests(p) \/ ReadAgain(p) \/ Stack(p) \/ StartTimer(p))
           \/ p \in Timer /\ Fire(p)
           \/ TooEarly(p) \/ Serve(p) \/ Unlock(p) \/ Swap(p) \/ Send(p) \/ Reset(p)

Next == \/ \E a \in App : \E q \in Query : Request(a, q)
        \/ \E p \in Process : Step(p)
        \/ Tick

SafeSpec == Init /\ [][Next]_vars

(* Goroutines run, a waiting rl.Lock keeps later readers out, transports   *)
(* have a timeout (client/web), and time passes.                           *)
Spec == SafeSpec /\ WF_vars(Tick) /\ \A p \in Process : SF_vars(Step(p))

-----------------------------------------------------------------------------
(* HandlersGetTheirs: a handler is called at most once, with the answer to *)
(* the query of its request or with an error, however many Serves overlap, *)
(* and though the stack may hold a query twice or lose an append.          *)
HandlersGetTheirs ==
  /\ IsInjective([i \in DOMAIN called |-> called[i].hl])
  /\ \A i \in DOMAIN called : called[i].with \in {asks[called[i].hl], NoAnswer}

WasCalled(h) == \E i \in DOMAIN called : called[i].hl = h

(* StartupIsServed: the requests an app makes one after another when it    *)
(* starts, each for another query, all get their handler called.           *)
StartupIsServed ==
  \A h \in Handler : (h <= asked /\ IsInjective(asks)) ~> WasCalled(h)
=============================================================================
