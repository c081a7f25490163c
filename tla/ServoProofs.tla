---------------------------- MODULE ServoProofs -----------------------------
(***************************************************************************)
(* Theorems about Servo, for all apps, queries, requests and times.        *)
(***************************************************************************)
EXTENDS Servo, SequenceTheorems, TLAPS

(* An app between its call of Request and the append.                      *)
Making(a) == pc[a] \in {"rlock", "read", "append"}

(* The request an app is making was asked, and no other app makes it.      *)
MineInv ==
  /\ \A a \in App : Making(a) \/ At(a, "start") => mine[a] \in 1..asked
  /\ \A a, b \in App : Making(a) /\ Making(b) /\ a # b => mine[a] # mine[b]

(* An app that is about to append holds the lock.                          *)
LockInv == \A a \in App : At(a, "read") \/ At(a, "append") => a \in rlReaders

StackInv == TypeOK /\ MineInv /\ LockInv

(* The stack as it is, and as those who hold the lock have read it.        *)
Stacks == {requests} \cup {read[a] : a \in {b \in App : At(b, "append")}}

OncePerHandler(s) == \A i, j \in DOMAIN s : s[i].hl = s[j].hl => i = j

(* A handler stands with its own query, once in a stack and once in what a *)
(* Serve took, and not before its app has stacked it.                      *)
Fits(s) ==
  /\ OncePerHandler(s)
  /\ \A i \in DOMAIN s : /\ s[i].hl \in 1..asked
                         /\ s[i].qry = asks[s[i].hl]
                         /\ \A a \in App : Making(a) => s[i].hl # mine[a]
FitInv == /\ \A s \in Stacks : Fits(s)
          /\ \A p \in Process : Fits(pendings[p])

(* No two Serves took the same handler, and none is still in a stack.      *)
Apart(s, t) == \A i \in DOMAIN s : \A j \in DOMAIN t : s[i].hl # t[j].hl
ApartInv ==
  /\ \A p \in Process : \A s \in Stacks : Apart(pendings[p], s)
  /\ \A p, q \in Process : p # q => Apart(pendings[p], pendings[q])

(* A handler that was called is in no stack and with no Serve.             *)
CalledInv ==
  /\ OncePerHandler(called)
  /\ \A i \in DOMAIN called :
       /\ called[i].hl \in 1..asked
       /\ called[i].with \in {asks[called[i].hl], NoAnswer}
       /\ \A a \in App : Making(a) => called[i].hl # mine[a]
  /\ \A s \in Stacks : Apart(called, s)
  /\ \A p \in Process : Apart(called, pendings[p])

(* The handlers are where they should be.                                  *)
PlacesInv == FitInv /\ ApartInv /\ CalledInv

ServoInv == StackInv /\ PlacesInv
-----------------------------------------------------------------------------
(* Types and the lock. *)

(* The queries of the requests, with one more.                             *)
LEMMA AppendedQuery ==
  ASSUME NEW n \in Nat, NEW f \in [1..n -> Query], NEW q \in Query
  PROVE  /\ Append(f, q) \in [1..(n + 1) -> Query]
         /\ \A i \in 1..n : Append(f, q)[i] = f[i]
         /\ Append(f, q)[n + 1] = q
<1>1. f \in Seq(Query) /\ Len(f) = n
  OBVIOUS
<1>2. /\ Append(f, q) \in Seq(Query) /\ Len(Append(f, q)) = n + 1
      /\ \A i \in 1..n : Append(f, q)[i] = f[i]
      /\ Append(f, q)[n + 1] = q
  BY <1>1, AppendProperties
<1>3. Append(f, q) \in [1..Len(Append(f, q)) -> Query]
  BY <1>2, LenProperties
<1> QED
  BY <1>2, <1>3

(* Functions from 1..n are sequences.                                      *)
LEMMA FunctionIsSeq ==
  ASSUME NEW S, NEW n \in Nat, NEW f \in [1..n -> S]
  PROVE  f \in Seq(S)
OBVIOUS

(* What p took.                                                            *)
LEMMA PendingsType ==
  ASSUME TypeOK, NEW p \in Process
  PROVE  /\ pendings[p] \in Seq(Handlers)
         /\ Len(pendings[p]) \in Nat /\ DOMAIN pendings[p] = 1..Len(pendings[p])
         /\ \A i \in DOMAIN pendings[p] :
              pendings[p][i].hl \in Handler /\ pendings[p][i].qry \in Query
<1>1. pendings[p] \in Seq(Handlers)
  BY DEF TypeOK
<1>2. Len(pendings[p]) \in Nat /\ DOMAIN pendings[p] = 1..Len(pendings[p])
  BY <1>1, LenProperties
<1>3. \A i \in DOMAIN pendings[p] : pendings[p][i] \in Handlers
  BY <1>1, <1>2, ElementOfSeq
<1> QED
  BY <1>1, <1>2, <1>3 DEF Handlers

(* What a list of handlers holds with one more.                            *)
LEMMA AppendedHandler ==
  ASSUME NEW s \in Seq(Handlers), NEW x \in Handlers
  PROVE  /\ Append(s, x) \in Seq(Handlers)
         /\ DOMAIN Append(s, x) = 1..(Len(s) + 1)
         /\ DOMAIN s = 1..Len(s) /\ Len(s) \in Nat
         /\ \A i \in 1..Len(s) : Append(s, x)[i] = s[i]
         /\ Append(s, x)[Len(s) + 1] = x
BY AppendProperties

(* What p takes becomes calls, each with an answer.                        *)
LEMMA EmittedType ==
  ASSUME TypeOK, NEW p \in Process,
         NEW answers \in [DOMAIN pendings[p] -> Query \cup {NoAnswer}]
  PROVE  [i \in DOMAIN pendings[p] |-> [hl |-> pendings[p][i].hl, with |-> answers[i]]]
           \in Seq([hl : Handler, with : Query \cup {NoAnswer}])
<1> DEFINE calls == [i \in DOMAIN pendings[p] |->
                       [hl |-> pendings[p][i].hl, with |-> answers[i]]]
<1>1. calls \in [1..Len(pendings[p]) -> [hl : Handler, with : Query \cup {NoAnswer}]]
  BY PendingsType
<1> HIDE DEF calls
<1>2. calls \in Seq([hl : Handler, with : Query \cup {NoAnswer}])
  BY <1>1, PendingsType, FunctionIsSeq
<1> QED
  BY <1>2 DEF calls

(* Failed queries have no answer, the others their own.                    *)
LEMMA AnswersType ==
  ASSUME TypeOK, NEW p \in Process, NEW failed
  PROVE  /\ AnswersBut(p, failed) \in [DOMAIN pendings[p] -> Query \cup {NoAnswer}]
         /\ \A i \in DOMAIN pendings[p] :
              AnswersBut(p, failed)[i] \in {pendings[p][i].qry, NoAnswer}
BY PendingsType DEF AnswersBut

(* The calls of Send are calls.                                            *)
LEMMA CalledType ==
  ASSUME TypeOK, NEW p \in Process, Answered(p)
  PROVE  called' \in Seq([hl : Handler, with : Query \cup {NoAnswer}])
<1>1. CASE UNCHANGED called
  BY <1>1 DEF TypeOK
<1>2. ASSUME NEW failed, Emit(p, AnswersBut(p, failed))
      PROVE  called' \in Seq([hl : Handler, with : Query \cup {NoAnswer}])
  <2>1. [i \in DOMAIN pendings[p] |-> [hl |-> pendings[p][i].hl,
                                      with |-> AnswersBut(p, failed)[i]]]
          \in Seq([hl : Handler, with : Query \cup {NoAnswer}])
    BY AnswersType, EmittedType
  <2> QED
    BY <1>2, <2>1, ConcatProperties DEF Emit, TypeOK
<1> QED
  BY <1>1, <1>2 DEF Answered

(* The initial states.                                                     *)
LEMMA InitStackInv == Init => StackInv
<1> SUFFICES ASSUME Init PROVE StackInv
  OBVIOUS
<1>1. /\ Wait \in Nat /\ MaxTime \in Nat /\ MaxRequests \in Nat
  BY TimesAreNumbers
<1>2. TypeOK
  <2>1. requests \in Seq(Handlers) /\ called \in Seq([hl : Handler, with : Query \cup {NoAnswer}])
    BY DEF Init
  <2>2. pendingTime \in 0..MaxTime + Wait /\ now \in 0..MaxTime
        /\ due \in [Timer -> 0..MaxTime + Wait]
    BY <1>1 DEF Init
  <2>3. asks \in [1..asked -> Query] /\ asked \in 0..MaxRequests
    BY <1>1 DEF Init
  <2>4. read \in [App -> Seq(Handlers)] /\ pendings \in [Process -> Seq(Handlers)]
    BY DEF Init
  <2> QED
    BY <2>1, <2>2, <2>3, <2>4 DEF TypeOK, Init
<1>3. MineInv /\ LockInv
  BY DEF Init, MineInv, LockInv, Making, At, Process
<1> QED
  BY <1>2, <1>3 DEF StackInv

(* A new request has the next number.                                      *)
LEMMA RequestStackInv ==
  ASSUME StackInv, NEW a \in App, NEW q \in Query, Request(a, q)
  PROVE  StackInv'
<1> USE DEF StackInv
<1>1. asked \in Nat /\ asked + 1 \in 1..MaxRequests /\ asked' = asked + 1
  BY TimesAreNumbers DEF Request, TypeOK
<1>2. asks' \in [1..asked' -> Query]
  BY <1>1, AppendedQuery DEF Request, TypeOK
<1>3. mine' \in [App -> Handler \cup {0}] /\ mine'[a] = asked + 1
      /\ \A b \in App : b # a => mine'[b] = mine[b]
  BY <1>1 DEF Request, TypeOK, Handler
<1>4. pc' = [pc EXCEPT ![a] = "rlock"]
  BY DEF Request, Goto
<1>5. TypeOK'
  BY <1>1, <1>2, <1>3, <1>4 DEF Request, TypeOK, Process
<1>6. \A b \in App : Making(b)' => b = a \/ Making(b)
  BY <1>4 DEF Making, TypeOK, Process
<1>7. \A b \in App : At(b, "start")' => At(b, "start") /\ b # a
  BY <1>4 DEF At, TypeOK, Process
<1>8. MineInv'
  BY <1>1, <1>3, <1>6, <1>7 DEF MineInv
<1>9. LockInv'
  BY <1>4 DEF LockInv, At, TypeOK, Process, Request
<1> QED
  BY <1>5, <1>8, <1>9

(* The stack an app builds.                                                *)
LEMMA StackedType ==
  ASSUME StackInv, NEW a \in App, Making(a)
  PROVE  /\ Stacked(a) \in Handlers /\ Stacked(a).hl = mine[a]
         /\ Stacked(a).qry = asks[mine[a]]
<1>1. mine[a] \in 1..asked /\ 1..asked \subseteq Handler
  BY TimesAreNumbers DEF StackInv, MineInv, TypeOK, Handler
<1>2. asks[mine[a]] \in Query
  BY <1>1 DEF StackInv, TypeOK
<1> QED
  BY <1>1, <1>2 DEF Stacked, QueryOf, Handlers

(* The steps of Request that move an app on: they look at the stack under  *)
(* the lock, copy it or start the timer.                                   *)
LEMMA MakingStackInv ==
  ASSUME StackInv, TypeOK', NEW a \in App, Making(a),
         NEW point, Goto(a, point), point \in {"read", "append", "start"},
         UNCHANGED <<asked, mine>>,
         rlReaders' = rlReaders \cup {a}
  PROVE  /\ StackInv'
         /\ \A b \in App : Making(b)' => Making(b)
         /\ \A b \in App : b # a => pc'[b] = pc[b]
<1> USE DEF StackInv
<1>1. pc'[a] = point /\ \A b \in App : b # a => pc'[b] = pc[b]
  BY DEF Goto, TypeOK, Process
<1>2. \A b \in App : /\ Making(b)' => Making(b)
                     /\ At(b, "start")' => At(b, "start") \/ Making(b)
  BY <1>1 DEF Making, At
<1>3. MineInv'
  BY <1>2 DEF MineInv
<1>4. LockInv'
  BY <1>1 DEF LockInv, At
<1> QED
  BY <1>1, <1>2, <1>3, <1>4

(* Its timer runs.                                                         *)
LEMMA StartStackInv ==
  ASSUME StackInv, NEW a \in App, StartTimer(a)
  PROVE  /\ StackInv'
         /\ \A b \in App : /\ Making(b)' => Making(b)
                           /\ At(b, "append")' => At(b, "append")
<1> USE DEF StackInv
<1>1. mine[a] \in Timer /\ mine[a] \notin App
  BY AppsAreNoTimers DEF StartTimer, MineInv, TypeOK, Timer, Handler
<1>2. due' \in [Timer -> 0..MaxTime + Wait]
  <2>1. now + Wait \in 0..MaxTime + Wait
    BY TimesAreNumbers DEF TypeOK
  <2> QED
    BY <2>1 DEF StartTimer, TypeOK
<1>3. pc' = [pc EXCEPT ![a] = "serve", ![mine[a]] = "wait"]
  BY DEF StartTimer
<1>4. TypeOK'
  BY <1>2, <1>3 DEF StartTimer, TypeOK
<1>5. \A b \in App : pc'[b] \in {pc[b], "serve"}
  BY <1>1, <1>3 DEF TypeOK, Process
<1>6. \A b \in App : /\ Making(b)' => Making(b)
                     /\ At(b, "append")' => At(b, "append")
                     /\ At(b, "read")' => At(b, "read")
                     /\ At(b, "start")' => At(b, "start")
  BY <1>5 DEF Making, At
<1>7. MineInv' /\ LockInv'
  BY <1>6 DEF StartTimer, MineInv, LockInv
<1> QED
  BY <1>4, <1>6, <1>7

(* A step of a Serve or a timer, which moves p to a place of its own.      *)
LEMMA ServeStackInv ==
  ASSUME StackInv, TypeOK', NEW p \in Process, NEW point,
         ~At(p, "append"), Goto(p, point), point \notin {"rlock", "read", "append", "start"},
         UNCHANGED <<asked, mine>>, rlReaders' = rlReaders \/ rlReaders' = rlReaders \ {p}
  PROVE  /\ StackInv'
         /\ \A b \in App : /\ Making(b)' => Making(b)
                           /\ At(b, "append")' => At(b, "append")
<1> USE DEF StackInv
<1>1. \A b \in App : b # p => pc'[b] = pc[b]
  BY DEF Goto, TypeOK, Process
<1>2. p \in App => pc'[p] = point
  BY DEF Goto, TypeOK
<1>3. \A b \in App : /\ Making(b)' => Making(b)
                     /\ At(b, "append")' => At(b, "append")
                     /\ At(b, "start")' => At(b, "start")
  BY <1>1, <1>2 DEF Making, At
<1>4. MineInv'
  BY <1>3 DEF MineInv
<1>5. LockInv'
  BY <1>1, <1>2 DEF LockInv, At
<1> QED
  BY <1>3, <1>4, <1>5

(* Looking at the stack takes the lock.                                    *)
LEMMA ReadStackInv ==
  ASSUME StackInv, NEW a \in App, ReadRequests(a)
  PROVE  /\ StackInv'
         /\ \A b \in App : Making(b)' => Making(b)
         /\ Stacks' \subseteq Stacks
<1> DEFINE point == IF IsNew(a) THEN "read" ELSE "start"
<1>1. Goto(a, point) /\ point \in {"read", "start"} /\ rlReaders' = rlReaders \cup {a}
  BY DEF ReadRequests
<1> HIDE DEF point
<1>2. TypeOK'
  BY <1>1 DEF ReadRequests, StackInv, TypeOK, Goto
<1>3. Making(a)
  BY DEF ReadRequests, Making, At
<1>4. /\ StackInv' /\ \A b \in App : Making(b)' => Making(b)
      /\ \A b \in App : b # a => pc'[b] = pc[b]
  BY <1>1, <1>2, <1>3, MakingStackInv DEF ReadRequests
<1>5. pc'[a] = point
  BY <1>1 DEF Goto, StackInv, TypeOK, Process
<1>6. Stacks' \subseteq Stacks
  BY <1>1, <1>4, <1>5 DEF Stacks, At, ReadRequests
<1> QED
  BY <1>4, <1>6

(* Reading it again for the append makes a copy.                           *)
LEMMA AgainStackInv ==
  ASSUME StackInv, NEW a \in App, ReadAgain(a)
  PROVE  /\ StackInv'
         /\ \A b \in App : Making(b)' => Making(b)
         /\ Stacks' \subseteq Stacks
<1>1. Goto(a, "append") /\ At(a, "read")
  BY DEF ReadAgain
<1>2. TypeOK'
  BY <1>1 DEF ReadAgain, StackInv, TypeOK, Goto
<1>3. Making(a) /\ rlReaders' = rlReaders \cup {a}
  BY <1>1 DEF ReadAgain, Making, At, StackInv, LockInv
<1>4. /\ StackInv' /\ \A b \in App : Making(b)' => Making(b)
      /\ \A b \in App : b # a => pc'[b] = pc[b]
  BY <1>1, <1>2, <1>3, MakingStackInv DEF ReadAgain
<1>5. read'[a] = requests /\ requests' = requests
      /\ \A b \in App : b # a => read'[b] = read[b]
  BY DEF ReadAgain, StackInv, TypeOK
<1>6. Stacks' \subseteq Stacks
  BY <1>4, <1>5 DEF Stacks, At
<1> QED
  BY <1>4, <1>6

(* The append puts the copy back with one more.                            *)
LEMMA AppendStackInv ==
  ASSUME StackInv, NEW a \in App, Stack(a)
  PROVE  /\ StackInv'
         /\ \A b \in App : /\ Making(b)' => Making(b) /\ b # a
                           /\ At(b, "append")' => At(b, "append") /\ b # a
<1>1. Making(a) /\ rlReaders' = rlReaders \cup {a} /\ Goto(a, "start")
  BY DEF Stack, At, Making, StackInv, LockInv
<1>2. requests' \in Seq(Handlers)
  BY <1>1, StackedType, AppendedHandler DEF Stack, StackInv, TypeOK
<1>3. read' \in [App -> Seq(Handlers)]
  BY DEF Stack, StackInv, TypeOK
<1>4. TypeOK'
  BY <1>2, <1>3 DEF Stack, StackInv, TypeOK, Goto
<1>5. /\ StackInv' /\ \A b \in App : Making(b)' => Making(b)
      /\ \A b \in App : b # a => pc'[b] = pc[b]
  BY <1>1, <1>4, MakingStackInv DEF Stack
<1>6. pc'[a] = "start"
  BY <1>1 DEF Goto, StackInv, TypeOK, Process
<1> QED
  BY <1>5, <1>6 DEF At, Making

-----------------------------------------------------------------------------
(* The handlers. *)

(* Nothing is moved.                                                       *)
LEMMA KeptPlaces ==
  ASSUME PlacesInv, UNCHANGED <<mine, asked, asks, pendings, called>>,
         \A b \in App : Making(b)' => Making(b),
         Stacks' \subseteq Stacks
  PROVE  PlacesInv'
<1> USE DEF PlacesInv
<1>2. \A s : Fits(s) => Fits(s)'
  BY DEF Fits
<1>3. FitInv'
  BY <1>2 DEF FitInv
<1>4. ApartInv'
  BY DEF ApartInv
<1>5. CalledInv'
  BY DEF CalledInv
<1> QED
  BY <1>3, <1>4, <1>5

(* Stacks that nobody changes.                                             *)
LEMMA KeptStacks ==
  ASSUME UNCHANGED <<requests, read>>,
         \A b \in App : At(b, "append")' => At(b, "append")
  PROVE  Stacks' \subseteq Stacks
BY DEF Stacks

(* A new request: nothing holds its handler yet.                           *)
LEMMA RequestPlaces ==
  ASSUME ServoInv, NEW a \in App, NEW q \in Query, Request(a, q)
  PROVE  PlacesInv'
<1> USE DEF ServoInv, PlacesInv
<1>1. asked \in Nat /\ asked' = asked + 1
  BY TimesAreNumbers DEF Request, TypeOK, StackInv
<1>2. \A i \in 1..asked : i \in 1..asked' /\ i # asked + 1 /\ asks'[i] = asks[i]
  BY <1>1, AppendedQuery DEF Request, TypeOK, StackInv
<1>3. mine'[a] = asked + 1 /\ \A b \in App : b # a => mine'[b] = mine[b]
  BY <1>1 DEF Request, TypeOK, StackInv
<1>4. \A b \in App : b # a => pc'[b] = pc[b]
  BY DEF Request, Goto, TypeOK, StackInv, Process
<1>5. pc'[a] = "rlock"
  BY DEF Request, Goto, TypeOK, StackInv, Process
<1>6. \A b \in App : (Making(b)' => Making(b) \/ b = a) /\ (At(b, "append")' => At(b, "append"))
  BY <1>4, <1>5 DEF Making, At
<1>7. Stacks' \subseteq Stacks
  BY <1>6, KeptStacks DEF Request
<1>8. \A h \in 1..asked : (\A b \in App : Making(b) => h # mine[b])
                          => (\A b \in App : Making(b)' => h # mine'[b])
  BY <1>2, <1>3, <1>6
<1>10. \A s : Fits(s) => Fits(s)'
  BY <1>2, <1>8 DEF Fits
<1>11. FitInv'
  BY <1>7, <1>10 DEF FitInv, Request
<1>12. ApartInv'
  BY <1>7 DEF ApartInv, Request
<1>13. CalledInv'
  BY <1>2, <1>7, <1>8 DEF CalledInv, Request
<1> QED
  BY <1>11, <1>12, <1>13

(* A stack with one more.                                                  *)
LEMMA FitsAppended ==
  ASSUME ServoInv, NEW a \in App, At(a, "append")
  PROVE  LET s == Append(read[a], Stacked(a)) IN
         /\ OncePerHandler(s)
         /\ \A i \in DOMAIN s : s[i] = Stacked(a) \/ \E j \in DOMAIN read[a] : s[i] = read[a][j]
<1> DEFINE s == Append(read[a], Stacked(a))
<1>1. Making(a) /\ read[a] \in Stacks
  BY DEF Making, At, Stacks
<1>2. /\ DOMAIN s = 1..(Len(read[a]) + 1)
      /\ DOMAIN read[a] = 1..Len(read[a]) /\ Len(read[a]) \in Nat
      /\ \A i \in 1..Len(read[a]) : s[i] = read[a][i]
      /\ s[Len(read[a]) + 1] = Stacked(a)
  BY <1>1, StackedType, AppendedHandler DEF ServoInv, StackInv, TypeOK
<1>3. Stacked(a).hl = mine[a]
  BY <1>1 DEF Stacked
<1>4. /\ OncePerHandler(read[a])
      /\ \A i \in DOMAIN read[a] : read[a][i].hl # mine[a]
  BY <1>1 DEF ServoInv, PlacesInv, FitInv, Fits
<1> HIDE DEF s
<1>5. \A i \in DOMAIN s : \/ i \in DOMAIN read[a] /\ s[i] = read[a][i]
                          \/ i = Len(read[a]) + 1 /\ s[i] = Stacked(a)
  BY <1>2
<1>7. OncePerHandler(s)
  BY <1>3, <1>4, <1>5 DEF OncePerHandler
<1> QED
  BY <1>5, <1>7 DEF s

(* The app that stacks its query.  Its copy may be an old one.             *)
LEMMA AppendPlaces ==
  ASSUME ServoInv, NEW a \in App, Stack(a)
  PROVE  PlacesInv'
<1> USE DEF ServoInv, PlacesInv
<1> DEFINE s == Append(read[a], Stacked(a))
<1>1. At(a, "append") /\ Making(a)
  BY DEF Stack, At, Making
<1>2. mine[a] \in 1..asked
  BY <1>1 DEF StackInv, MineInv
<1>3. /\ UNCHANGED <<mine, asked, asks, pendings, called>> /\ requests' = s
      /\ \A b \in App : b # a => read'[b] = read[b]
  BY DEF Stack
<1>4. \A b \in App : /\ Making(b)' => Making(b) /\ b # a
                     /\ At(b, "append")' => At(b, "append") /\ b # a
  BY AppendStackInv
<1>5. \A b \in App : Making(b)' => mine[a] # mine[b]
  BY <1>1, <1>4 DEF StackInv, MineInv
<1>6. Stacks' \subseteq Stacks \cup {requests'}
  BY <1>3, <1>4 DEF Stacks
<1>7. \A t : Fits(t) => Fits(t)'
  BY <1>3, <1>4 DEF Fits
<1>8. /\ OncePerHandler(s)
      /\ \A i \in DOMAIN s : s[i] = Stacked(a) \/ \E j \in DOMAIN read[a] : s[i] = read[a][j]
  BY <1>1, FitsAppended
<1>9. Stacked(a).hl = mine[a] /\ Stacked(a).qry = asks[mine[a]]
  BY DEF Stacked, QueryOf
<1>10. read[a] \in Stacks
  BY <1>1 DEF Stacks
<1> HIDE DEF s
<1>11. Fits(requests)'
  <2>1. Fits(read[a])
    BY <1>10 DEF FitInv
  <2>2. OncePerHandler(requests)'
    BY <1>3, <1>8 DEF OncePerHandler
  <2>3. \A i \in DOMAIN s : /\ s[i].hl \in 1..asked /\ s[i].qry = asks[s[i].hl]
                           /\ \A b \in App : Making(b)' => s[i].hl # mine[b]
    BY <1>2, <1>4, <1>5, <1>8, <1>9, <2>1 DEF Fits
  <2> QED
    BY <1>3, <2>2, <2>3 DEF Fits
<1>12. FitInv'
  BY <1>3, <1>6, <1>7, <1>11 DEF FitInv
<1>13. \A t : Apart(t, read[a]) /\ (\A i \in DOMAIN t : t[i].hl # mine[a]) => Apart(t, s)
  BY <1>8, <1>9 DEF Apart
<1>14. \A p \in Process : Apart(pendings[p], s)
  BY <1>1, <1>10, <1>13 DEF ApartInv, FitInv, Fits
<1>15. Apart(called, s)
  BY <1>1, <1>10, <1>13 DEF CalledInv
<1>16. ApartInv'
  BY <1>3, <1>6, <1>14 DEF ApartInv
<1>17. CalledInv'
  BY <1>3, <1>4, <1>6, <1>15 DEF CalledInv
<1> QED
  BY <1>12, <1>16, <1>17

(* The stack becomes what p took.  No app is about to write it back.       *)
LEMMA SwapInv ==
  ASSUME ServoInv, NEW p \in Process, Swap(p)
  PROVE  ServoInv'
<1> USE DEF ServoInv, PlacesInv
<1>1. \A a \in App : ~At(a, "append")
  BY DEF Swap, StackInv, LockInv
<1>2. /\ requests' = <<>> /\ pendings' = [pendings EXCEPT ![p] = requests]
      /\ UNCHANGED <<locked, pendingTime, now, rlReaders, asked, asks, mine, read, due, called>>
      /\ Goto(p, "send")
  BY DEF Swap
<1>3. TypeOK'
  <2>1. requests' \in Seq(Handlers)
    BY <1>2
  <2>2. pc' \in [Process -> {"idle", "rlock", "read", "append", "start", "serve", "unlock",
                             "swap", "send", "reset", "wait"}]
    BY <1>2 DEF Goto, StackInv, TypeOK
  <2>3. pendings' \in [Process -> Seq(Handlers)]
    BY <1>2 DEF StackInv, TypeOK
  <2> QED
    BY <1>2, <2>1, <2>2, <2>3 DEF StackInv, TypeOK
<1>4. ~At(p, "append")
  BY DEF Swap, At
<1>5. /\ StackInv'
      /\ \A b \in App : /\ Making(b)' => Making(b)
                        /\ At(b, "append")' => At(b, "append")
  BY <1>2, <1>3, <1>4, ServeStackInv
<1>6. requests \in Stacks /\ \A s \in Stacks' : s = <<>>
  BY <1>1, <1>2, <1>5 DEF Stacks
<1>7. /\ pendings'[p] = requests
      /\ \A q \in Process : q # p => pendings'[q] = pendings[q]
  BY <1>2 DEF StackInv, TypeOK
<1>8. /\ DOMAIN <<>> = {}
      /\ \A s : Apart(s, <<>>)
  BY DEF Apart
<1>10. \A s : Fits(s) => Fits(s)'
  BY <1>2, <1>5 DEF Fits
<1>11. FitInv'
  <2>1. \A s \in Stacks' : Fits(s)'
    BY <1>6, <1>8 DEF Fits, OncePerHandler
  <2>2. \A q \in Process : Fits(pendings'[q])
    BY <1>6, <1>7 DEF FitInv
  <2> QED
    BY <1>10, <2>1, <2>2 DEF FitInv
<1>12. ApartInv'
  <2>1. \A q \in Process : Apart(pendings[q], requests) /\ Apart(requests, pendings[q])
    BY <1>6 DEF ApartInv, Apart
  <2>2. \A q, r \in Process : q # r => Apart(pendings'[q], pendings'[r])
    BY <1>7, <2>1 DEF ApartInv
  <2> QED
    BY <1>6, <1>8, <2>2 DEF ApartInv
<1>13. CalledInv'
  <2>1. \A q \in Process : Apart(called, pendings'[q])
    BY <1>6, <1>7 DEF CalledInv
  <2> QED
    BY <1>2, <1>5, <1>6, <1>8, <2>1 DEF CalledInv
<1> QED
  BY <1>5, <1>11, <1>12, <1>13

(* The answers go to the handlers p took, each once.                       *)
LEMMA EmittedPlaces ==
  ASSUME ServoInv, NEW p \in Process, Answered(p)
  PROVE  /\ OncePerHandler(called')
         /\ \A i \in DOMAIN called' :
              \/ i \in DOMAIN called /\ called'[i] = called[i]
              \/ \E j \in DOMAIN pendings[p] :
                   /\ called'[i].hl = pendings[p][j].hl
                   /\ called'[i].with \in {pendings[p][j].qry, NoAnswer}
<1> USE DEF ServoInv, PlacesInv
<1>1. CASE UNCHANGED called
  BY <1>1 DEF CalledInv
<1>2. ASSUME NEW failed, Emit(p, AnswersBut(p, failed))
      PROVE  /\ OncePerHandler(called')
             /\ \A i \in DOMAIN called' :
                  \/ i \in DOMAIN called /\ called'[i] = called[i]
                  \/ \E j \in DOMAIN pendings[p] :
                       /\ called'[i].hl = pendings[p][j].hl
                       /\ called'[i].with \in {pendings[p][j].qry, NoAnswer}
  <2> DEFINE calls == [i \in DOMAIN pendings[p] |-> [hl |-> pendings[p][i].hl,
                                                     with |-> AnswersBut(p, failed)[i]]]
             Call == [hl : Handler, with : Query \cup {NoAnswer}]
             Calls == Seq(Call)
             n == Len(called)
             m == Len(pendings[p])
  <2>1. TypeOK
    BY DEF StackInv
  <2>2. calls \in Calls
    BY <2>1, AnswersType, EmittedType
  <2>3. called \in Calls
    BY <2>1 DEF TypeOK
  <2>4. m \in Nat /\ DOMAIN pendings[p] = 1..m /\ DOMAIN calls = 1..m
    BY <2>1, PendingsType
  <2>5. \A j \in 1..m : /\ calls[j].hl = pendings[p][j].hl
                        /\ calls[j].with \in {pendings[p][j].qry, NoAnswer}
    BY <2>1, <2>4, AnswersType
  <2>6. called' = called \o calls
    BY <1>2 DEF Emit
  <2> HIDE DEF calls
  <2>7. Len(calls) = m /\ n \in Nat /\ DOMAIN called = 1..n
    BY <2>2, <2>3, <2>4, LenProperties
  <2>8. /\ DOMAIN called' = 1..(n + m)
        /\ \A i \in 1..(n + m) : called'[i] = IF i <= n THEN called[i] ELSE calls[i - n]
    <3>1. /\ called' \in Calls /\ Len(called') = n + m
          /\ \A i \in 1..(n + m) : called'[i] = IF i <= n THEN called[i] ELSE calls[i - n]
      <4> HIDE DEF Call
      <4>1. called \in Seq(Call) /\ calls \in Seq(Call)
        BY <2>2, <2>3
      <4>2. /\ called \o calls \in Seq(Call)
            /\ Len(called \o calls) = Len(called) + Len(calls)
            /\ \A i \in 1..(Len(called) + Len(calls)) :
                 (called \o calls)[i] = IF i <= Len(called) THEN called[i]
                                        ELSE calls[i - Len(called)]
        BY <4>1, ConcatProperties
      <4> QED
        BY <2>6, <2>7, <4>2
    <3> QED
      BY <3>1, LenProperties
  <2>9. \A i \in DOMAIN called' : \/ i \in 1..n /\ called'[i] = called[i]
                                  \/ i - n \in 1..m /\ called'[i] = calls[i - n]
    BY <2>4, <2>7, <2>8
  <2>10. OncePerHandler(called')
    <3>1. SUFFICES ASSUME NEW i \in DOMAIN called', NEW j \in DOMAIN called',
                          called'[i].hl = called'[j].hl
                   PROVE  i = j
      BY DEF OncePerHandler
    <3>2. i \in Nat /\ j \in Nat
      BY <2>4, <2>7, <2>8
    <3>3. CASE i \in 1..n /\ called'[i] = called[i] /\ j \in 1..n /\ called'[j] = called[j]
      BY <2>7, <3>1, <3>3 DEF CalledInv, OncePerHandler
    <3>4. CASE /\ i - n \in 1..m /\ called'[i] = calls[i - n]
               /\ j - n \in 1..m /\ called'[j] = calls[j - n]
      <4>1. pendings[p][i - n].hl = pendings[p][j - n].hl
        BY <2>5, <3>1, <3>4
      <4>2. i - n = j - n
        BY <2>4, <3>4, <4>1 DEF FitInv, Fits, OncePerHandler
      <4> QED
        BY <2>7, <3>2, <4>2
    <3>5. \A k \in 1..n, l \in 1..m : called[k].hl # pendings[p][l].hl
      BY <2>4, <2>7 DEF CalledInv, Apart
    <3>6. CASE i \in 1..n /\ called'[i] = called[i] /\ j - n \in 1..m /\ called'[j] = calls[j - n]
      BY <2>5, <3>1, <3>5, <3>6
    <3>7. CASE j \in 1..n /\ called'[j] = called[j] /\ i - n \in 1..m /\ called'[i] = calls[i - n]
      BY <2>5, <3>1, <3>5, <3>7
    <3> QED
      BY <2>9, <3>3, <3>4, <3>6, <3>7
  <2> QED
    BY <2>4, <2>5, <2>7, <2>9, <2>10
<1> QED
  BY <1>1, <1>2 DEF Answered

(* A Serve hands out the answers.                                          *)
LEMMA SendInv ==
  ASSUME ServoInv, NEW p \in Process, Send(p)
  PROVE  ServoInv'
<1> USE DEF ServoInv, PlacesInv
<1>1. /\ pendings' = [pendings EXCEPT ![p] = <<>>]
      /\ UNCHANGED <<requests, locked, pendingTime, now, rlReaders, asked, asks, mine, read, due>>
      /\ Goto(p, "reset")
  BY DEF Send
<1>2. TypeOK'
  <2>1. called' \in Seq([hl : Handler, with : Query \cup {NoAnswer}])
    BY CalledType DEF Send, StackInv
  <2>2. pc' \in [Process -> {"idle", "rlock", "read", "append", "start", "serve", "unlock",
                             "swap", "send", "reset", "wait"}]
    BY <1>1 DEF Goto, StackInv, TypeOK
  <2>3. pendings' \in [Process -> Seq(Handlers)]
    BY <1>1 DEF StackInv, TypeOK
  <2> QED
    BY <1>1, <2>1, <2>2, <2>3 DEF StackInv, TypeOK
<1>3. ~At(p, "append")
  BY DEF Send, At
<1>4. /\ StackInv'
      /\ \A b \in App : /\ Making(b)' => Making(b)
                        /\ At(b, "append")' => At(b, "append")
  BY <1>1, <1>2, <1>3, ServeStackInv
<1>5. Stacks' \subseteq Stacks
  BY <1>1, <1>4, KeptStacks
<1>6. /\ pendings'[p] = <<>>
      /\ \A q \in Process : q # p => pendings'[q] = pendings[q]
  BY <1>1 DEF StackInv, TypeOK
<1>7. /\ DOMAIN <<>> = {}
      /\ \A s : Apart(s, <<>>) /\ Apart(<<>>, s)
  BY DEF Apart
<1>9. FitInv'
  <2>1. \A s : Fits(s) => Fits(s)'
    BY <1>1, <1>4 DEF Fits
  <2>2. Fits(<<>>)
    BY <1>7 DEF Fits, OncePerHandler
  <2>3. \A q \in Process : Fits(pendings'[q])
    BY <1>6, <2>2 DEF FitInv
  <2> QED
    BY <1>5, <2>1, <2>3 DEF FitInv
<1>10. ApartInv'
  BY <1>5, <1>6, <1>7 DEF ApartInv
<1>11. /\ OncePerHandler(called')
       /\ \A i \in DOMAIN called' :
            \/ i \in DOMAIN called /\ called'[i] = called[i]
            \/ \E j \in DOMAIN pendings[p] :
                 /\ called'[i].hl = pendings[p][j].hl
                 /\ called'[i].with \in {pendings[p][j].qry, NoAnswer}
  BY EmittedPlaces DEF Send
<1>12. CalledInv'
  <2>1. \A t : Apart(called, t) /\ Apart(pendings[p], t) => Apart(called', t)
    BY <1>11 DEF Apart
  <2>2. \A s \in Stacks' : Apart(called', s)
    BY <1>5, <2>1 DEF CalledInv, ApartInv
  <2>3. \A q \in Process : Apart(called', pendings'[q])
    BY <1>6, <1>7, <2>1 DEF CalledInv, ApartInv
  <2>4. ASSUME NEW i \in DOMAIN called'
        PROVE  /\ called'[i].hl \in 1..asked
               /\ called'[i].with \in {asks[called'[i].hl], NoAnswer}
               /\ \A a \in App : Making(a) => called'[i].hl # mine[a]
    <3>1. CASE i \in DOMAIN called /\ called'[i] = called[i]
      BY <3>1 DEF CalledInv
    <3>2. ASSUME NEW j \in DOMAIN pendings[p],
                 called'[i].hl = pendings[p][j].hl,
                 called'[i].with \in {pendings[p][j].qry, NoAnswer}
          PROVE  /\ called'[i].hl \in 1..asked
                 /\ called'[i].with \in {asks[called'[i].hl], NoAnswer}
                 /\ \A a \in App : Making(a) => called'[i].hl # mine[a]
      BY <3>2 DEF FitInv, Fits
    <3> QED
      BY <1>11, <3>1, <3>2
  <2> QED
    BY <1>1, <1>4, <1>11, <2>2, <2>3, <2>4 DEF CalledInv
<1> QED
  BY <1>4, <1>9, <1>10, <1>12

-----------------------------------------------------------------------------
(* The other steps. *)

(* A step of p that only moves p.                                          *)
LEMMA MovedInv ==
  ASSUME ServoInv, TypeOK', NEW p \in Process, NEW point,
         ~At(p, "append"), Goto(p, point), point \notin {"rlock", "read", "append", "start"},
         UNCHANGED <<requests, read, asked, mine, asks, pendings, called>>,
         rlReaders' = rlReaders \/ rlReaders' = rlReaders \ {p}
  PROVE  ServoInv'
<1>1. /\ StackInv'
      /\ \A b \in App : /\ Making(b)' => Making(b)
                        /\ At(b, "append")' => At(b, "append")
  BY ServeStackInv DEF ServoInv
<1>2. Stacks' \subseteq Stacks
  BY <1>1, KeptStacks
<1> QED
  BY <1>1, <1>2, KeptPlaces DEF ServoInv

(* What a step of p may change but for where p stands.                     *)
LEMMA MovedType ==
  ASSUME TypeOK, NEW p \in Process, NEW point, Goto(p, point),
         point \in {"idle", "serve", "unlock", "swap", "reset"},
         UNCHANGED <<requests, now, asked, asks, mine, read, due, pendings, called>>,
         rlReaders' = rlReaders \/ rlReaders' = rlReaders \ {p},
         locked' \in {0, 1}, pendingTime' \in 0..MaxTime + Wait
  PROVE  TypeOK'
<1>1. pc' \in [Process -> {"idle", "rlock", "read", "append", "start", "serve", "unlock",
                           "swap", "send", "reset", "wait"}]
  BY DEF Goto, TypeOK
<1>2. rlReaders' \subseteq App
  BY DEF TypeOK
<1> QED
  BY <1>1, <1>2 DEF TypeOK

(* A timer calls Serve or is done.                                         *)
LEMMA FireInv ==
  ASSUME ServoInv, NEW t \in Timer, Fire(t)
  PROVE  ServoInv'
<1> DEFINE point == IF locked > 0 THEN "serve" ELSE "idle"
<1>1. /\ t \in Process /\ ~At(t, "append") /\ Goto(t, point)
      /\ point \in {"idle", "serve"}
      /\ UNCHANGED <<requests, locked, pendingTime, now, rlReaders, asked, asks, mine, read,
                     due, pendings, called>>
  BY DEF Fire, At, Process
<1> HIDE DEF point
<1>2. TypeOK'
  BY <1>1, MovedType DEF ServoInv, StackInv, TypeOK
<1> QED
  BY <1>1, <1>2, MovedInv

(* Serve is too early.                                                     *)
LEMMA TooEarlyInv ==
  ASSUME ServoInv, NEW p \in Process, TooEarly(p)
  PROVE  ServoInv'
<1>1. /\ ~At(p, "append") /\ Goto(p, "idle") /\ rlReaders' = rlReaders \ {p}
      /\ UNCHANGED <<requests, locked, pendingTime, now, asked, asks, mine, read, due,
                     pendings, called>>
  BY DEF TooEarly, Return, At
<1>2. TypeOK'
  BY <1>1, MovedType DEF ServoInv, StackInv, TypeOK
<1> QED
  BY <1>1, <1>2, MovedInv

(* Serve begins.                                                           *)
LEMMA ServeInv ==
  ASSUME ServoInv, NEW p \in Process, Serve(p)
  PROVE  ServoInv'
<1>1. /\ ~At(p, "append") /\ Goto(p, "unlock")
      /\ UNCHANGED <<requests, locked, pendingTime, now, rlReaders, asked, asks, mine, read,
                     due, pendings, called>>
  BY DEF Serve, At
<1>2. TypeOK'
  BY <1>1, MovedType DEF ServoInv, StackInv, TypeOK
<1> QED
  BY <1>1, <1>2, MovedInv

(* Serve clears the flag.                                                  *)
LEMMA UnlockInv ==
  ASSUME ServoInv, NEW p \in Process, Unlock(p)
  PROVE  ServoInv'
<1>1. /\ ~At(p, "append") /\ Goto(p, "swap") /\ locked' = 0
      /\ UNCHANGED <<requests, pendingTime, now, rlReaders, asked, asks, mine, read, due,
                     pendings, called>>
  BY DEF Unlock, At
<1>2. TypeOK'
  BY <1>1, MovedType DEF ServoInv, StackInv, TypeOK
<1> QED
  BY <1>1, <1>2, MovedInv

(* Serve opens the next window and returns.                                *)
LEMMA ResetInv ==
  ASSUME ServoInv, NEW p \in Process, Reset(p)
  PROVE  ServoInv'
<1>1. /\ ~At(p, "append") /\ Goto(p, "idle") /\ rlReaders' = rlReaders \ {p}
      /\ pendingTime' = now + Wait
      /\ UNCHANGED <<requests, locked, now, asked, asks, mine, read, due, pendings, called>>
  BY DEF Reset, Return, At
<1>2. now + Wait \in 0..MaxTime + Wait
  BY TimesAreNumbers DEF ServoInv, StackInv, TypeOK
<1>3. TypeOK'
  BY <1>1, <1>2, MovedType DEF ServoInv, StackInv, TypeOK
<1> QED
  BY <1>1, <1>3, MovedInv

(* Time passes, or nothing happens.                                        *)
LEMMA TickInv ==
  ASSUME ServoInv, Tick \/ UNCHANGED vars
  PROVE  ServoInv'
<1>1. /\ UNCHANGED <<requests, locked, pendingTime, rlReaders, asked, asks, mine, read, due, pc,
                     pendings, called>>
      /\ now' = now \/ (now < MaxTime /\ now' = now + 1)
  BY DEF Tick, vars
<1>2. now' \in 0..MaxTime
  BY <1>1, TimesAreNumbers DEF ServoInv, StackInv, TypeOK
<1>3. TypeOK'
  BY <1>1, <1>2 DEF ServoInv, StackInv, TypeOK
<1>4. \A b \in App : (Making(b)' <=> Making(b)) /\ (At(b, "append")' <=> At(b, "append"))
  BY <1>1 DEF Making, At
<1>5. MineInv' /\ LockInv'
  BY <1>1 DEF ServoInv, StackInv, MineInv, LockInv, Making, At
<1>6. Stacks' \subseteq Stacks
  BY <1>1, <1>4, KeptStacks
<1> QED
  BY <1>1, <1>3, <1>4, <1>5, <1>6, KeptPlaces DEF ServoInv, StackInv

(* The invariant is inductive.                                             *)
LEMMA InitServoInv == Init => ServoInv
<1> SUFFICES ASSUME Init PROVE ServoInv
  OBVIOUS
<1>1. StackInv
  BY InitStackInv
<1>2. /\ requests = <<>> /\ called = <<>> /\ \A p \in Process : pendings[p] = <<>>
      /\ \A a \in App : ~At(a, "append")
  BY DEF Init, At, Process
<1>3. Stacks = {<<>>} /\ DOMAIN <<>> = {}
  BY <1>2 DEF Stacks
<1>4. Fits(<<>>) /\ \A s : Apart(<<>>, s)
  BY <1>3 DEF OncePerHandler, Fits, Apart
<1>5. FitInv /\ ApartInv
  BY <1>2, <1>3, <1>4 DEF FitInv, ApartInv
<1>6. CalledInv
  BY <1>2, <1>3, <1>4 DEF CalledInv, OncePerHandler
<1> QED
  BY <1>1, <1>5, <1>6 DEF ServoInv, PlacesInv

(* Every step keeps the invariant.                                         *)
LEMMA NextServoInv == ServoInv /\ [Next]_vars => ServoInv'
<1> SUFFICES ASSUME ServoInv, [Next]_vars PROVE ServoInv'
  OBVIOUS
<1>1. ASSUME NEW a \in App, NEW q \in Query, Request(a, q) PROVE ServoInv'
  BY <1>1, RequestStackInv, RequestPlaces DEF ServoInv
<1>2. ASSUME NEW p \in Process, Step(p) PROVE ServoInv'
  <2>1. ASSUME p \in App, ReadRequests(p) PROVE ServoInv'
    <3>1. UNCHANGED <<mine, asked, asks, pendings, called>>
      BY <2>1 DEF ReadRequests
    <3> QED
      BY <2>1, <3>1, ReadStackInv, KeptPlaces DEF ServoInv
  <2>2. ASSUME p \in App, Stack(p) PROVE ServoInv'
    BY <2>2, AppendStackInv, AppendPlaces DEF ServoInv
  <2>10. ASSUME p \in App, ReadAgain(p) PROVE ServoInv'
    <3>1. UNCHANGED <<mine, asked, asks, pendings, called>>
      BY <2>10 DEF ReadAgain
    <3> QED
      BY <2>10, <3>1, AgainStackInv, KeptPlaces DEF ServoInv
  <2>11. ASSUME p \in App, StartTimer(p) PROVE ServoInv'
    <3>1. UNCHANGED <<requests, read, mine, asked, asks, pendings, called>>
      BY <2>11 DEF StartTimer
    <3> QED
      BY <2>11, <3>1, StartStackInv, KeptStacks, KeptPlaces DEF ServoInv
  <2>3. ASSUME p \in Timer, Fire(p) PROVE ServoInv'
    BY <2>3, FireInv
  <2>4. CASE TooEarly(p)
    BY <2>4, TooEarlyInv
  <2>5. CASE Serve(p)
    BY <2>5, ServeInv
  <2>6. CASE Unlock(p)
    BY <2>6, UnlockInv
  <2>7. CASE Swap(p)
    BY <2>7, SwapInv
  <2>8. CASE Send(p)
    BY <2>8, SendInv
  <2>9. CASE Reset(p)
    BY <2>9, ResetInv
  <2> QED
    BY <1>2, <2>1, <2>2, <2>3, <2>4, <2>5, <2>6, <2>7, <2>8, <2>9, <2>10, <2>11 DEF Step
<1>3. CASE Tick \/ UNCHANGED vars
  BY <1>3, TickInv
<1> QED
  BY <1>1, <1>2, <1>3 DEF Next

-----------------------------------------------------------------------------
(* The theorems. *)

(* ServoInv holds in every state the client can be in.                     *)
LEMMA ServoInvariant == SafeSpec => []ServoInv
<1> QED
  BY InitServoInv, NextServoInv, PTL DEF SafeSpec

(* Every variable of the client keeps its type.                            *)
THEOREM TypeCorrect == SafeSpec => []TypeOK
<1>1. ServoInv => TypeOK
  BY DEF ServoInv, StackInv
<1> QED
  BY <1>1, ServoInvariant, PTL

(* However many Serves overlap, a handler is called at most once, with the *)
(* answer to its own query or with an error.                               *)
THEOREM HandlersCorrect == SafeSpec => []HandlersGetTheirs
<1>1. ServoInv => HandlersGetTheirs
  <2> SUFFICES ASSUME ServoInv PROVE HandlersGetTheirs
    OBVIOUS
  <2>1. /\ OncePerHandler(called)
        /\ \A i \in DOMAIN called : called[i].with \in {asks[called[i].hl], NoAnswer}
    BY DEF ServoInv, PlacesInv, CalledInv
  <2>2. IsInjective([i \in DOMAIN called |-> called[i].hl])
    BY <2>1 DEF OncePerHandler, IsInjective
  <2> QED
    BY <2>1, <2>2 DEF HandlersGetTheirs
<1> QED
  BY <1>1, ServoInvariant, PTL
=============================================================================
