------------------------ MODULE StockDispatchProofs ------------------------
(***************************************************************************)
(* Proofs about the consumer-model scheduler, for every list of stocks,    *)
(* every finite set of workers, every retry limit and failure threshold.   *)
(***************************************************************************)
EXTENDS StockDispatch, FiniteSetTheorems, TLAPS

-----------------------------------------------------------------------------
(* unfinished_tasks. TaskDone decrements it, so that it stays a natural    *)
(* number only because it counts the workers that owe a task_done().       *)

LEMMA OwingFinite == IsFiniteSet(Owing) /\ Cardinality(Owing) \in Nat
<1>1. Owing \subseteq Workers  BY DEF Owing
<1>2. IsFiniteSet(Owing)       BY <1>1, FS_Subset, DispatchAssumption
<1> QED                        BY <1>2, FS_CardinalityType

LEMMA OwingKeep ==
    ASSUME TypeOK, TypeOK', NEW w \in Workers,
           \A v \in Workers \ {w} : pc'[v] = pc[v],
           (pc'[w] \in IdlePoints) <=> (pc[w] \in IdlePoints)
    PROVE  Owing' = Owing
BY DEF Owing, TypeOK, HoldPoints, OwePoints, IdlePoints

LEMMA OwingAdd ==
    ASSUME TypeOK, TypeOK', NEW w \in Workers,
           \A v \in Workers \ {w} : pc'[v] = pc[v],
           pc[w] \in IdlePoints, pc'[w] \notin IdlePoints
    PROVE  Cardinality(Owing') = Cardinality(Owing) + 1
<1>1. w \notin Owing /\ Owing' = Owing \cup {w}
  BY DEF Owing, TypeOK, HoldPoints, OwePoints, IdlePoints
<1> QED  BY <1>1, OwingFinite, FS_AddElement

LEMMA OwingPositive ==
    ASSUME NEW w \in Workers, pc[w] \in HoldPoints \cup OwePoints
    PROVE  Cardinality(Owing) >= 1
<1>1. w \in Owing  BY DEF Owing
<1> QED  BY <1>1, OwingFinite, FS_EmptySet

LEMMA OwingDrop ==
    ASSUME TypeOK, TypeOK', NEW w \in Workers,
           \A v \in Workers \ {w} : pc'[v] = pc[v],
           pc[w] \notin IdlePoints, pc'[w] \in IdlePoints
    PROVE  Cardinality(Owing') = Cardinality(Owing) - 1
<1>1. w \in Owing /\ Owing' = Owing \ {w}
  BY DEF Owing, TypeOK, HoldPoints, OwePoints, IdlePoints
<1> QED  BY <1>1, OwingFinite, FS_RemoveElement

(* A step of a worker thread keeps the types and the count of unfinished   *)
(* tasks; the count is what keeps unfinished_tasks from going negative.    *)
LEMMA WorkerTypeOK ==
    ASSUME TypeOK, UnfinishedExact, NEW w \in Workers, Worker(w)
    PROVE  TypeOK' /\ UnfinishedExact'
<1> USE DispatchAssumption DEF vars, queueVars, threadVars, healthVars, resultVars, mainVars
<1>0. /\ queue \in Seq(Item) /\ Len(queue) \in Nat
      /\ unfinished \in Nat /\ Cardinality(Owing) \in Nat
  BY OwingFinite DEF TypeOK
<1>1. CASE Login(w)
  <2>1. TypeOK'
    BY <1>1, <1>0, ZenonT(60) DEF Login, Goto, TypeOK, Item, NoItem, Statuses, HoldPoints, OwePoints, IdlePoints
  <2>2. /\ \A v \in Workers \ {w} : pc'[v] = pc[v]
        /\ (pc'[w] \in IdlePoints) <=> (pc[w] \in IdlePoints)
    BY <1>1 DEF Login, Goto, TypeOK, HoldPoints, OwePoints, IdlePoints
  <2>3. Owing' = Owing
    BY <2>1, <2>2, OwingKeep
  <2>4. UnfinishedExact'
    BY <1>1, <1>0, <2>3 DEF Login, Goto, UnfinishedExact
  <2> QED  BY <2>1, <2>4
<1>2. CASE CheckStop(w)
  <2>1. TypeOK'
    BY <1>2, <1>0 DEF CheckStop, Goto, TypeOK, Item, NoItem, Statuses, HoldPoints, OwePoints, IdlePoints
  <2>2. /\ \A v \in Workers \ {w} : pc'[v] = pc[v]
        /\ (pc'[w] \in IdlePoints) <=> (pc[w] \in IdlePoints)
    BY <1>2 DEF CheckStop, Goto, TypeOK, HoldPoints, OwePoints, IdlePoints
  <2>3. Owing' = Owing
    BY <2>1, <2>2, OwingKeep
  <2>4. UnfinishedExact'
    BY <1>2, <1>0, <2>3 DEF CheckStop, Goto, UnfinishedExact
  <2> QED  BY <2>1, <2>4
<1>3. CASE Get(w)
  <2>a. Head(queue) \in Item /\ Tail(queue) \in Seq(Item)
    BY <1>3 DEF Get, TypeOK
  <2>1. TypeOK'
    BY <1>3, <2>a DEF Get, TypeOK, HoldPoints, OwePoints, IdlePoints
  <2>2. Cardinality(Owing') = Cardinality(Owing) + 1
    BY <1>3, <2>1, OwingAdd DEF Get, TypeOK, HoldPoints, OwePoints, IdlePoints
  <2>3. UnfinishedExact'
    BY <1>3, <1>0, <2>2 DEF Get, UnfinishedExact
  <2> QED  BY <2>1, <2>3
<1>4. CASE GetTimeout(w)
  <2>1. TypeOK'
    BY <1>4, <1>0 DEF GetTimeout, Goto, TypeOK, Item, NoItem, Statuses, HoldPoints, OwePoints, IdlePoints
  <2>2. /\ \A v \in Workers \ {w} : pc'[v] = pc[v]
        /\ (pc'[w] \in IdlePoints) <=> (pc[w] \in IdlePoints)
    BY <1>4 DEF GetTimeout, Goto, TypeOK, HoldPoints, OwePoints, IdlePoints
  <2>3. Owing' = Owing
    BY <2>1, <2>2, OwingKeep
  <2>4. UnfinishedExact'
    BY <1>4, <1>0, <2>3 DEF GetTimeout, Goto, UnfinishedExact
  <2> QED  BY <2>1, <2>4
<1>5. CASE PutBack(w)
  <2>a. task[w] \in Item
    BY <1>5 DEF PutBack, TypeOK, HoldPoints
  <2>1. TypeOK'
    BY <1>5, <2>a DEF PutBack, Put, Goto, TypeOK, HoldPoints, OwePoints, IdlePoints
  <2>2. /\ \A v \in Workers \ {w} : pc'[v] = pc[v]
        /\ (pc'[w] \in IdlePoints) <=> (pc[w] \in IdlePoints)
    BY <1>5 DEF PutBack, Put, Goto, TypeOK, HoldPoints, OwePoints, IdlePoints
  <2>3. Owing' = Owing
    BY <2>1, <2>2, OwingKeep
  <2>4. UnfinishedExact'
    BY <1>5, <1>0, <2>3 DEF PutBack, Put, Goto, UnfinishedExact
  <2> QED  BY <2>1, <2>4
<1>6. CASE DeadlineSkip(w)
  <2>a. task[w].stock \in Stocks
    BY <1>6 DEF DeadlineSkip, TypeOK, HoldPoints, Item
  <2>b. extras' \in [Stocks -> Seq(Statuses)]
    BY <1>6, <2>a DEF DeadlineSkip, OnExtra, TypeOK, Statuses
  <2>1. TypeOK'
    BY <1>6, <2>b DEF DeadlineSkip, Goto, TypeOK, HoldPoints, OwePoints, IdlePoints
  <2>2. /\ \A v \in Workers \ {w} : pc'[v] = pc[v]
        /\ (pc'[w] \in IdlePoints) <=> (pc[w] \in IdlePoints)
    BY <1>6 DEF DeadlineSkip, OnExtra, Goto, TypeOK, HoldPoints, OwePoints, IdlePoints
  <2>3. Owing' = Owing
    BY <2>1, <2>2, OwingKeep
  <2>4. UnfinishedExact'
    BY <1>6, <1>0, <2>3 DEF DeadlineSkip, OnExtra, Goto, UnfinishedExact
  <2> QED  BY <2>1, <2>4
<1>7. CASE Begin(w)
  <2>1. TypeOK'
    BY <1>7, <1>0, SMTT(30) DEF Begin, Goto, TypeOK, Item, NoItem, Statuses, HoldPoints, OwePoints, IdlePoints
  <2>2. /\ \A v \in Workers \ {w} : pc'[v] = pc[v]
        /\ (pc'[w] \in IdlePoints) <=> (pc[w] \in IdlePoints)
    BY <1>7 DEF Begin, Goto, TypeOK, HoldPoints, OwePoints, IdlePoints
  <2>3. Owing' = Owing
    BY <2>1, <2>2, OwingKeep
  <2>4. UnfinishedExact'
    BY <1>7, <1>0, <2>3 DEF Begin, Goto, UnfinishedExact
  <2> QED  BY <2>1, <2>4
<1>8. CASE ProcessFails(w)
  <2>1. TypeOK'
    BY <1>8, <1>0 DEF ProcessFails, OnFailure, Goto, TypeOK, Item, NoItem, Statuses, HoldPoints, OwePoints, IdlePoints
  <2>2. /\ \A v \in Workers \ {w} : pc'[v] = pc[v]
        /\ (pc'[w] \in IdlePoints) <=> (pc[w] \in IdlePoints)
    BY <1>8 DEF ProcessFails, OnFailure, Goto, TypeOK, HoldPoints, OwePoints, IdlePoints
  <2>3. Owing' = Owing
    BY <2>1, <2>2, OwingKeep
  <2>4. UnfinishedExact'
    BY <1>8, <1>0, <2>3 DEF ProcessFails, OnFailure, Goto, UnfinishedExact
  <2> QED  BY <2>1, <2>4
<1>9. CASE ProcessSucceeds(w)
  <2>1. TypeOK'
    BY <1>9, <1>0 DEF ProcessSucceeds, Goto, TypeOK, Item, NoItem, Statuses, HoldPoints, OwePoints, IdlePoints
  <2>2. /\ \A v \in Workers \ {w} : pc'[v] = pc[v]
        /\ (pc'[w] \in IdlePoints) <=> (pc[w] \in IdlePoints)
    BY <1>9 DEF ProcessSucceeds, Goto, TypeOK, HoldPoints, OwePoints, IdlePoints
  <2>3. Owing' = Owing
    BY <2>1, <2>2, OwingKeep
  <2>4. UnfinishedExact'
    BY <1>9, <1>0, <2>3 DEF ProcessSucceeds, Goto, UnfinishedExact
  <2> QED  BY <2>1, <2>4
<1>10. CASE OnResult(w)
  <2>1. TypeOK'
    BY <1>10, <1>0 DEF OnResult, RecordResult, Goto, TypeOK, Item, NoItem, Statuses, HoldPoints, OwePoints, IdlePoints
  <2>2. /\ \A v \in Workers \ {w} : pc'[v] = pc[v]
        /\ (pc'[w] \in IdlePoints) <=> (pc[w] \in IdlePoints)
    BY <1>10 DEF OnResult, RecordResult, Goto, TypeOK, HoldPoints, OwePoints, IdlePoints
  <2>3. Owing' = Owing
    BY <2>1, <2>2, OwingKeep
  <2>4. UnfinishedExact'
    BY <1>10, <1>0, <2>3 DEF OnResult, RecordResult, Goto, UnfinishedExact
  <2> QED  BY <2>1, <2>4
<1>11. CASE OnResultRaises(w)
  <2>a. results' \in [Stocks -> Workers \cup {Nobody}]
    BY <1>11 DEF OnResultRaises, RecordResult, TypeOK, Item, HoldPoints
  <2>b. /\ pc' \in [Workers -> HoldPoints \cup OwePoints \cup IdlePoints]
        /\ streak' \in [Workers -> Nat]
        /\ dead' \in SUBSET Workers
        /\ \A v \in Workers : pc'[v] \in HoldPoints => task'[v] \in Item
    BY <1>11 DEF OnResultRaises, OnFailure, Goto, TypeOK, HoldPoints, OwePoints, IdlePoints
  <2>1. TypeOK'
    BY <1>11, <2>a, <2>b DEF OnResultRaises, OnFailure, Goto, TypeOK
  <2>2. /\ \A v \in Workers \ {w} : pc'[v] = pc[v]
        /\ (pc'[w] \in IdlePoints) <=> (pc[w] \in IdlePoints)
    BY <1>11 DEF OnResultRaises, RecordResult, OnFailure, Goto, TypeOK, HoldPoints, OwePoints, IdlePoints
  <2>3. Owing' = Owing
    BY <2>1, <2>2, OwingKeep
  <2>4. UnfinishedExact'
    BY <1>11, <1>0, <2>3 DEF OnResultRaises, RecordResult, OnFailure, Goto, UnfinishedExact
  <2> QED  BY <2>1, <2>4
<1>12. CASE DropDead(w)
  <2>a. task[w].stock \in Stocks
    BY <1>12 DEF DropDead, TypeOK, HoldPoints, Item
  <2>b. extras' \in [Stocks -> Seq(Statuses)]
    BY <1>12, <2>a DEF DropDead, OnExtra, TypeOK, Statuses
  <2>1. TypeOK'
    BY <1>12, <2>b DEF DropDead, Goto, TypeOK, HoldPoints, OwePoints, IdlePoints
  <2>2. /\ \A v \in Workers \ {w} : pc'[v] = pc[v]
        /\ (pc'[w] \in IdlePoints) <=> (pc[w] \in IdlePoints)
    BY <1>12 DEF DropDead, OnExtra, Goto, TypeOK, HoldPoints, OwePoints, IdlePoints
  <2>3. Owing' = Owing
    BY <2>1, <2>2, OwingKeep
  <2>4. UnfinishedExact'
    BY <1>12, <1>0, <2>3 DEF DropDead, OnExtra, Goto, UnfinishedExact
  <2> QED  BY <2>1, <2>4
<1>13. CASE GiveUp(w)
  <2>a. task[w].stock \in Stocks
    BY <1>13 DEF GiveUp, TypeOK, HoldPoints, Item
  <2>b. extras' \in [Stocks -> Seq(Statuses)]
    BY <1>13, <2>a DEF GiveUp, OnExtra, TypeOK, Statuses
  <2>1. TypeOK'
    BY <1>13, <2>b DEF GiveUp, Goto, TypeOK, HoldPoints, OwePoints, IdlePoints
  <2>2. /\ \A v \in Workers \ {w} : pc'[v] = pc[v]
        /\ (pc'[w] \in IdlePoints) <=> (pc[w] \in IdlePoints)
    BY <1>13 DEF GiveUp, OnExtra, Goto, TypeOK, HoldPoints, OwePoints, IdlePoints
  <2>3. Owing' = Owing
    BY <2>1, <2>2, OwingKeep
  <2>4. UnfinishedExact'
    BY <1>13, <1>0, <2>3 DEF GiveUp, OnExtra, Goto, UnfinishedExact
  <2> QED  BY <2>1, <2>4
<1>14. CASE Requeue(w)
  <2>a. task[w] \in Item
    BY <1>14 DEF Requeue, TypeOK, HoldPoints
  <2>b. [task[w] EXCEPT !.attempt = @ + 1] \in Item
    BY <1>14, <2>a DEF Requeue, Item
  <2>1. TypeOK'
    BY <1>14, <2>b DEF Requeue, Put, Goto, TypeOK, HoldPoints, OwePoints, IdlePoints
  <2>2. /\ \A v \in Workers \ {w} : pc'[v] = pc[v]
        /\ (pc'[w] \in IdlePoints) <=> (pc[w] \in IdlePoints)
    BY <1>14 DEF Requeue, Put, Goto, TypeOK, HoldPoints, OwePoints, IdlePoints
  <2>3. Owing' = Owing
    BY <2>1, <2>2, OwingKeep
  <2>4. UnfinishedExact'
    BY <1>14, <1>0, <2>3 DEF Requeue, Put, Goto, UnfinishedExact
  <2> QED  BY <2>1, <2>4
<1>15. CASE TaskDone(w)
  <2>1. TypeOK'
    BY <1>15, <1>0, OwingPositive DEF TaskDone, UnfinishedExact, TypeOK, Item, NoItem, Statuses, HoldPoints, OwePoints, IdlePoints
  <2>2. Cardinality(Owing') = Cardinality(Owing) - 1
    <3>1. /\ \A v \in Workers \ {w} : pc'[v] = pc[v]
          /\ pc[w] \notin IdlePoints
          /\ pc'[w] \in IdlePoints
      BY <1>15 DEF TaskDone, TypeOK, OwePoints, IdlePoints
    <3> QED  BY <2>1, <3>1, OwingDrop
  <2>3. UnfinishedExact'
    BY <1>15, <1>0, <2>2 DEF TaskDone, UnfinishedExact
  <2> QED  BY <2>1, <2>3
<1> QED  BY <1>1, <1>2, <1>3, <1>4, <1>5, <1>6, <1>7, <1>8, <1>9, <1>10, <1>11, <1>12, <1>13, <1>14, <1>15 DEF Worker

(* The same for the main thread and the clock *)
LEMMA MainTypeOK ==
    ASSUME TypeOK, UnfinishedExact, Main \/ Expire \/ UNCHANGED vars
    PROVE  TypeOK' /\ UnfinishedExact'
<1> USE DispatchAssumption DEF vars, queueVars, threadVars, healthVars, resultVars, mainVars
<1>0. Len(queue) \in Nat /\ Cardinality(Owing) \in Nat
  BY OwingFinite DEF TypeOK
<1>1. CASE DrainOne
  <2>1. /\ Head(queue) \in Item /\ Tail(queue) \in Seq(Item)
        /\ Len(queue) >= 1 /\ Len(Tail(queue)) = Len(queue) - 1
    BY <1>1 DEF DrainOne, TypeOK
  <2>a. Head(queue).stock \in Stocks /\ "dead_skipped" \in Statuses
    BY <2>1 DEF Item, Statuses
  <2>b. extras \in [Stocks -> Seq(Statuses)]
    BY DEF TypeOK
  <2>2. extras' \in [Stocks -> Seq(Statuses)]
    BY <1>1, <2>a, <2>b DEF DrainOne, OnExtra
  <2>3. unfinished = Len(queue) + Cardinality(Owing) /\ unfinished' = unfinished - 1
    BY <1>1, SMTT(30) DEF DrainOne, UnfinishedExact
  <2>4. TypeOK'
    <3>1. unfinished' \in Nat
      BY <1>0, <2>1, <2>3, SMTT(30)
    <3> QED  BY <1>1, <2>1, <2>2, <3>1 DEF DrainOne, TypeOK
  <2>5. Owing' = Owing
    BY <1>1 DEF DrainOne, Owing
  <2>6. Len(queue') = Len(queue) - 1
    BY <1>1, <2>1 DEF DrainOne
  <2>7. UnfinishedExact'
    BY <1>0, <2>3, <2>5, <2>6 DEF UnfinishedExact
  <2> QED  BY <2>4, <2>7
<1>2. CASE UNCHANGED <<queueVars, threadVars>>
  <2>1. Owing' = Owing
    BY <1>2 DEF Owing
  <2>2. UnfinishedExact'
    BY <1>2, <2>1 DEF UnfinishedExact
  <2>3. CASE Watch \/ CheckAllDead \/ DrainEmpty \/ Halt \/ AllDone
    BY <2>2, <2>3 DEF Watch, CheckAllDead, DrainEmpty, Halt, AllDone, TypeOK, MainPoints
  <2>4. CASE \E w \in Workers \ joined : Join(w)
    BY <2>2, <2>4 DEF Join, TypeOK
  <2>5. CASE Expire \/ UNCHANGED vars
    BY <2>2, <2>5 DEF Expire, TypeOK
  <2>6. CASE DrainOne
    BY <1>1, <2>6
  <2> QED  BY <2>3, <2>4, <2>5, <2>6 DEF Main
<1> QED
  BY <1>1, <1>2 DEF Main, Watch, CheckAllDead, DrainEmpty, Halt, AllDone, Join, Expire

LEMMA InitTypeOK == Init => TypeOK /\ UnfinishedExact
<1> SUFFICES ASSUME Init PROVE TypeOK /\ UnfinishedExact
  OBVIOUS
<1>1. /\ Len(StockList) \in Nat
      /\ \A i \in 1..Len(StockList) : StockList[i] \in Stocks
  BY DispatchAssumption DEF Stocks
<1>2. queue \in Seq(Item) /\ Len(queue) = Len(StockList)
  BY <1>1, DispatchAssumption DEF Init, Item
<1>a. /\ pc \in [Workers -> HoldPoints \cup OwePoints \cup IdlePoints]
      /\ \A w \in Workers : pc[w] \notin HoldPoints
      /\ task \in [Workers -> Item \cup {NoItem}]
      /\ main \in MainPoints
  BY DEF Init, HoldPoints, OwePoints, IdlePoints, MainPoints
<1>b. extras \in [Stocks -> Seq(Statuses)]
  BY DEF Init
<1>3. TypeOK
  BY <1>1, <1>2, <1>a, <1>b DEF Init, TypeOK
<1>4. Owing = {}
  BY DEF Init, Owing, HoldPoints, OwePoints
<1> QED
  BY <1>1, <1>2, <1>3, <1>4, FS_EmptySet DEF Init, UnfinishedExact

(* Every variable keeps its type, and unfinished_tasks always counts the   *)
(* queued items plus the workers that owe a task_done(): neither a requeue *)
(* before task_done() nor the drain can bring it to 0 early or below 0.    *)
THEOREM TypeCorrect == Spec => [](TypeOK /\ UnfinishedExact)
<1>1. TypeOK /\ UnfinishedExact /\ [Next]_vars => (TypeOK /\ UnfinishedExact)'
  <2> SUFFICES ASSUME TypeOK, UnfinishedExact, [Next]_vars
               PROVE  (TypeOK /\ UnfinishedExact)'
    OBVIOUS
  <2>1. ASSUME NEW w \in Workers, Worker(w) PROVE (TypeOK /\ UnfinishedExact)'
    BY <2>1, WorkerTypeOK
  <2>2. CASE Main \/ Expire \/ UNCHANGED vars
    BY <2>2, MainTypeOK
  <2> QED  BY <2>1, <2>2 DEF Next, Terminated
<1> QED  BY <1>1, InitTypeOK, PTL DEF Spec

-----------------------------------------------------------------------------
(* Where every stock is, at every step of the scheduler. Each step moves   *)
(* at most one stock between the queue, the hands of a worker and its      *)
(* outcome; the moves are named here and the properties follow from them.  *)

(* The moves: what a step does to the queue and to who holds which stock *)
HeldSame(W) == \A v \in W : \A s \in Stocks : Held(v, s)' <=> Held(v, s)
HoldsNothing(w) == \A s \in Stocks : ~Held(w, s)

Keep == queue' = queue /\ HeldSame(Workers)

Release(w) ==
    /\ queue' = queue
    /\ HoldsNothing(w)'
    /\ HeldSame(Workers \ {w})
    /\ \A s \in Stocks : Held(w, s) => Settled(s)'

Take(w) ==
    /\ queue # <<>>
    /\ queue' = Tail(queue)
    /\ HoldsNothing(w)
    /\ \A s \in Stocks : Held(w, s)' <=> s = Head(queue).stock
    /\ HeldSame(Workers \ {w})

Give(w) ==
    /\ \E item \in Item : /\ queue' = Append(queue, item)
                          /\ \A s \in Stocks : Held(w, s) <=> s = item.stock
    /\ HoldsNothing(w)'
    /\ HeldSame(Workers \ {w})

Discard ==
    /\ queue # <<>>
    /\ queue' = Tail(queue)
    /\ HeldSame(Workers)
    /\ \A s \in Stocks : s = Head(queue).stock => Settled(s)'

Move == Keep \/ Discard \/ \E w \in Workers : Release(w) \/ Take(w) \/ Give(w)

(* An outcome, once recorded, stays *)
SettledStays == \A s \in Stocks : Settled(s) => Settled(s)'

-----------------------------------------------------------------------------
(* What get() and put() do to the set of queued stocks *)

LEMMA QueuedAfterGet ==
    ASSUME TypeOK, queue # <<>>, queue' = Tail(queue)
    PROVE  /\ Head(queue) \in Item
           /\ \A s \in Stocks : Queued(s) <=> (Queued(s)' \/ s = Head(queue).stock)
           /\ OneCopy => \A s \in Stocks : s = Head(queue).stock => ~Queued(s)'
<1>1. /\ Len(queue) \in Nat \ {0}
      /\ Len(Tail(queue)) = Len(queue) - 1
      /\ \A i \in 1..Len(Tail(queue)) : Tail(queue)[i] = queue[i + 1]
      /\ Head(queue) = queue[1]
      /\ Head(queue) \in Item
  BY DEF TypeOK
<1>2. ASSUME NEW s \in Stocks
      PROVE  Queued(s) <=> (Queued(s)' \/ s = Head(queue).stock)
  <2>1. ASSUME NEW i \in 1..Len(queue), queue[i].stock = s, i # 1
        PROVE  Queued(s)'
    <3>1. i - 1 \in 1..Len(queue') /\ queue'[i - 1] = queue[i]
      BY <1>1, <2>1
    <3> QED  BY <2>1, <3>1 DEF Queued
  <2>2. ASSUME NEW i \in 1..Len(queue'), queue'[i].stock = s
        PROVE  Queued(s)
    <3>1. i + 1 \in 1..Len(queue) /\ queue'[i] = queue[i + 1]
      BY <1>1, <2>2
    <3> QED  BY <2>2, <3>1 DEF Queued
  <2>3. 1 \in 1..Len(queue)
    BY <1>1
  <2> QED  BY <1>1, <2>1, <2>2, <2>3 DEF Queued
<1>3. ASSUME OneCopy, NEW s \in Stocks, s = Head(queue).stock, Queued(s)' PROVE FALSE
  <2>1. PICK i \in 1..Len(queue') : queue'[i].stock = Head(queue).stock
    BY <1>3 DEF Queued
  <2>2. i + 1 \in 1..Len(queue) /\ 1 \in 1..Len(queue) /\ queue[i + 1].stock = queue[1].stock
    BY <1>1, <2>1
  <2>3. queue[1].stock \in Stocks
    BY <1>1 DEF Item
  <2>4. i + 1 = 1
    BY <1>3, <2>2, <2>3 DEF OneCopy
  <2> QED  BY <2>1, <2>4
<1> QED  BY <1>1, <1>2, <1>3

LEMMA QueuedAfterPut ==
    ASSUME TypeOK, NEW item \in Item, queue' = Append(queue, item)
    PROVE  \A s \in Stocks : Queued(s)' <=> (Queued(s) \/ s = item.stock)
<1>1. /\ Len(queue) \in Nat
      /\ Len(queue') = Len(queue) + 1
      /\ \A i \in 1..Len(queue) : queue'[i] = queue[i]
      /\ queue'[Len(queue) + 1] = item
  BY DEF TypeOK
<1> SUFFICES ASSUME NEW s \in Stocks PROVE Queued(s)' <=> (Queued(s) \/ s = item.stock)
  OBVIOUS
<1>2. ASSUME NEW i \in 1..Len(queue'), queue'[i].stock = s
      PROVE  Queued(s) \/ s = item.stock
  <2>1. i \in 1..Len(queue) \/ i = Len(queue) + 1
    BY <1>1
  <2> QED  BY <1>1, <1>2, <2>1 DEF Queued
<1>3. ASSUME NEW i \in 1..Len(queue), queue[i].stock = s
      PROVE  Queued(s)'
  <2>1. i \in 1..Len(queue') /\ queue'[i].stock = s
    BY <1>1, <1>3
  <2> QED  BY <2>1 DEF Queued
<1>4. Len(queue) + 1 \in 1..Len(queue')
  BY <1>1
<1> QED  BY <1>1, <1>2, <1>3, <1>4 DEF Queued

-----------------------------------------------------------------------------
(* A move keeps every stock in one place and loses none *)

LEMMA MoveOneCopy ==
    ASSUME TypeOK, OneCopy, Move
    PROVE  OneCopy'
<1>1. CASE Keep
  BY <1>1 DEF Keep, HeldSame, OneCopy, Queued
<1>2. CASE Discard
  <2>1. \A s \in Stocks : Queued(s)' => Queued(s)
    BY <1>2, QueuedAfterGet DEF Discard
  <2>2. \A s \in Stocks : \A i, j \in 1..Len(queue') :
           queue'[i].stock = s /\ queue'[j].stock = s => i = j
    <3>1. \A i \in 1..Len(queue') : i + 1 \in 1..Len(queue) /\ queue'[i] = queue[i + 1]
      BY <1>2 DEF Discard, TypeOK
    <3> SUFFICES ASSUME NEW s \in Stocks, NEW i \in 1..Len(queue'), NEW j \in 1..Len(queue'),
                        queue'[i].stock = s, queue'[j].stock = s
                 PROVE  i = j
      OBVIOUS
    <3>2. i + 1 = j + 1
      BY <3>1 DEF OneCopy
    <3> QED  BY <3>2
  <2> QED  BY <1>2, <2>1, <2>2 DEF Discard, HeldSame, OneCopy
<1>3. ASSUME NEW w \in Workers, Release(w) PROVE OneCopy'
  BY <1>3 DEF Release, HoldsNothing, HeldSame, OneCopy, Queued
<1>4. ASSUME NEW w \in Workers, Take(w) PROVE OneCopy'
  <2>1. /\ \A s \in Stocks : Queued(s) <=> (Queued(s)' \/ s = Head(queue).stock)
        /\ \A s \in Stocks : s = Head(queue).stock => ~Queued(s)'
        /\ Head(queue).stock \in Stocks
    BY <1>4, QueuedAfterGet DEF Take, Item
  <2>2. \A s \in Stocks : \A i, j \in 1..Len(queue') :
           queue'[i].stock = s /\ queue'[j].stock = s => i = j
    <3>1. \A i \in 1..Len(queue') : i + 1 \in 1..Len(queue) /\ queue'[i] = queue[i + 1]
      BY <1>4 DEF Take, TypeOK
    <3> SUFFICES ASSUME NEW s \in Stocks, NEW i \in 1..Len(queue'), NEW j \in 1..Len(queue'),
                        queue'[i].stock = s, queue'[j].stock = s
                 PROVE  i = j
      OBVIOUS
    <3>2. i + 1 = j + 1
      BY <3>1 DEF OneCopy
    <3> QED  BY <3>2
  <2>3. \A s \in Stocks : \A u, v \in Workers : Held(u, s)' /\ Held(v, s)' => u = v
    BY <1>4, <2>1 DEF Take, HeldSame, HoldsNothing, OneCopy
  <2>4. \A s \in Stocks : \A v \in Workers : ~(Held(v, s)' /\ Queued(s)')
    BY <1>4, <2>1 DEF Take, HeldSame, OneCopy
  <2> QED  BY <2>2, <2>3, <2>4 DEF OneCopy
<1>5. ASSUME NEW w \in Workers, Give(w) PROVE OneCopy'
  <2>1. PICK item \in Item : /\ queue' = Append(queue, item)
                             /\ \A s \in Stocks : Held(w, s) <=> s = item.stock
    BY <1>5 DEF Give
  <2>2. /\ \A s \in Stocks : Queued(s)' <=> (Queued(s) \/ s = item.stock)
        /\ item.stock \in Stocks
    BY <2>1, QueuedAfterPut DEF Item
  <2>3. ~Queued(item.stock)
    BY <2>1, <2>2 DEF OneCopy
  <2>4. \A s \in Stocks : \A i, j \in 1..Len(queue') :
           queue'[i].stock = s /\ queue'[j].stock = s => i = j
    <3>1. /\ \A i \in 1..Len(queue') : i \in 1..Len(queue) \/ i = Len(queue) + 1
          /\ \A i \in 1..Len(queue) : queue'[i] = queue[i] /\ queue[i].stock # item.stock
          /\ queue'[Len(queue) + 1] = item
      BY <2>1, <2>3 DEF TypeOK, Queued
    <3> SUFFICES ASSUME NEW s \in Stocks, NEW i \in 1..Len(queue'), NEW j \in 1..Len(queue'),
                        queue'[i].stock = s, queue'[j].stock = s
                 PROVE  i = j
      OBVIOUS
    <3>2. CASE i \in 1..Len(queue) /\ j \in 1..Len(queue)
      BY <3>1, <3>2 DEF OneCopy
    <3> QED  BY <3>1, <3>2
  <2>5. \A s \in Stocks : \A u, v \in Workers : Held(u, s)' /\ Held(v, s)' => u = v
    BY <1>5 DEF Give, HeldSame, HoldsNothing, OneCopy
  <2>6. \A s \in Stocks : \A v \in Workers : ~(Held(v, s)' /\ Queued(s)')
    BY <1>5, <2>1, <2>2 DEF Give, HeldSame, HoldsNothing, OneCopy
  <2> QED  BY <2>4, <2>5, <2>6 DEF OneCopy
<1> QED  BY <1>1, <1>2, <1>3, <1>4, <1>5 DEF Move

LEMMA MoveNeverLost ==
    ASSUME TypeOK, NeverLost, Move, SettledStays
    PROVE  NeverLost'
<1>1. CASE Keep
  BY <1>1 DEF Keep, HeldSame, NeverLost, Queued, SettledStays
<1>2. CASE Discard
  <2>1. \A s \in Stocks : Queued(s) => Queued(s)' \/ s = Head(queue).stock
    BY <1>2, QueuedAfterGet DEF Discard
  <2> QED  BY <1>2, <2>1 DEF Discard, HeldSame, NeverLost, SettledStays
<1>3. ASSUME NEW w \in Workers, Release(w) PROVE NeverLost'
  <2>1. \A s \in Stocks : Queued(s) => Queued(s)'
    BY <1>3 DEF Release, Queued
  <2> QED  BY <1>3, <2>1 DEF Release, HeldSame, NeverLost, SettledStays
<1>4. ASSUME NEW w \in Workers, Take(w) PROVE NeverLost'
  <2>1. \A s \in Stocks : Queued(s) => Queued(s)' \/ s = Head(queue).stock
    BY <1>4, QueuedAfterGet DEF Take
  <2> QED  BY <1>4, <2>1 DEF Take, HeldSame, HoldsNothing, NeverLost, SettledStays
<1>5. ASSUME NEW w \in Workers, Give(w) PROVE NeverLost'
  <2>1. \A s \in Stocks : Queued(s) \/ Held(w, s) => Queued(s)'
    BY <1>5, QueuedAfterPut DEF Give
  <2> QED  BY <1>5, <2>1 DEF Give, HeldSame, NeverLost, SettledStays
<1> QED  BY <1>1, <1>2, <1>3, <1>4, <1>5 DEF Move

-----------------------------------------------------------------------------
(* Every step is one of the moves *)

LEMMA ExtraSettles ==
    ASSUME TypeOK, NEW s \in Stocks, NEW status \in Statuses,
           OnExtra(s, status), UNCHANGED results
    PROVE  SettledStays /\ Settled(s)'
<1>1. ASSUME NEW e \in Seq(Statuses) PROVE Append(e, status) # <<>>
  <2>1. Len(Append(e, status)) = Len(e) + 1 /\ Len(e) \in Nat
    OBVIOUS
  <2>2. Len(<<>>) = 0
    OBVIOUS
  <2> QED  BY <2>1, <2>2
<1>2. extras \in [Stocks -> Seq(Statuses)]
  BY DEF TypeOK
<1>3. extras'[s] # <<>>
  BY <1>1, <1>2 DEF OnExtra
<1>4. \A t \in Stocks : extras[t] # <<>> => extras'[t] # <<>>
  BY <1>2, <1>3 DEF OnExtra
<1> QED  BY <1>3, <1>4 DEF SettledStays, Settled, Completed

LEMMA WorkerMoves ==
    ASSUME TypeOK, NEW w \in Workers, Worker(w)
    PROVE  Move /\ SettledStays
<1> USE DispatchAssumption DEF vars, queueVars, threadVars, healthVars, resultVars, mainVars
<1>1. CASE Login(w) \/ CheckStop(w) \/ GetTimeout(w)
  <2>1. SettledStays
    BY <1>1 DEF Login, CheckStop, GetTimeout, Goto, SettledStays, Settled, Completed, TypeOK, Item, Statuses, HoldPoints
  <2>2. Keep
    BY <1>1 DEF Login, CheckStop, GetTimeout, Goto, Keep, HeldSame, Held, TypeOK, Item, HoldPoints, OwePoints, IdlePoints
  <2> QED  BY <2>1, <2>2 DEF Move
<1>2. CASE Get(w)
  <2>1. SettledStays
    BY <1>2 DEF Get, SettledStays, Settled, Completed, TypeOK, Item, Statuses, HoldPoints
  <2>2. Take(w)
    BY <1>2 DEF Get, Take, HeldSame, HoldsNothing, Held, TypeOK, Item, HoldPoints, OwePoints, IdlePoints
  <2> QED  BY <2>1, <2>2 DEF Move
<1>3. CASE PutBack(w)
  <2>1. SettledStays
    BY <1>3 DEF PutBack, Put, Goto, SettledStays, Settled, Completed, TypeOK, Item, Statuses, HoldPoints
  <2>2. Give(w)
    BY <1>3 DEF PutBack, Put, Goto, Give, HeldSame, HoldsNothing, Held, TypeOK, Item, HoldPoints, OwePoints, IdlePoints
  <2> QED  BY <2>1, <2>2 DEF Move
<1>4. CASE DeadlineSkip(w)
  <2>a. task[w].stock \in Stocks /\ "timeout" \in Statuses
    BY <1>4 DEF DeadlineSkip, TypeOK, Item, Statuses, HoldPoints
  <2>1. SettledStays /\ \A s \in Stocks : s = task[w].stock => Settled(s)'
    BY <1>4, <2>a, ExtraSettles DEF DeadlineSkip
  <2>2. Release(w)
    BY <1>4, <2>1 DEF DeadlineSkip, Goto, Release, HeldSame, HoldsNothing, Held, TypeOK, HoldPoints
  <2> QED  BY <2>1, <2>2 DEF Move
<1>5. CASE Begin(w)
  <2>1. SettledStays
    BY <1>5 DEF Begin, Goto, SettledStays, Settled, Completed, TypeOK, Item, Statuses, HoldPoints
  <2>2. Keep
    BY <1>5 DEF Begin, Goto, Keep, HeldSame, Held, TypeOK, Item, HoldPoints, OwePoints, IdlePoints
  <2> QED  BY <2>1, <2>2 DEF Move
<1>6. CASE ProcessFails(w)
  <2>1. SettledStays
    BY <1>6 DEF ProcessFails, OnFailure, Goto, SettledStays, Settled, Completed, TypeOK, Item, Statuses, HoldPoints
  <2>2. Keep
    BY <1>6 DEF ProcessFails, OnFailure, Goto, Keep, HeldSame, Held, TypeOK, Item, HoldPoints, OwePoints, IdlePoints
  <2> QED  BY <2>1, <2>2 DEF Move
<1>7. CASE ProcessSucceeds(w)
  <2>1. SettledStays
    BY <1>7 DEF ProcessSucceeds, Goto, SettledStays, Settled, Completed, TypeOK, Item, Statuses, HoldPoints
  <2>2. Keep
    BY <1>7 DEF ProcessSucceeds, Goto, Keep, HeldSame, Held, TypeOK, Item, HoldPoints, OwePoints, IdlePoints
  <2> QED  BY <2>1, <2>2 DEF Move
<1>8. CASE OnResult(w)
  <2>1. SettledStays
    BY <1>8 DEF OnResult, RecordResult, Goto, SettledStays, Settled, Completed, TypeOK, Item, Statuses, HoldPoints
  <2>2. Release(w)
    BY <1>8 DEF OnResult, RecordResult, Goto, Release, HeldSame, HoldsNothing, Settled, Completed, Held, TypeOK, Item, HoldPoints, OwePoints, IdlePoints
  <2> QED  BY <2>1, <2>2 DEF Move
<1>9. CASE OnResultRaises(w)
  <2>1. SettledStays
    BY <1>9 DEF OnResultRaises, RecordResult, OnFailure, Goto, SettledStays, Settled, Completed, TypeOK, Item, Statuses, HoldPoints
  <2>2. Keep
    BY <1>9 DEF OnResultRaises, RecordResult, OnFailure, Goto, Keep, HeldSame, Held, TypeOK, Item, HoldPoints, OwePoints, IdlePoints
  <2> QED  BY <2>1, <2>2 DEF Move
<1>10. CASE DropDead(w)
  <2>a. task[w].stock \in Stocks /\ "dead_skipped" \in Statuses
    BY <1>10 DEF DropDead, TypeOK, Item, Statuses, HoldPoints
  <2>1. SettledStays /\ \A s \in Stocks : s = task[w].stock => Settled(s)'
    BY <1>10, <2>a, ExtraSettles DEF DropDead
  <2>2. Release(w)
    BY <1>10, <2>1 DEF DropDead, Goto, Release, HeldSame, HoldsNothing, Held, TypeOK, HoldPoints
  <2> QED  BY <2>1, <2>2 DEF Move
<1>11. CASE GiveUp(w)
  <2>a. task[w].stock \in Stocks /\ "failed" \in Statuses
    BY <1>11 DEF GiveUp, TypeOK, Item, Statuses, HoldPoints
  <2>1. SettledStays /\ \A s \in Stocks : s = task[w].stock => Settled(s)'
    BY <1>11, <2>a, ExtraSettles DEF GiveUp
  <2>2. Release(w)
    BY <1>11, <2>1 DEF GiveUp, Goto, Release, HeldSame, HoldsNothing, Held, TypeOK, HoldPoints
  <2> QED  BY <2>1, <2>2 DEF Move
<1>12. CASE Requeue(w)
  <2>1. SettledStays
    BY <1>12 DEF Requeue, Put, Goto, SettledStays, Settled, Completed, TypeOK, Item, Statuses, HoldPoints
  <2>2. Give(w)
    <3>1. task[w] \in Item
      BY <1>12 DEF Requeue, TypeOK, HoldPoints
    <3>2. PICK item \in Item : item = [task[w] EXCEPT !.attempt = @ + 1]
      BY <1>12, <3>1, SMTT(30) DEF Requeue, Item
    <3>3. item.stock = task[w].stock
      BY <3>1, <3>2 DEF Item
    <3>4. queue' = Append(queue, item)
      BY <1>12, <3>2 DEF Requeue, Put
    <3> QED
      BY <1>12, <3>3, <3>4 DEF Requeue, Goto, Give, HeldSame, HoldsNothing, Held, TypeOK, HoldPoints
  <2> QED  BY <2>1, <2>2 DEF Move
<1>13. CASE TaskDone(w)
  <2>1. SettledStays
    BY <1>13 DEF TaskDone, SettledStays, Settled, Completed, TypeOK, Item, Statuses, HoldPoints
  <2>2. Keep
    BY <1>13 DEF TaskDone, Keep, HeldSame, Held, TypeOK, Item, HoldPoints, OwePoints, IdlePoints
  <2> QED  BY <2>1, <2>2 DEF Move
<1> QED  BY <1>1, <1>2, <1>3, <1>4, <1>5, <1>6, <1>7, <1>8, <1>9, <1>10, <1>11, <1>12, <1>13 DEF Worker

LEMMA MainMoves ==
    ASSUME TypeOK, Main \/ Expire \/ UNCHANGED vars
    PROVE  Move /\ SettledStays
<1> USE DispatchAssumption DEF vars, queueVars, threadVars, healthVars, resultVars, mainVars
<1>1. CASE DrainOne
  <2>1. Head(queue) \in Item
    BY <1>1 DEF DrainOne, TypeOK
  <2>2. SettledStays /\ \A s \in Stocks : s = Head(queue).stock => Settled(s)'
    BY <1>1, <2>1, ExtraSettles DEF DrainOne, Item, Statuses
  <2>3. Discard
    BY <1>1, <2>2 DEF DrainOne, Discard, HeldSame, Held
  <2> QED  BY <2>2, <2>3 DEF Move
<1>2. CASE UNCHANGED <<queueVars, threadVars, resultVars, extras>>
  BY <1>2 DEF Move, Keep, HeldSame, Held, SettledStays, Settled, Completed
<1> QED
  BY <1>1, <1>2 DEF Main, Watch, CheckAllDead, DrainEmpty, Halt, AllDone, Join, Expire

-----------------------------------------------------------------------------
(* Attempts. An analysis begins only for a stock that is in one place, so  *)
(* no other copy carries an attempt number that becomes stale.             *)

LEMMA WorkerAttempts ==
    ASSUME TypeOK, OneCopy, AttemptsCounted, AttemptBound, NEW w \in Workers, Worker(w), TypeOK'
    PROVE  AttemptsCounted' /\ AttemptBound'
<1> USE DispatchAssumption DEF vars, queueVars, threadVars, healthVars, resultVars, mainVars
<1>0. \A v \in Workers : pc[v] \in HoldPoints => task[v] \in Item
  BY DEF TypeOK
<1>1. CASE Login(w) \/ CheckStop(w) \/ GetTimeout(w)
  BY <1>1, ZenonT(60) DEF Login, CheckStop, GetTimeout, Goto, AttemptsCounted, AttemptBound, TypeOK, HoldPoints
<1>2. CASE Get(w)
  <2>1. /\ \A i \in 1..Len(queue') : i + 1 \in 1..Len(queue) /\ queue'[i] = queue[i + 1]
        /\ 1 \in 1..Len(queue) /\ Head(queue) = queue[1]
    BY <1>2 DEF Get, TypeOK
  <2>2. \A i \in 1..Len(queue') : submits'[queue'[i].stock] = queue'[i].attempt
    BY <1>2, <2>1 DEF Get, AttemptsCounted
  <2>3. \A v \in Workers : pc'[v] \in HoldPoints =>
           submits'[task'[v].stock] =
              IF pc'[v] = "got" THEN task'[v].attempt ELSE task'[v].attempt + 1
    BY <1>2, <2>1 DEF Get, AttemptsCounted, TypeOK
  <2> QED  BY <1>2, <2>2, <2>3 DEF Get, AttemptsCounted, AttemptBound
<1>3. CASE Begin(w)
  <2>1. /\ Held(w, task[w].stock) /\ task[w].stock \in Stocks
        /\ submits[task[w].stock] = task[w].attempt
        /\ task[w].attempt \in 0..MaxRetry
    BY <1>3, <1>0 DEF Begin, Held, HoldPoints, Item, AttemptsCounted
  <2>2. \A i \in 1..Len(queue) : queue[i].stock # task[w].stock
    BY <2>1 DEF OneCopy, Queued
  <2>3. \A v \in Workers \ {w} : pc[v] \in HoldPoints => task[v].stock # task[w].stock
    BY <2>1 DEF OneCopy, Held
  <2>a. submits'[task[w].stock] = task[w].attempt + 1
    BY <1>3, <2>1 DEF Begin, TypeOK
  <2>b. \A s \in Stocks : s # task[w].stock => submits'[s] = submits[s]
    BY <1>3 DEF Begin, TypeOK
  <2>c. queue' = queue
    BY <1>3 DEF Begin
  <2>d. \A i \in 1..Len(queue) : queue[i].stock \in Stocks
    <3>1. queue \in Seq(Item)
      BY DEF TypeOK
    <3>2. \A i \in 1..Len(queue) : queue[i] \in Item
      BY <3>1
    <3> QED  BY <3>2 DEF Item
  <2>4. \A i \in 1..Len(queue') : submits'[queue'[i].stock] = queue'[i].attempt
    BY <2>2, <2>b, <2>c, <2>d DEF AttemptsCounted
  <2>5. \A v \in Workers : pc'[v] \in HoldPoints =>
           submits'[task'[v].stock] =
              IF pc'[v] = "got" THEN task'[v].attempt ELSE task'[v].attempt + 1
    BY <1>3, <1>0, <2>3, <2>a, <2>b DEF Begin, Goto, AttemptsCounted, TypeOK, Item
  <2>6. AttemptBound'
    BY <1>3, <2>1 DEF Begin, AttemptBound, TypeOK
  <2> QED  BY <2>4, <2>5, <2>6 DEF AttemptsCounted
<1>4. CASE DeadlineSkip(w) \/ OnResult(w) \/ DropDead(w) \/ GiveUp(w)
  BY <1>4 DEF DeadlineSkip, OnResult, DropDead, GiveUp, Goto, AttemptsCounted, AttemptBound, TypeOK, HoldPoints
<1>5. CASE ProcessFails(w) \/ ProcessSucceeds(w) \/ OnResultRaises(w)
  BY <1>5, ZenonT(60) DEF ProcessFails, ProcessSucceeds, OnResultRaises, OnFailure, Goto, AttemptsCounted, AttemptBound, TypeOK, HoldPoints
<1>6. ASSUME NEW item \in Item, queue' = Append(queue, item),
             submits[item.stock] = item.attempt,
             pc'[w] \notin HoldPoints, \A v \in Workers \ {w} : pc'[v] = pc[v],
             UNCHANGED <<task, submits>>
      PROVE  AttemptsCounted' /\ AttemptBound'
  <2>1. /\ \A i \in 1..Len(queue') : i \in 1..Len(queue) \/ i = Len(queue) + 1
        /\ \A i \in 1..Len(queue) : queue'[i] = queue[i]
        /\ queue'[Len(queue) + 1] = item
    BY <1>6 DEF TypeOK
  <2>2. \A i \in 1..Len(queue') : submits'[queue'[i].stock] = queue'[i].attempt
    BY <1>6, <2>1 DEF AttemptsCounted
  <2> QED  BY <1>6, <2>2 DEF AttemptsCounted, AttemptBound
<1>7. CASE PutBack(w)
  <2>1. task[w] \in Item /\ submits[task[w].stock] = task[w].attempt
    BY <1>7, <1>0 DEF PutBack, AttemptsCounted, HoldPoints
  <2> QED  BY <1>6, <1>7, <2>1 DEF PutBack, Put, Goto, TypeOK, HoldPoints
<1>8. CASE Requeue(w)
  <2>1. task[w] \in Item /\ submits[task[w].stock] = task[w].attempt + 1
    BY <1>8, <1>0 DEF Requeue, AttemptsCounted, HoldPoints
  <2>2. PICK item \in Item : item = [task[w] EXCEPT !.attempt = @ + 1]
    BY <1>8, <2>1 DEF Requeue, Item
  <2>3. item.stock = task[w].stock /\ item.attempt = task[w].attempt + 1
    BY <2>1, <2>2 DEF Item
  <2>4. queue' = Append(queue, item)
    BY <1>8, <2>2 DEF Requeue, Put
  <2> QED  BY <1>6, <1>8, <2>1, <2>3, <2>4 DEF Requeue, Goto, TypeOK, HoldPoints
<1>9. CASE TaskDone(w)
  BY <1>9 DEF TaskDone, AttemptsCounted, AttemptBound, TypeOK, HoldPoints
<1> QED  BY <1>1, <1>2, <1>3, <1>4, <1>5, <1>7, <1>8, <1>9 DEF Worker

LEMMA MainAttempts ==
    ASSUME TypeOK, AttemptsCounted, AttemptBound, Main \/ Expire \/ UNCHANGED vars
    PROVE  AttemptsCounted' /\ AttemptBound'
<1> USE DEF vars, queueVars, threadVars, healthVars, resultVars, mainVars
<1>1. CASE DrainOne
  <2>1. \A i \in 1..Len(queue') : i + 1 \in 1..Len(queue) /\ queue'[i] = queue[i + 1]
    BY <1>1 DEF DrainOne, TypeOK
  <2> QED  BY <1>1, <2>1 DEF DrainOne, AttemptsCounted, AttemptBound
<1>2. CASE UNCHANGED <<queue, threadVars, submits>>
  BY <1>2 DEF AttemptsCounted, AttemptBound
<1> QED
  BY <1>1, <1>2 DEF Main, Watch, CheckAllDead, DrainEmpty, Halt, AllDone, Join, Expire

-----------------------------------------------------------------------------
(* Who is dead, and when main leaves its loop *)

LEMMA StepDead ==
    ASSUME TypeOK, DeadNeverRuns, [Next]_vars
    PROVE  DeadNeverRuns' /\ dead \subseteq dead'
<1> USE DEF vars, queueVars, threadVars, healthVars, resultVars, mainVars
<1>1. ASSUME NEW w \in Workers, Worker(w)
      PROVE  DeadNeverRuns' /\ dead \subseteq dead'
  <2>1. CASE Login(w) \/ CheckStop(w) \/ GetTimeout(w) \/ Get(w) \/ Begin(w)
    BY <2>1 DEF Login, CheckStop, GetTimeout, Get, Begin, Goto, DeadNeverRuns, TypeOK
  <2>2. CASE PutBack(w) \/ DeadlineSkip(w) \/ OnResult(w) \/ DropDead(w) \/ GiveUp(w) \/ Requeue(w)
    BY <2>2 DEF PutBack, DeadlineSkip, OnResult, DropDead, GiveUp, Requeue, Goto, DeadNeverRuns, TypeOK
  <2>3. CASE ProcessFails(w) \/ OnResultRaises(w)
    BY <2>3 DEF ProcessFails, OnResultRaises, OnFailure, Goto, DeadNeverRuns, TypeOK
  <2>4. CASE ProcessSucceeds(w) \/ TaskDone(w)
    BY <2>4 DEF ProcessSucceeds, TaskDone, Goto, DeadNeverRuns, TypeOK
  <2> QED  BY <1>1, <2>1, <2>2, <2>3, <2>4 DEF Worker
<1>2. CASE UNCHANGED <<pc, dead>>
  BY <1>2 DEF DeadNeverRuns
<1> QED
  BY <1>1, <1>2 DEF Next, Main, Watch, CheckAllDead, DrainOne, DrainEmpty, Halt, AllDone,
                    Join, Expire, Terminated

LEMMA WorkerLeaves ==
    ASSUME TypeOK, DeadNeverRuns, LeavesWhenOver, NEW w \in Workers, Worker(w)
    PROVE  LeavesWhenOver'
<1> USE DEF vars, queueVars, threadVars, healthVars, resultVars, mainVars
<1>0. UNCHANGED mainVars
  BY DEF Worker, Login, CheckStop, Get, GetTimeout, PutBack, DeadlineSkip, Begin, ProcessFails,
         ProcessSucceeds, OnResult, OnResultRaises, DropDead, GiveUp, Requeue, TaskDone
<1>1. dead \subseteq dead' /\ dead' \subseteq Workers
  BY DEF Worker, Login, CheckStop, Get, GetTimeout, PutBack, DeadlineSkip, Begin, ProcessFails,
         ProcessSucceeds, OnResult, OnResultRaises, OnFailure, DropDead, GiveUp, Requeue, TaskDone,
         TypeOK
<1>2. ASSUME queue = <<>>, Owing = {}
      PROVE  queue' = <<>> /\ Owing' = {}
  <2>1. \A v \in Workers : pc[v] \in IdlePoints
    BY <1>2 DEF Owing, TypeOK
  <2>2. CASE Login(w) \/ CheckStop(w) \/ GetTimeout(w)
    BY <1>2, <2>1, <2>2 DEF Login, CheckStop, GetTimeout, Goto, Owing, TypeOK, HoldPoints,
                            OwePoints, IdlePoints
  <2> QED
    BY <1>2, <2>1, <2>2 DEF Worker, Get, PutBack, DeadlineSkip, Begin, ProcessFails,
         ProcessSucceeds, OnResult, OnResultRaises, DropDead, GiveUp, Requeue, TaskDone,
         OwePoints, IdlePoints
<1>3. ASSUME w \in joined, pc[w] \in {"run", "success"} PROVE FALSE
  <2>1. w \in Owing /\ w \notin dead
    BY <1>3 DEF Owing, HoldPoints, DeadNeverRuns
  <2> QED  BY <1>3, <2>1 DEF LeavesWhenOver
<1>4. \A v \in dead' : pc'[v] # "login" /\ (v \in joined' => pc'[v] = "exited")
  <2>1. CASE Login(w) \/ CheckStop(w) \/ GetTimeout(w) \/ Get(w) \/ Begin(w)
    BY <2>1 DEF Login, CheckStop, GetTimeout, Get, Begin, Goto, LeavesWhenOver, TypeOK
  <2>2. CASE PutBack(w) \/ DeadlineSkip(w) \/ OnResult(w) \/ DropDead(w) \/ GiveUp(w) \/ Requeue(w)
    BY <2>2 DEF PutBack, DeadlineSkip, OnResult, DropDead, GiveUp, Requeue, Goto, LeavesWhenOver, TypeOK
  <2>3. CASE ProcessFails(w) \/ OnResultRaises(w)
    <3>1. w \notin joined /\ pc[w] \in {"run", "success"}
      BY <1>3, <2>3 DEF ProcessFails, OnResultRaises
    <3>2. dead' \subseteq dead \cup {w} /\ pc'[w] \in {"deadDrop", "retry"}
      BY <2>3 DEF ProcessFails, OnResultRaises, OnFailure, Goto, TypeOK
    <3>3. \A v \in Workers \ {w} : pc'[v] = pc[v]
      BY <2>3 DEF ProcessFails, OnResultRaises, OnFailure, Goto, TypeOK
    <3> QED  BY <1>0, <1>1, <3>1, <3>2, <3>3 DEF LeavesWhenOver
  <2>4. CASE ProcessSucceeds(w) \/ TaskDone(w)
    BY <2>4 DEF ProcessSucceeds, TaskDone, Goto, LeavesWhenOver, TypeOK, OwePoints
  <2> QED  BY <2>1, <2>2, <2>3, <2>4 DEF Worker
<1> QED  BY <1>0, <1>1, <1>2, <1>4 DEF LeavesWhenOver

LEMMA MainLeaves ==
    ASSUME TypeOK, UnfinishedExact, DeadNeverRuns, LeavesWhenOver,
           Main \/ Expire \/ UNCHANGED vars
    PROVE  LeavesWhenOver'
<1> USE DEF vars, queueVars, threadVars, healthVars, resultVars, mainVars
<1>1. CASE Watch
  <2>1. ASSUME ~(unfinished > 0) PROVE queue = <<>> /\ Owing = {}
    <3>1. Len(queue) \in Nat /\ unfinished = 0
      BY <2>1 DEF TypeOK
    <3>2. Len(queue) = 0 /\ Cardinality(Owing) = 0
      BY <3>1, OwingFinite DEF UnfinishedExact
    <3> QED  BY <3>2, OwingFinite, FS_EmptySet DEF TypeOK
  <2> QED  BY <1>1, <2>1 DEF Watch, LeavesWhenOver, Owing
<1>2. CASE CheckAllDead
  BY <1>2 DEF CheckAllDead, LeavesWhenOver
<1>3. CASE DrainOne
  BY <1>3 DEF DrainOne, LeavesWhenOver
<1>4. CASE DrainEmpty
  BY <1>4 DEF DrainEmpty, LeavesWhenOver
<1>5. CASE Halt
  BY <1>5 DEF Halt, LeavesWhenOver, Owing
<1>6. CASE AllDone
  BY <1>6 DEF AllDone, LeavesWhenOver, Owing
<1>7. ASSUME NEW w \in Workers \ joined, Join(w) PROVE LeavesWhenOver'
  <2>1. w \in dead => pc[w] = "exited"
    BY <1>7 DEF Join, LeavesWhenOver, DeadNeverRuns
  <2> QED  BY <1>7, <2>1 DEF Join, LeavesWhenOver, Owing
<1>8. CASE Expire \/ UNCHANGED vars
  BY <1>8 DEF Expire, LeavesWhenOver, Owing
<1> QED  BY <1>1, <1>2, <1>3, <1>4, <1>5, <1>6, <1>7, <1>8 DEF Main

-----------------------------------------------------------------------------
SafetyInv ==
    /\ TypeOK /\ UnfinishedExact
    /\ OneCopy /\ NeverLost
    /\ AttemptsCounted /\ AttemptBound
    /\ DeadNeverRuns /\ LeavesWhenOver

LEMMA InitSafety == Init => SafetyInv
<1> SUFFICES ASSUME Init PROVE SafetyInv
  OBVIOUS
<1>1. TypeOK /\ UnfinishedExact
  BY InitTypeOK
<1>2. /\ Len(StockList) \in Nat /\ Len(queue) = Len(StockList)
      /\ \A i \in 1..Len(StockList) : queue[i].stock = StockList[i] /\ queue[i].attempt = 0
      /\ \A i \in 1..Len(StockList) : StockList[i] \in Stocks
      /\ \A w \in Workers : pc[w] = "login"
  BY DispatchAssumption DEF Init, Stocks
<1>3. OneCopy
  BY <1>2, DispatchAssumption DEF OneCopy, Held, HoldPoints
<1>4. NeverLost
  BY <1>2 DEF NeverLost, Queued, Stocks
<1>5. AttemptsCounted /\ AttemptBound
  BY <1>2, DispatchAssumption DEF Init, AttemptsCounted, AttemptBound, HoldPoints
<1>6. DeadNeverRuns /\ LeavesWhenOver
  BY DEF Init, DeadNeverRuns, LeavesWhenOver
<1> QED  BY <1>1, <1>3, <1>4, <1>5, <1>6 DEF SafetyInv

LEMMA StepSafety == SafetyInv /\ [Next]_vars => SafetyInv'
<1> SUFFICES ASSUME SafetyInv, [Next]_vars PROVE SafetyInv'
  OBVIOUS
<1> USE DEF SafetyInv
<1>1. DeadNeverRuns'
  BY StepDead
<1>2. ASSUME NEW w \in Workers, Worker(w) PROVE SafetyInv'
  <2>1. TypeOK' /\ UnfinishedExact'
    BY <1>2, WorkerTypeOK
  <2>2. Move /\ SettledStays
    BY <1>2, WorkerMoves
  <2>3. OneCopy' /\ NeverLost'
    BY <2>2, MoveOneCopy, MoveNeverLost
  <2>4. AttemptsCounted' /\ AttemptBound'
    BY <1>2, <2>1, WorkerAttempts
  <2>5. LeavesWhenOver'
    BY <1>2, WorkerLeaves
  <2> QED  BY <1>1, <2>1, <2>3, <2>4, <2>5
<1>3. CASE Main \/ Expire \/ UNCHANGED vars
  <2>1. TypeOK' /\ UnfinishedExact'
    BY <1>3, MainTypeOK
  <2>2. Move /\ SettledStays
    BY <1>3, MainMoves
  <2>3. OneCopy' /\ NeverLost'
    BY <2>2, MoveOneCopy, MoveNeverLost
  <2>4. AttemptsCounted' /\ AttemptBound'
    BY <1>3, MainAttempts
  <2>5. LeavesWhenOver'
    BY <1>3, MainLeaves
  <2> QED  BY <1>1, <2>1, <2>3, <2>4, <2>5
<1> QED  BY <1>2, <1>3 DEF Next, Terminated

LEMMA SafetyInvariant == Spec => []SafetyInv
BY InitSafety, StepSafety, PTL DEF Spec

(* No stock is ever lost: a requeue, a hand-back by a dead worker, the     *)
(* deadline and the drain all keep it somewhere until it has an outcome.   *)
THEOREM NoStockLost == Spec => []NeverLost
BY SafetyInvariant, PTL DEF SafetyInv

(* No stock is ever duplicated: the same steps leave no second copy of it  *)
(* in the queue or in the hands of another worker.                         *)
THEOREM NoStockDuplicated == Spec => []OneCopy
BY SafetyInvariant, PTL DEF SafetyInv

(* No stock is analysed more than max_retry + 1 times, by all workers      *)
(* together.                                                               *)
THEOREM AttemptsBounded == Spec => []AttemptBound
BY SafetyInvariant, PTL DEF SafetyInv

(* A worker declared dead never analyses again in the round.               *)
THEOREM DeadStayIdle == Spec => []DeadNeverRuns
BY SafetyInvariant, PTL DEF SafetyInv

(* What is left at the return is queued, and nobody is left to take it *)
LEMMA StrandedFromSafety == SafetyInv => StrandedOnlyIfAllDead
<1> SUFFICES ASSUME SafetyInv, main = "done", NEW s \in Stocks, ~Settled(s)
             PROVE  dead = Workers /\ Queued(s)
  BY DEF StrandedOnlyIfAllDead
<1>1. ASSUME NEW w \in Workers, Held(w, s) PROVE FALSE
  <2>1. w \in Owing /\ pc[w] # "exited"
    BY <1>1 DEF Held, Owing, HoldPoints
  <2> QED  BY <2>1 DEF SafetyInv, LeavesWhenOver
<1>2. Queued(s)
  BY <1>1 DEF SafetyInv, NeverLost
<1>3. queue # <<>>
  BY <1>2 DEF Queued
<1> QED  BY <1>2, <1>3 DEF SafetyInv, LeavesWhenOver

(* When run() returns, a stock without an outcome is still queued and      *)
(* every worker is dead.                                                   *)
THEOREM ReturnsComplete == Spec => []StrandedOnlyIfAllDead
BY StrandedFromSafety, SafetyInvariant, PTL

-----------------------------------------------------------------------------
(* The dispatcher implements StockRound, the round it promises to the      *)
(* orchestrator, whose on_result catches every exception of its own.       *)

(* Nobody holds a stock once run() has returned *)
LEMMA NobodyHoldsAtReturn ==
    ASSUME SafetyInv, main = "done", NEW w \in Workers, NEW s \in Stocks
    PROVE  ~Held(w, s)
<1> SUFFICES ASSUME Held(w, s) PROVE FALSE
  OBVIOUS
<1>1. w \in Owing /\ pc[w] # "exited"
  BY DEF Held, Owing, HoldPoints
<1> QED  BY <1>1 DEF SafetyInv, LeavesWhenOver

-----------------------------------------------------------------------------
(* The three kinds of step, as the round sees them *)

(* the outcomes stay as they are; a stock that is settled is not touched *)
Quiet == UNCHANGED <<results, extras>>

(* the stock s, queued or held before, gets its one outcome and is gone *)
Settles(s) ==
    /\ ~Settled(s)
    /\ \/ /\ \E status \in Statuses : extras' = [extras EXCEPT ![s] = <<status>>]
          /\ UNCHANGED <<results, dead, main>>
       \/ /\ \E w \in Workers \ dead : results' = [results EXCEPT ![s] = w]
          /\ UNCHANGED <<extras, dead, main>>
    /\ main # "done"
    /\ ~Queued(s)'
    /\ \A w \in Workers : ~Held(w, s)'

RoundStep ==
    \/ Quiet /\ (UNCHANGED Round!vars \/ Round!Next)
    \/ \E s \in Stocks : Settles(s)

LEMMA SettlesKeepsOneOutcome ==
    ASSUME TypeOK, OneOutcome, Move, NEW s \in Stocks, Settles(s)
    PROVE  OneOutcome'
<1>1. \A t \in Stocks \ {s} : extras'[t] = extras[t] /\ results'[t] = results[t]
  BY DEF Settles, TypeOK
<1>2. Len(extras'[s]) <= 1 /\ (results'[s] # Nobody => extras'[s] = <<>>)
  <2>1. extras[s] = <<>> /\ results[s] = Nobody
    BY DEF Settles, Settled, Completed
  <2>2. CASE UNCHANGED extras
    BY <2>1, <2>2
  <2>3. ASSUME NEW status \in Statuses, extras' = [extras EXCEPT ![s] = <<status>>],
               UNCHANGED results
        PROVE  Len(extras'[s]) <= 1 /\ results'[s] = Nobody
    BY <2>1, <2>3 DEF TypeOK
  <2> QED  BY <2>2, <2>3 DEF Settles
<1>3. \A t \in Stocks \ {s} : Settled(t) <=> Settled(t)'
  BY <1>1 DEF Settled, Completed
<1>4. \A t \in Stocks \ {s} : Settled(t) => ~Queued(t)' /\ \A w \in Workers : ~Held(w, t)'
  <2>1. \A t \in Stocks : Queued(t)' => Queued(t) \/ \E w \in Workers : Held(w, t)
    BY QueuedAfterGet, QueuedAfterPut
    DEF Move, Keep, Discard, Release, Take, Give, Queued
  <2>2. \A t \in Stocks : \A w \in Workers :
           Held(w, t)' => Queued(t) \/ \E v \in Workers : Held(v, t)
    BY QueuedAfterGet
    DEF Move, Keep, Discard, Release, Take, Give, HeldSame, HoldsNothing
  <2> QED  BY <2>1, <2>2 DEF OneOutcome
<1> QED  BY <1>1, <1>2, <1>3, <1>4 DEF OneOutcome, Settles, Completed

LEMMA QuietKeepsOneOutcome ==
    ASSUME TypeOK, OneOutcome, Move, Quiet
    PROVE  OneOutcome'
<1>1. \A t \in Stocks : Settled(t)' <=> Settled(t)
  BY DEF Quiet, Settled, Completed
<1>2. \A t \in Stocks : Queued(t)' => Queued(t) \/ \E w \in Workers : Held(w, t)
  BY QueuedAfterGet, QueuedAfterPut
  DEF Move, Keep, Discard, Release, Take, Give, Queued
<1>3. \A t \in Stocks : \A w \in Workers :
         Held(w, t)' => Queued(t) \/ \E v \in Workers : Held(v, t)
  BY QueuedAfterGet
  DEF Move, Keep, Discard, Release, Take, Give, HeldSame, HoldsNothing
<1> QED  BY <1>1, <1>2, <1>3 DEF Quiet, OneOutcome, Completed

LEMMA SettlesIsRoundStep ==
    ASSUME NEW s \in Stocks, Settles(s), TypeOK
    PROVE  Round!Next
<1>1. /\ ~(main = "done") /\ UNCHANGED <<dead, main>>
      /\ ~Round!Settled(s)
  BY DEF Settles, Settled, Completed, Round!Settled
<1>2. CASE UNCHANGED results /\ \E status \in Statuses : extras' = [extras EXCEPT ![s] = <<status>>]
  <2>1. PICK status \in Statuses : extras' = [extras EXCEPT ![s] = <<status>>]
    BY <1>2
  <2>2. Round!Drop(s, status)
    BY <1>1, <1>2, <2>1 DEF Round!Drop
  <2> QED  BY <2>2 DEF Round!Next, Round!Statuses, Statuses
<1>3. CASE UNCHANGED extras /\ \E w \in Workers \ dead : results' = [results EXCEPT ![s] = w]
  <2>1. PICK w \in Workers \ dead : results' = [results EXCEPT ![s] = w]
    BY <1>3
  <2>2. Round!Complete(w, s)
    BY <1>1, <1>3, <2>1 DEF Round!Complete
  <2> QED  BY <2>1, <2>2 DEF Round!Next
<1> QED  BY <1>2, <1>3 DEF Settles

-----------------------------------------------------------------------------
(* Each step of the dispatcher is one of these kinds *)

LEMMA HeldSettles ==
    ASSUME SafetyInv, OneOutcome, NEW w \in Workers, pc[w] \in HoldPoints,
           NEW s \in Stocks, s = task[w].stock,
           UNCHANGED <<queue, dead, main>>, pc'[w] \notin HoldPoints,
           HeldSame(Workers \ {w}),
           \/ UNCHANGED results /\ \E status \in Statuses : OnExtra(s, status)
           \/ UNCHANGED extras /\ w \notin dead /\ results' = [results EXCEPT ![s] = w]
    PROVE  Settles(s)
<1>1. Held(w, s)
  BY DEF Held
<1>2. ~Settled(s)
  BY <1>1 DEF OneOutcome
<1>3. ASSUME NEW status \in Statuses, OnExtra(s, status)
      PROVE  extras' = [extras EXCEPT ![s] = <<status>>]
  <2>1. extras[s] = <<>>
    BY <1>2 DEF Settled
  <2>2. Append(<<>>, status) = <<status>>
    OBVIOUS
  <2> QED  BY <1>3, <2>1, <2>2 DEF OnExtra
<1>4. main # "done"
  BY <1>1, NobodyHoldsAtReturn
<1>5. ~Queued(s)'
  BY <1>1 DEF SafetyInv, OneCopy, Queued
<1>6. \A v \in Workers : ~Held(v, s)'
  BY <1>1 DEF SafetyInv, OneCopy, HeldSame, Held
<1> QED  BY <1>2, <1>3, <1>4, <1>5, <1>6 DEF Settles

LEMMA LosesIsRoundStep ==
    ASSUME NEW w \in Workers, w \notin dead, dead' = dead \cup {w}, Quiet, UNCHANGED main
    PROVE  Round!Next
<1>1. Round!Lose(w)
  BY DEF Round!Lose, Quiet
<1> QED  BY <1>1 DEF Round!Next

LEMMA WorkerKind ==
    ASSUME ~OnResultMayRaise, SafetyInv, OneOutcome, NEW w \in Workers, Worker(w)
    PROVE  RoundStep
<1> USE DEF vars, queueVars, threadVars, healthVars, resultVars, mainVars, RoundStep
<1>1. CASE Login(w)
  <2>1. w \notin dead
    BY <1>1 DEF Login, SafetyInv, LeavesWhenOver
  <2>2. CASE UNCHANGED dead
    BY <1>1, <2>2 DEF Login, Quiet, Round!vars
  <2>3. CASE dead' = dead \cup {w}
    BY <1>1, <2>1, <2>3, LosesIsRoundStep DEF Login, Quiet
  <2> QED  BY <1>1, <2>2, <2>3 DEF Login
<1>2. CASE UNCHANGED <<dead, main, results, extras>>
  BY <1>2 DEF Quiet, Round!vars
<1>3. CASE ProcessFails(w)
  <2>1. CASE UNCHANGED dead
    BY <1>3, <2>1 DEF ProcessFails, Quiet, Round!vars
  <2>2. CASE w \notin dead /\ dead' = dead \cup {w}
    BY <1>3, <2>2, LosesIsRoundStep DEF ProcessFails, Quiet
  <2> QED  BY <1>3, <2>1, <2>2 DEF ProcessFails, OnFailure
<1>4. ASSUME DeadlineSkip(w) \/ DropDead(w) \/ GiveUp(w) \/ OnResult(w)
      PROVE  \E s \in Stocks : Settles(s)
  <2>1. /\ pc[w] \in HoldPoints /\ pc'[w] \notin HoldPoints
        /\ UNCHANGED <<queue, dead, main>>
        /\ HeldSame(Workers \ {w})
    BY <1>4 DEF DeadlineSkip, DropDead, GiveUp, OnResult, Goto, HoldPoints, HeldSame, Held,
                SafetyInv, TypeOK
  <2>2. PICK s \in Stocks : s = task[w].stock
    BY <2>1 DEF SafetyInv, TypeOK, Item
  <2>3. \/ UNCHANGED results /\ \E status \in Statuses : OnExtra(s, status)
        \/ UNCHANGED extras /\ w \notin dead /\ results' = [results EXCEPT ![s] = w]
    BY <1>4, <2>2 DEF DeadlineSkip, DropDead, GiveUp, OnResult, RecordResult, Statuses,
                      SafetyInv, DeadNeverRuns
  <2>4. Settles(s)
    BY <2>1, <2>2, <2>3, HeldSettles
  <2> QED  BY <2>4
<1> QED
  BY <1>1, <1>2, <1>3, <1>4 DEF Worker, CheckStop, Get, GetTimeout, PutBack, Begin,
     ProcessSucceeds, OnResultRaises, Requeue, TaskDone

LEMMA MainKind ==
    ASSUME SafetyInv, OneOutcome, SafetyInv', Main \/ Expire \/ UNCHANGED vars
    PROVE  RoundStep
<1> USE DEF vars, queueVars, threadVars, healthVars, resultVars, mainVars, RoundStep
<1>1. CASE DrainOne
  <2>1. /\ Head(queue) \in Item
        /\ \A s \in Stocks : s = Head(queue).stock => Queued(s) /\ ~Queued(s)'
    BY <1>1, QueuedAfterGet DEF DrainOne, SafetyInv
  <2>2. PICK s \in Stocks : s = Head(queue).stock
    BY <2>1 DEF Item
  <2>3. Queued(s) /\ ~Queued(s)' /\ ~Settled(s) /\ \A w \in Workers : ~Held(w, s)
    BY <2>1, <2>2 DEF OneOutcome, SafetyInv, OneCopy
  <2>4. \A w \in Workers : ~Held(w, s)'
    BY <1>1, <2>3 DEF DrainOne, Held
  <2>5. extras' = [extras EXCEPT ![s] = <<"dead_skipped">>]
    <3>1. extras[s] = <<>>
      BY <2>3 DEF Settled
    <3>2. Append(<<>>, "dead_skipped") = <<"dead_skipped">>
      OBVIOUS
    <3> QED  BY <1>1, <2>2, <3>1, <3>2 DEF DrainOne, OnExtra
  <2>6. "dead_skipped" \in Statuses
    BY DEF Statuses
  <2>7. Settles(s)
    BY <1>1, <2>3, <2>4, <2>5, <2>6 DEF DrainOne, Settles
  <2> QED  BY <2>7
<1>2. CASE AllDone
  <2>1. Quiet /\ main # "done" /\ main' = "done" /\ UNCHANGED dead
    BY <1>2 DEF AllDone, Quiet
  <2>2. dead = Workers \/ \A s \in Stocks : Settled(s)
    <3> SUFFICES ASSUME dead # Workers, NEW s \in Stocks PROVE Settled(s)
      OBVIOUS
    <3>1. \A w \in Workers : ~Held(w, s)'
      BY <2>1, NobodyHoldsAtReturn, <1>2 DEF SafetyInv, LeavesWhenOver, AllDone, Held, Owing, HoldPoints
    <3>2. queue = <<>>
      BY <1>2 DEF AllDone, SafetyInv, LeavesWhenOver
    <3>3. ~Queued(s)
      BY <3>2 DEF Queued
    <3> QED  BY <1>2, <3>1, <3>3 DEF AllDone, SafetyInv, NeverLost, Held
  <2>3. Round!Return
    <3>1. \A s \in Stocks : Settled(s) <=> Round!Settled(s)
      BY DEF Settled, Completed, Round!Settled
    <3>2. dead = Workers => Workers \ dead = {}
      OBVIOUS
    <3> QED  BY <2>1, <2>2, <3>1, <3>2 DEF Round!Return, Quiet
  <2> QED  BY <2>1, <2>3 DEF Round!Next
<1>3. CASE UNCHANGED <<dead, results, extras>> /\ ((main = "done") <=> (main' = "done"))
  BY <1>3 DEF Quiet, Round!vars
<1> QED
  BY <1>1, <1>2, <1>3 DEF Main, Watch, CheckAllDead, DrainEmpty, Halt, Join, Expire

LEMMA StepRound ==
    ASSUME ~OnResultMayRaise, SafetyInv, OneOutcome, [Next]_vars
    PROVE  OneOutcome' /\ [Round!Next]_(Round!vars)
<1>1. SafetyInv'
  BY StepSafety
<1>2. TypeOK
  BY DEF SafetyInv
<1>3. Move /\ RoundStep
  <2>1. ASSUME NEW w \in Workers, Worker(w) PROVE Move /\ RoundStep
    BY <1>2, <2>1, WorkerMoves, WorkerKind
  <2>2. CASE Main \/ Expire \/ UNCHANGED vars
    BY <1>1, <1>2, <2>2, MainMoves, MainKind
  <2> QED  BY <2>1, <2>2 DEF Next, Terminated
<1>4. CASE Quiet /\ (UNCHANGED Round!vars \/ Round!Next)
  BY <1>2, <1>3, <1>4, QuietKeepsOneOutcome
<1>5. ASSUME NEW s \in Stocks, Settles(s) PROVE OneOutcome' /\ Round!Next
  BY <1>2, <1>3, <1>5, SettlesKeepsOneOutcome, SettlesIsRoundStep
<1> QED  BY <1>3, <1>4, <1>5 DEF RoundStep

LEMMA InitRound == Init => OneOutcome /\ Round!Init
<1> SUFFICES ASSUME Init PROVE OneOutcome /\ Round!Init
  OBVIOUS
<1>1. \A s \in Stocks : extras[s] = <<>> /\ results[s] = Nobody
  BY DEF Init
<1>2. OneOutcome
  BY <1>1 DEF OneOutcome, Settled, Completed
<1>3. Round!Init
  BY DEF Init, Round!Init
<1> QED  BY <1>2, <1>3

(* Every stock has at most one outcome, and once it has one the stock is   *)
(* neither queued nor analysed again.                                      *)
THEOREM OutcomesFinal ==
    ASSUME ~OnResultMayRaise PROVE Spec => []OneOutcome
<1>1. SafetyInv /\ OneOutcome /\ [Next]_vars => OneOutcome'
  BY StepRound
<1> QED  BY <1>1, InitRound, SafetyInvariant, PTL DEF Spec

(* The dispatcher implements the abstract round: a result comes from a     *)
(* living worker, an outcome never changes, run() returns only when every  *)
(* stock has one or every worker is dead, and reports nothing afterwards.  *)
THEOREM DispatchImplementsRound ==
    ASSUME ~OnResultMayRaise PROVE Spec => ImplementsRound
<1>1. SafetyInv /\ OneOutcome /\ [Next]_vars => [Round!Next]_(Round!vars)
  BY StepRound
<1> QED
  BY <1>1, InitRound, SafetyInvariant, OutcomesFinal, PTL DEF Spec, ImplementsRound, Round!Spec

=============================================================================
