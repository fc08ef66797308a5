------------------------- MODULE AnalysisQueueProofs -------------------------
(***************************************************************************)
(* Proofs about the task queue of TradingAgents-CN, for any number of      *)
(* tasks, users, workers, cleaners and cancellers.                         *)
(***************************************************************************)
EXTENDS AnalysisQueue, FiniteSetTheorems, FunctionTheorems, TLAPS

-----------------------------------------------------------------------------
(* The inductive invariants *)

(* What is in the list, has a key or was found given up has a hash, and so *)
(* has the task the client is about to push                                *)
HashInv ==
    /\ \A i \in DOMAIN ready : status[ready[i]] # "none"
    /\ \A t \in Tasks : Keyed(t) => status[t] # "none"
    /\ \A c \in Cleaners : \A t \in expired[c] : status[t] # "none"
    /\ client.point \in {"accepted", "saved"} => client.left # <<>>
    /\ client.point = "saved" => status[Head(client.left)] # "none"

TypeInv == TypeOK /\ HashInv

(* A task is with one worker, or in one place of the list, or still to be  *)
(* pushed by the client                                                    *)
Single(t) ==
    /\ \A v, w \in Workers : held[v] = t /\ held[w] = t => v = w
    /\ \A i, j \in DOMAIN ready : ready[i] = t /\ ready[j] = t => i = j
    /\ \A w \in Workers, i \in DOMAIN ready : ~(held[w] = t /\ ready[i] = t)
    /\ \A k \in DOMAIN client.left :
           client.left[k] = t => /\ \A w \in Workers : held[w] # t
                                 /\ \A i \in DOMAIN ready : ready[i] # t

SingleInv ==
    /\ \A i, j \in DOMAIN client.left : client.left[i] = client.left[j] => i = j
    /\ \A t \in Tasks \ takenBack : Single(t)

(* A cleaner that has pushed a task has taken it back *)
PushedInv == \A c \in Cleaners : at[c] = "pushed" => held[c] \in takenBack

(* The worker that has passed the second check has a free slot before it *)
SlotInv ==
    \A u \in Users \ raced :
        /\ \A v, w \in Admitted(u) : v = w
        /\ Admitted(u) # {} => Cardinality(UserSlots(u)) < UserLimit
        /\ Cardinality(UserSlots(u)) <= UserLimit

(* What a worker will write as timeout_at is of this second, unless its    *)
(* task is late                                                            *)
ClockInv ==
    \A w \in Workers : at[w] = "timed" /\ held[w] \notin late => timeoutAt[w] = Timeout + 1

(* No cleaner has to do with a task whose keys had their time to live in   *)
(* the second the clock was read for them. Such a task has a key only once its worker    *)
(* has set it, and the key is gone before it is due.                       *)
OnTime(t) ==
    /\ t \notin takenBack
    /\ \A c \in Cleaners : held[c] # t /\ t \notin expired[c]
    /\ Keyed(t) =>
           /\ \A i \in DOMAIN ready : ready[i] # t
           /\ \A k \in DOMAIN client.left : client.left[k] # t
           /\ \A w \in Workers :
                  held[w] = t => at[w] \in {"leased", "expiring", "working", "unmarked", "uncounted"}
           /\ \A w \in Workers : held[w] = t /\ at[w] = "leased" => key[t].ttl = Forever
           /\ IF key[t].ttl = Forever THEN key[t].due = Timeout + 1 ELSE key[t].ttl <= key[t].due

LeaseInv == \A t \in Tasks \ late : OnTime(t)

-----------------------------------------------------------------------------
(* Types *)

LEMMA RestIs ==
    /\ \A w \in Workers : w \in Actors /\ Rest(w) = "idle"
    /\ \A c \in Cleaners : c \in Actors /\ Rest(c) = "scanned"
    /\ \A x \in Cancellers : x \in Actors /\ Rest(x) = "done"
BY QueueAssumption DEF Rest, Actors

(* One process moves to point p and is then concerned with task h *)
LEMMA ActorMoves ==
    ASSUME ActorsOK, NEW a \in Actors, NEW p, NEW h,
           at' = [at EXCEPT ![a] = p], held' = [held EXCEPT ![a] = h],
           a \in Workers => p \in WorkerPoints,
           a \in Cleaners => p \in CleanerPoints,
           a \in Cancellers => p \in CancellerPoints,
           IF p \in {"idle", Rest(a)} THEN h = Nothing ELSE h \in Tasks /\ status'[h] # "none",
           \A t \in Tasks : status[t] # "none" => status'[t] # "none"
    PROVE  ActorsOK'
<1>1. p \in WorkerPoints \cup CleanerPoints \cup CancellerPoints /\ h \in Tasks \cup {Nothing}
  BY DEF Actors
<1>2. /\ at' \in [Actors -> WorkerPoints \cup CleanerPoints \cup CancellerPoints]
      /\ held' \in [Actors -> Tasks \cup {Nothing}]
  <2> HIDE DEF WorkerPoints, CleanerPoints, CancellerPoints
  <2>1. QED
    BY <1>1 DEF ActorsOK
<1>3. /\ at'[a] = p /\ held'[a] = h
      /\ \A b \in Actors \ {a} : at'[b] = at[b] /\ held'[b] = held[b]
  BY DEF ActorsOK
<1>4. \A b \in Actors : IF at'[b] \in {"idle", Rest(b)} THEN held'[b] = Nothing
                        ELSE held'[b] \in Tasks /\ status'[held'[b]] # "none"
  BY <1>3 DEF ActorsOK
<1>5. /\ \A w \in Workers : at'[w] \in WorkerPoints
      /\ \A c \in Cleaners : at'[c] \in CleanerPoints
      /\ \A x \in Cancellers : at'[x] \in CancellerPoints
  BY <1>3 DEF ActorsOK, Actors
<1>6. QED
  BY <1>2, <1>4, <1>5 DEF ActorsOK, Rest

LEMMA ActorGoes ==
    ASSUME ActorsOK, NEW a \in Actors, NEW p, Goto(a, p), held' = held,
           at[a] \notin {"idle", Rest(a)}, p \notin {"idle", Rest(a)},
           a \in Workers => p \in WorkerPoints,
           a \in Cleaners => p \in CleanerPoints,
           a \in Cancellers => p \in CancellerPoints,
           \A t \in Tasks : status[t] # "none" => status'[t] # "none"
    PROVE  ActorsOK'
<1>1. held' = [held EXCEPT ![a] = held[a]]
  BY DEF ActorsOK
<1>2. held[a] \in Tasks /\ status'[held[a]] # "none"
  BY DEF ActorsOK
<1>3. QED
  BY <1>1, <1>2, ActorMoves DEF Goto

LEMMA ActorLeaves ==
    ASSUME ActorsOK, NEW a \in Actors, Leave(a),
           \A t \in Tasks : status[t] # "none" => status'[t] # "none"
    PROVE  ActorsOK'
<1>1. /\ a \in Workers => Rest(a) \in WorkerPoints
      /\ a \in Cleaners => Rest(a) \in CleanerPoints
      /\ a \in Cancellers => Rest(a) \in CancellerPoints
  BY RestIs DEF WorkerPoints, CleanerPoints, CancellerPoints
<1>2. QED
  BY <1>1, ActorMoves DEF Leave, Goto

(* A process in the middle of an operation holds a task *)
LEMMA HoldsTask ==
    ASSUME ActorsOK, NEW a \in Actors, at[a] \notin {"idle", "scanned", "done"}
    PROVE  held[a] \in Tasks /\ status[held[a]] # "none"
<1>1. Rest(a) \in {"idle", "scanned", "done"}
  BY RestIs DEF Actors
<1>2. QED
  BY <1>1 DEF ActorsOK

(* LREM: the places of the new list are those of the old one that hold     *)
(* another task, each once                                                 *)
IsPlace(place, s, t) ==
    /\ place \in [DOMAIN Without(s, t) -> DOMAIN s]
    /\ \A n \in DOMAIN place : Without(s, t)[n] = s[place[n]] /\ s[place[n]] # t
    /\ \A m, n \in DOMAIN place : place[m] = place[n] => m = n
    /\ \A i \in DOMAIN s : s[i] # t => \E n \in DOMAIN place : place[n] = i

LEMMA WithoutPlaces ==
    ASSUME NEW s \in Seq(Tasks), NEW t
    PROVE  Without(s, t) \in Seq(Tasks) /\ \E place : IsPlace(place, s, t)
<1> DEFINE kept == {i \in DOMAIN s : s[i] # t}
           upto(i) == {j \in kept : j <= i}
           rank == [i \in kept |-> Cardinality(upto(i))]
           place == [n \in 1 .. Cardinality(kept) |-> CHOOSE i \in kept : Cardinality(upto(i)) = n]
<1>1. IsFiniteSet(kept) /\ Cardinality(kept) \in Nat /\ kept \subseteq Nat
  <2>1. DOMAIN s = 1 .. Len(s) /\ Len(s) \in Nat
    OBVIOUS
  <2>2. IsFiniteSet(1 .. Len(s))
    BY <2>1, FS_Interval
  <2>3. QED
    BY <2>1, <2>2, FS_Subset, FS_CardinalityType
<1>2. \A i \in kept : IsFiniteSet(upto(i)) /\ upto(i) \subseteq kept /\ i \in upto(i)
  BY <1>1, FS_Subset
<1>3. \A i \in kept : rank[i] \in 1 .. Cardinality(kept)
  <2> SUFFICES ASSUME NEW i \in kept PROVE Cardinality(upto(i)) \in 1 .. Cardinality(kept)
    OBVIOUS
  <2> HIDE DEF upto, kept
  <2>1. Cardinality(upto(i)) \in Nat /\ Cardinality(upto(i)) <= Cardinality(kept)
    BY <1>1, <1>2, FS_Subset, FS_CardinalityType
  <2>2. Cardinality(upto(i)) # 0
    BY <1>2, FS_EmptySet
  <2>3. QED
    BY <1>1, <2>1, <2>2
<1>4. ASSUME NEW i \in kept, NEW j \in kept, i < j PROVE rank[i] < rank[j]
  <2>1. upto(i) \subseteq upto(j) /\ j \notin upto(i) /\ j \in upto(j)
    BY <1>1, <1>2, <1>4
  <2> HIDE DEF upto, kept
  <2>2. Cardinality(upto(i)) <= Cardinality(upto(j)) /\ Cardinality(upto(i)) # Cardinality(upto(j))
    BY <1>2, <2>1, FS_Subset
  <2>3. Cardinality(upto(i)) \in Nat /\ Cardinality(upto(j)) \in Nat
    BY <1>2, FS_CardinalityType
  <2>4. QED
    BY <2>2, <2>3
<1>5. \A i, j \in kept : rank[i] = rank[j] => i = j
  <2> SUFFICES ASSUME NEW i \in kept, NEW j \in kept, rank[i] = rank[j] PROVE i = j
    OBVIOUS
  <2> HIDE DEF rank, kept
  <2>1. i \in Nat /\ j \in Nat /\ rank[i] \in Nat /\ rank[j] \in Nat
    BY <1>1, <1>3
  <2>2. QED
    BY <1>4, <2>1
<1>6. \A n \in 1 .. Cardinality(kept) : \E i \in kept : rank[i] = n
  <2> HIDE DEF kept, upto
  <2>1. rank \in [kept -> 1 .. Cardinality(kept)]
    BY <1>3
  <2> HIDE DEF rank
  <2>2. rank \in Injection(kept, 1 .. Cardinality(kept))
    BY <1>5, <2>1, Fun_IsInj
  <2>3. IsFiniteSet(1 .. Cardinality(kept)) /\ Cardinality(1 .. Cardinality(kept)) = Cardinality(kept)
    BY <1>1, FS_Interval
  <2>4. rank \in Surjection(kept, 1 .. Cardinality(kept))
    BY <1>1, <2>2, <2>3, FS_Injection
  <2>5. QED
    BY <2>4, Fun_IsSurj, Fun_SurjectionProperties DEF Surjection
<1>7. \A n \in 1 .. Cardinality(kept) : place[n] \in kept /\ rank[place[n]] = n
  <2>1. \A i \in kept : rank[i] = Cardinality(upto(i))
    OBVIOUS
  <2> HIDE DEF rank, kept, upto
  <2>2. QED
    BY <1>6, <2>1
<1>8. Without(s, t) = [n \in 1 .. Cardinality(kept) |-> s[place[n]]]
  BY DEF Without
<1> HIDE DEF place, rank, upto
<1>9. Without(s, t) \in Seq(Tasks) /\ DOMAIN Without(s, t) = 1 .. Cardinality(kept)
  BY <1>1, <1>7, <1>8
<1>10. place \in [1 .. Cardinality(kept) -> DOMAIN s]
  BY <1>7 DEF place
<1>11. \A n \in 1 .. Cardinality(kept) : Without(s, t)[n] = s[place[n]] /\ s[place[n]] # t
  BY <1>7, <1>8
<1>12. \A m, n \in 1 .. Cardinality(kept) : place[m] = place[n] => m = n
  BY <1>7
<1>13. \A i \in kept : place[rank[i]] = i /\ rank[i] \in 1 .. Cardinality(kept)
  BY <1>3, <1>5, <1>7
<1>14. DOMAIN place = 1 .. Cardinality(kept)
  BY <1>10
<1>15. \A i \in DOMAIN s : s[i] # t => \E n \in DOMAIN place : place[n] = i
  BY <1>13, <1>14
<1> HIDE DEF kept
<1>16. place \in [DOMAIN Without(s, t) -> DOMAIN s]
  BY <1>9, <1>10
<1>17. \A n \in DOMAIN place : Without(s, t)[n] = s[place[n]] /\ s[place[n]] # t
  BY <1>11, <1>14
<1>18. \A m, n \in DOMAIN place : place[m] = place[n] => m = n
  BY <1>12, <1>14
<1>19. IsPlace(place, s, t)
  BY <1>15, <1>16, <1>17, <1>18 DEF IsPlace
<1>20. QED
  BY <1>9, <1>19

-----------------------------------------------------------------------------
(* TypeInv is inductive *)

LEMMA TypeInit == Init => TypeInv
<1> SUFFICES ASSUME Init PROVE TypeInv
  OBVIOUS
<1>1. /\ Timeout \in Nat /\ MaxTime \in Nat /\ MaxInterrupts \in Nat /\ Batch \in Seq(Tasks)
  BY QueueAssumption
<1>2. NoKey \in Key /\ NoKey.ttl = 0
  BY <1>1 DEF NoKey, Key, Forever
<1>3. \A t \in Tasks : ~Keyed(t)
  BY <1>2 DEF Init, Keyed
<1>4. ActorsOK
  BY RestIs DEF Init, ActorsOK, WorkerPoints, CleanerPoints, CancellerPoints, Actors
<1>5. TypeOK
  BY <1>1, <1>2, <1>4 DEF Init, TypeOK
<1>6. QED
  BY <1>3, <1>5 DEF Init, TypeInv, HashInv

(* A second does not bring a key back *)
LEMMA LaterIs ==
    ASSUME NEW k \in Key
    PROVE  Later(k) \in Key /\ (Later(k).ttl > 0 => k.ttl > 0)
<1>1. Timeout \in Nat /\ Forever \in Nat
  BY QueueAssumption DEF Forever
<1>2. k.due \in 0 .. Timeout + 1 /\ k.ttl \in 0 .. Forever
  BY DEF Key
<1>3. CASE k.ttl = Forever
  BY <1>1, <1>2, <1>3 DEF Later, Less, Key, Forever
<1>4. CASE k.ttl <= 1
  BY <1>1, <1>2, <1>4 DEF Later, Key, NoKey, Forever
<1>5. CASE k.ttl # Forever /\ k.ttl > 1
  BY <1>1, <1>2, <1>5 DEF Later, Less, Key, Forever
<1>6. QED
  BY <1>1, <1>2, <1>3, <1>4, <1>5

(* What is common to the steps that leave the client and the hashes alone: *)
(* the actors, the list and the keys are considered one by one             *)
LEMMA TypeKept ==
    ASSUME TypeInv, UNCHANGED <<client, status>>,
           ActorsOK', now' \in 0 .. MaxTime, timeoutAt' \in [Actors -> 0 .. Timeout + 1],
           ready' \in Seq(Tasks), \A i \in DOMAIN ready' : status[ready'[i]] # "none",
           userSet' \subseteq Tasks, processing' \subseteq Tasks,
           key' \in [Tasks -> Key], \A t \in Tasks : Keyed(t)' => status[t] # "none",
           expired' \in [Cleaners -> SUBSET Tasks],
           \A c \in Cleaners : \A t \in expired'[c] : status[t] # "none",
           interrupted' \subseteq Tasks, takenBack' \subseteq Tasks, raced' \subseteq Users,
           late' \subseteq Tasks, interrupts' \in 0 .. MaxInterrupts
    PROVE  TypeInv'
BY DEF TypeInv, TypeOK, HashInv

(* A hash that is there stays there *)
LEMMA HashKept ==
    ASSUME TypeInv, UNCHANGED <<client, ready, key, expired>>,
           \A t \in Tasks : status[t] # "none" => status'[t] # "none"
    PROVE  HashInv'
<1>1. \A i \in DOMAIN ready : ready[i] \in Tasks
  BY DEF TypeInv, TypeOK
<1>2. client.point = "saved" => Head(client.left) \in Tasks
  BY DEF TypeInv, TypeOK, HashInv
<1>3. QED
  BY <1>1, <1>2 DEF TypeInv, TypeOK, HashInv, Keyed

LEMMA TypeRelease ==
    ASSUME TypeInv, NEW a \in Actors, Release(a)
    PROVE  TypeInv'
<1>1. ActorsOK /\ TypeOK /\ HashInv
  BY DEF TypeInv, TypeOK
<1>2. NoKey \in Key /\ NoKey.ttl = 0
  BY QueueAssumption DEF NoKey, Key, Forever
<1>3. Rest(a) \in {"idle", "scanned", "done"}
  BY RestIs DEF Actors
<1>4. /\ {"unmarked", "uncounted", "released"} \subseteq WorkerPoints
      /\ {"unmarked", "uncounted", "released"} \subseteq CleanerPoints
      /\ {"unmarked", "uncounted", "released"} \subseteq CancellerPoints
  BY DEF WorkerPoints, CleanerPoints, CancellerPoints
<1>5. CASE UnmarkUser(a) \/ UnmarkGlobal(a)
  <2>1. ActorsOK'
    BY <1>1, <1>3, <1>4, <1>5, ActorGoes DEF UnmarkUser, UnmarkGlobal
  <2>2. QED
    BY <1>1, <1>5, <2>1, TypeKept DEF UnmarkUser, UnmarkGlobal, TypeOK, HashInv, Keyed, histVars, clockVars
<1>6. CASE ClearVisibility(a)
  <2>1. ActorsOK'
    BY <1>1, <1>3, <1>4, <1>6, ActorGoes DEF ClearVisibility
  <2>2. key' \in [Tasks -> Key] /\ \A t \in Tasks : Keyed(t)' => Keyed(t)
    <3>1. held[a] \in Tasks /\ key \in [Tasks -> Key]
      BY <1>1, <1>6, HoldsTask DEF ClearVisibility, TypeOK
    <3>2. key' \in [Tasks -> Key] /\ \A t \in Tasks : key'[t] \in {key[t], NoKey}
      BY <1>2, <1>6, <3>1 DEF ClearVisibility
    <3>3. \A t \in Tasks : key'[t] # NoKey => key'[t] = key[t]
      BY <3>2
    <3>4. QED
      BY <1>2, <3>2, <3>3 DEF Keyed
  <2>3. QED
    BY <1>1, <1>6, <2>1, <2>2, TypeKept DEF ClearVisibility, TypeOK, HashInv, histVars, clockVars
<1>7. QED
  BY <1>5, <1>6 DEF Release

LEMMA TypeStep == TypeInv /\ [Next]_vars => TypeInv'
<1> SUFFICES ASSUME TypeInv, [Next]_vars PROVE TypeInv'
  OBVIOUS
<1>1. ActorsOK /\ TypeOK /\ HashInv
  BY DEF TypeInv, TypeOK
<1>2. Timeout \in Nat /\ NoKey \in Key /\ NoKey.ttl = 0 /\ Forever \in Nat
  BY QueueAssumption DEF NoKey, Key, Forever
<1>3. CASE UNCHANGED vars
  BY <1>1, <1>3 DEF vars, redisVars, actorVars, histVars, clockVars, TypeInv, TypeOK, ActorsOK, HashInv, Keyed, Rest
<1>4. ASSUME CheckLimits PROVE TypeInv'
  BY <1>1, <1>4 DEF CheckLimits, Submit, redisVars, actorVars, histVars, clockVars, TypeInv, TypeOK, ActorsOK, HashInv, Keyed, Rest
<1>5. ASSUME SaveTask PROVE TypeInv'
  <2>1. client.left # <<>> /\ client.left \in Seq(Tasks)
    BY <1>1, <1>5 DEF SaveTask, HashInv, TypeOK
  <2>2. Head(client.left) \in Tasks
    BY <2>1
  <2>3. client'.left = client.left /\ client'.point = "saved" /\ client' \in [point : {"idle", "accepted", "saved", "refused"}, left : Seq(Tasks)]
    BY <1>1, <1>5 DEF SaveTask, Submit, TypeOK
  <2>4. /\ status' \in [Tasks -> {"none", "queued", "processing"} \cup Finished]
        /\ status'[Head(client.left)] # "none"
        /\ \A t \in Tasks : status[t] # "none" => status'[t] # "none"
    BY <1>1, <1>5, <2>2 DEF SaveTask, TypeOK
  <2>5. UNCHANGED <<ready, userSet, processing, key, now, timeoutAt, at, held, expired, interrupted, interrupts, takenBack, raced, late>>
    BY <1>5 DEF SaveTask, actorVars, histVars, clockVars
  <2>6. ActorsOK'
    BY <1>1, <2>4, <2>5 DEF ActorsOK, Rest
  <2>7. TypeOK'
    BY <1>1, <2>3, <2>4, <2>5, <2>6 DEF TypeOK
  <2>8. \A i \in DOMAIN ready : ready[i] \in Tasks
    BY <1>1 DEF TypeOK
  <2>9. QED
    BY <1>1, <2>1, <2>3, <2>4, <2>5, <2>7, <2>8 DEF TypeInv, TypeOK, HashInv, Keyed
<1>6. ASSUME PushTask PROVE TypeInv'
  <2>1. client.left # <<>> /\ client.left \in Seq(Tasks) /\ status[Head(client.left)] # "none"
    BY <1>1, <1>6 DEF PushTask, HashInv, TypeOK
  <2>2. Head(client.left) \in Tasks /\ Tail(client.left) \in Seq(Tasks)
    BY <2>1
  <2>3. client'.point = "idle" /\ client' \in [point : {"idle", "accepted", "saved", "refused"}, left : Seq(Tasks)]
    BY <1>6, <2>2 DEF PushTask
  <2>4. ready' \in Seq(Tasks) /\ \A i \in DOMAIN ready' : status[ready'[i]] # "none"
    BY <1>1, <1>6, <2>1, <2>2 DEF PushTask, TypeOK, HashInv
  <2>5. UNCHANGED <<status, userSet, processing, key, now, timeoutAt, at, held, expired, interrupted, interrupts, takenBack, raced, late>>
    BY <1>6 DEF PushTask, actorVars, histVars, clockVars
  <2>6. QED
    BY <1>1, <2>3, <2>4, <2>5 DEF TypeInv, TypeOK, ActorsOK, HashInv, Keyed, Rest
<1>7. ASSUME InterruptSubmit PROVE TypeInv'
  <2>1. client.left # <<>> /\ client.left \in Seq(Tasks)
    BY <1>1, <1>7 DEF InterruptSubmit, HashInv, TypeOK
  <2>2. Head(client.left) \in Tasks
    BY <2>1
  <2>3. client'.point = "refused" /\ client' \in [point : {"idle", "accepted", "saved", "refused"}, left : Seq(Tasks)]
    BY <1>1, <1>7 DEF InterruptSubmit, Submit, TypeOK
  <2>4. interrupts' \in 0 .. MaxInterrupts /\ interrupted' \subseteq Tasks
    BY <1>1, <1>7, <2>2, QueueAssumption DEF InterruptSubmit, TypeOK
  <2>5. UNCHANGED <<ready, status, userSet, processing, key, now, timeoutAt, at, held, expired, takenBack, raced, late>>
    BY <1>7 DEF InterruptSubmit, redisVars, actorVars, clockVars
  <2>6. QED
    BY <1>1, <2>3, <2>4, <2>5 DEF TypeInv, TypeOK, ActorsOK, HashInv, Keyed, Rest
<1>8. ASSUME NEW w \in Workers, Work(w) PROVE TypeInv'
  <2>1. w \in Actors /\ Rest(w) = "idle" /\ w \notin Cleaners /\ w \notin Cancellers
    BY RestIs, QueueAssumption
  <2>2. CASE Pop(w)
    <3>1. ready \in Seq(Tasks) /\ ready # <<>> /\ \A i \in DOMAIN ready : status[ready[i]] # "none"
      BY <1>1, <2>2 DEF Pop, TypeOK, HashInv
    <3>2. /\ Head(ready) \in Tasks /\ Tail(ready) \in Seq(Tasks) /\ status[Head(ready)] # "none"
          /\ \A i \in DOMAIN Tail(ready) : status[Tail(ready)[i]] # "none"
      BY <3>1
    <3>3. ActorsOK'
      BY <1>1, <2>1, <2>2, <3>2, ActorMoves DEF Pop, Goto, WorkerPoints
    <3>4. QED
      BY <1>1, <2>2, <3>2, <3>3, TypeKept DEF Pop, TypeOK, HashInv, Keyed, histVars, clockVars
  <2>3. CASE CheckAgain(w)
    <3>1. held[w] \in Tasks /\ Owner(held[w]) \in Users
      BY <1>1, <2>1, <2>3, HoldsTask, QueueAssumption DEF CheckAgain
    <3>2. raced' \subseteq Users
      BY <1>1, <2>3, <3>1 DEF CheckAgain, TypeOK
    <3>3. held' = held /\ \E p \in {"admitted", "refused"} : Goto(w, p)
      BY <2>3 DEF CheckAgain
    <3>4. UNCHANGED <<client, status, ready, expired, userSet, processing, key, now, timeoutAt, interrupted, interrupts, takenBack, late>>
      BY <2>3 DEF CheckAgain, redisVars, clockVars
    <3>5. ActorsOK'
      BY <1>1, <2>1, <2>3, <3>3, <3>4, ActorGoes DEF CheckAgain, WorkerPoints
    <3>6. QED
      BY <1>1, <3>2, <3>4, <3>5, TypeKept DEF TypeOK, HashInv, Keyed
  <2>4. CASE PutBack(w)
    <3>1. held[w] \in Tasks /\ status[held[w]] # "none"
      BY <1>1, <2>1, <2>4, HoldsTask DEF PutBack
    <3>2. ready' \in Seq(Tasks) /\ \A i \in DOMAIN ready' : status[ready'[i]] # "none"
      BY <1>1, <2>4, <3>1 DEF PutBack, TypeOK, HashInv
    <3>3. ActorsOK'
      BY <1>1, <2>1, <2>4, ActorLeaves DEF PutBack
    <3>4. QED
      BY <1>1, <2>4, <3>2, <3>3, TypeKept DEF PutBack, TypeOK, HashInv, Keyed, histVars, clockVars
  <2>5. CASE MarkUser(w) \/ MarkGlobal(w)
    <3>1. held[w] \in Tasks
      BY <1>1, <2>1, <2>5, HoldsTask DEF MarkUser, MarkGlobal
    <3>2. ActorsOK'
      BY <1>1, <2>1, <2>5, ActorGoes DEF MarkUser, MarkGlobal, WorkerPoints
    <3>3. QED
      BY <1>1, <2>5, <3>1, <3>2, TypeKept DEF MarkUser, MarkGlobal, TypeOK, HashInv, Keyed, histVars, clockVars
  <2>6. CASE SetVisibility(w) \/ SetExpiry(w)
    <3>1. held[w] \in Tasks /\ status[held[w]] # "none"
      BY <1>1, <2>1, <2>6, HoldsTask DEF SetVisibility, SetExpiry
    <3>2. ActorsOK'
      BY <1>1, <2>1, <2>6, ActorGoes DEF SetVisibility, SetExpiry, WorkerPoints
    <3>3. key' \in [Tasks -> Key] /\ \A t \in Tasks \ {held[w]} : key'[t] = key[t]
      <4> DEFINE k == key[held[w]]
                 e == [due |-> timeoutAt[w], ttl |-> IF Keyed(held[w]) THEN k.ttl ELSE Forever]
                 f == [k EXCEPT !.ttl = Timeout + 1]
      <4>1. k \in Key /\ key \in [Tasks -> Key] /\ timeoutAt[w] \in 0 .. Timeout + 1
        BY <1>1, <2>1, <3>1 DEF TypeOK
      <4>2. e \in Key /\ f \in Key
        BY <1>2, <4>1 DEF Key, Forever
      <4>3. key' \in {[key EXCEPT ![held[w]] = e], [key EXCEPT ![held[w]] = f], key}
        BY <2>6, <3>1, <4>1 DEF SetVisibility, SetExpiry
      <4> HIDE DEF e, f
      <4>4. QED
        BY <3>1, <4>1, <4>2, <4>3
    <3>4. timeoutAt' \in [Actors -> 0 .. Timeout + 1] /\ now' \in 0 .. MaxTime
      BY <1>1, <1>2, <2>6 DEF SetVisibility, SetExpiry, TypeOK, clockVars
    <3>5. QED
      BY <1>1, <2>6, <3>1, <3>2, <3>3, <3>4, TypeKept DEF SetVisibility, SetExpiry, TypeOK, HashInv, Keyed, histVars, clockVars
  <2>a. CASE ReadClock(w)
    <3>1. ActorsOK'
      BY <1>1, <2>1, <2>a, ActorGoes DEF ReadClock, WorkerPoints, redisVars
    <3>2. timeoutAt' \in [Actors -> 0 .. Timeout + 1]
      <4>1. Timeout + 1 \in 0 .. Timeout + 1
        BY <1>2
      <4>2. timeoutAt' = [timeoutAt EXCEPT ![w] = Timeout + 1] /\ timeoutAt \in [Actors -> 0 .. Timeout + 1]
        BY <1>1, <2>a DEF ReadClock, TypeOK
      <4>3. QED
        BY <4>1, <4>2
    <3>3. QED
      BY <1>1, <2>a, <3>1, <3>2, TypeKept DEF ReadClock, TypeOK, HashInv, Keyed, redisVars, histVars
  <2>7. CASE SetProcessing(w)
    <3>1. held[w] \in Tasks /\ status[held[w]] # "none"
      BY <1>1, <2>1, <2>7, HoldsTask DEF SetProcessing
    <3>2. status' \in [Tasks -> {"none", "queued", "processing"} \cup Finished]
          /\ \A t \in Tasks : status[t] # "none" => status'[t] # "none"
      BY <1>1, <2>7, <3>1 DEF SetProcessing, TypeOK
    <3>3. ActorsOK'
      BY <1>1, <2>1, <2>7, <3>2, ActorGoes DEF SetProcessing, WorkerPoints
    <3>4. QED
      BY <1>1, <2>7, <3>2, <3>3, HashKept DEF SetProcessing, TypeInv, TypeOK, histVars, clockVars
  <2>8. CASE SetOutcome(w)
    <3>1. held[w] \in Tasks /\ status[held[w]] # "none"
      BY <1>1, <2>1, <2>8, HoldsTask DEF SetOutcome
    <3>2. status' \in [Tasks -> {"none", "queued", "processing"} \cup Finished]
          /\ \A t \in Tasks : status[t] # "none" => status'[t] # "none"
      BY <1>1, <2>8, <3>1 DEF SetOutcome, TypeOK, Finished
    <3>3. ActorsOK'
      BY <1>1, <2>1, <2>8, <3>2, ActorLeaves DEF SetOutcome
    <3>4. QED
      BY <1>1, <2>8, <3>2, <3>3, HashKept DEF SetOutcome, TypeInv, TypeOK, histVars, clockVars
  <2>9. QED
    BY <1>8, <2>1, <2>2, <2>3, <2>4, <2>5, <2>6, <2>a, <2>7, <2>8, TypeRelease DEF Work
<1>9. ASSUME NEW c \in Cleaners, Cleanup(c) PROVE TypeInv'
  <2>1. c \in Actors /\ Rest(c) = "scanned" /\ c \notin Workers /\ c \notin Cancellers
    BY RestIs, QueueAssumption
  <2>2. CASE Scan(c)
    <3>1. /\ expired' \in [Cleaners -> SUBSET Tasks]
          /\ \A b \in Cleaners : \A t \in expired'[b] : status[t] # "none"
      <4>1. \A t \in Tasks : Due(t) => status[t] # "none"
        BY <1>1 DEF Due, HashInv
      <4>2. QED
        BY <1>1, <2>2, <4>1 DEF Scan, TypeOK, HashInv
    <3>2. held' = [held EXCEPT ![c] = Nothing]
      BY <1>1, <2>1, <2>2 DEF Scan, ActorsOK
    <3>3. ActorsOK'
      BY <1>1, <2>1, <2>2, <3>2, ActorMoves DEF Scan, Goto, CleanerPoints, redisVars
    <3>4. QED
      BY <1>1, <2>2, <3>1, <3>3, TypeKept DEF Scan, TypeOK, HashInv, Keyed, redisVars, histVars, clockVars
  <2>3. ASSUME NEW t \in Tasks, HandleExpired(c, t) PROVE TypeInv'
    <3>1. /\ status[t] # "none" /\ expired' \in [Cleaners -> SUBSET Tasks]
          /\ \A b \in Cleaners : expired'[b] \subseteq expired[b]
      BY <1>1, <2>3 DEF HandleExpired, TypeOK, HashInv
    <3>2. ActorsOK'
      BY <1>1, <2>1, <2>3, <3>1, ActorMoves DEF HandleExpired, Goto, CleanerPoints, redisVars
    <3>3. QED
      BY <1>1, <2>3, <3>1, <3>2, TypeKept DEF HandleExpired, TypeOK, HashInv, Keyed, redisVars, histVars, clockVars
  <2>4. CASE PushBack(c)
    <3>1. held[c] \in Tasks /\ status[held[c]] # "none"
      BY <1>1, <2>1, <2>4, HoldsTask DEF PushBack
    <3>2. ready' \in Seq(Tasks) /\ \A i \in DOMAIN ready' : status[ready'[i]] # "none"
      BY <1>1, <2>4, <3>1 DEF PushBack, TypeOK, HashInv
    <3>3. ActorsOK'
      BY <1>1, <2>1, <2>4, ActorGoes DEF PushBack, CleanerPoints
    <3>4. QED
      BY <1>1, <2>4, <3>1, <3>2, <3>3, TypeKept DEF PushBack, TypeOK, HashInv, Keyed, clockVars
  <2>5. CASE SetQueued(c)
    <3>1. held[c] \in Tasks /\ status[held[c]] # "none"
      BY <1>1, <2>1, <2>5, HoldsTask DEF SetQueued
    <3>2. status' \in [Tasks -> {"none", "queued", "processing"} \cup Finished]
          /\ \A t \in Tasks : status[t] # "none" => status'[t] # "none"
      BY <1>1, <2>5, <3>1 DEF SetQueued, TypeOK
    <3>3. ActorsOK'
      BY <1>1, <2>1, <2>5, <3>2, ActorLeaves DEF SetQueued
    <3>4. QED
      BY <1>1, <2>5, <3>2, <3>3, HashKept DEF SetQueued, TypeInv, TypeOK, histVars, clockVars
  <2>6. QED
    BY <1>9, <2>1, <2>2, <2>3, <2>4, <2>5, TypeRelease DEF Cleanup
<1>10. ASSUME NEW x \in Cancellers, Cancel(x) PROVE TypeInv'
  <2>1. x \in Actors /\ Rest(x) = "done" /\ x \notin Workers /\ x \notin Cleaners
    BY RestIs, QueueAssumption
  <2>2. ASSUME NEW t \in Tasks, ReadStatus(x, t) PROVE TypeInv'
    <3>1. status[t] # "none" /\ held' = [held EXCEPT ![x] = t] /\ \E p \in {"release", "withdraw", "released"} : Goto(x, p)
      BY <2>2 DEF ReadStatus
    <3>2. UNCHANGED <<client, status, ready, expired, userSet, processing, key, now, timeoutAt, interrupted, interrupts, takenBack, raced, late>>
      BY <2>2 DEF ReadStatus, redisVars, histVars, clockVars
    <3>3. ActorsOK'
      BY <1>1, <2>1, <3>1, <3>2, ActorMoves DEF Goto, CancellerPoints
    <3>4. QED
      BY <1>1, <3>2, <3>3, TypeKept DEF TypeOK, HashInv, Keyed
  <2>3. CASE Withdraw(x)
    <3>1. ready' \in Seq(Tasks) /\ \A n \in DOMAIN ready' : \E i \in DOMAIN ready : ready'[n] = ready[i]
      BY <1>1, <2>3, WithoutPlaces DEF Withdraw, TypeOK, IsPlace
    <3>2. ActorsOK'
      BY <1>1, <2>1, <2>3, ActorGoes DEF Withdraw, CancellerPoints
    <3>3. QED
      BY <1>1, <2>3, <3>1, <3>2, TypeKept DEF Withdraw, TypeOK, HashInv, Keyed, histVars, clockVars
  <2>4. CASE SetCancelled(x)
    <3>1. held[x] \in Tasks /\ status[held[x]] # "none"
      BY <1>1, <2>1, <2>4, HoldsTask DEF SetCancelled
    <3>2. status' \in [Tasks -> {"none", "queued", "processing"} \cup Finished]
          /\ \A t \in Tasks : status[t] # "none" => status'[t] # "none"
      BY <1>1, <2>4, <3>1 DEF SetCancelled, TypeOK, Finished
    <3>3. ActorsOK'
      BY <1>1, <2>1, <2>4, <3>2, ActorLeaves DEF SetCancelled
    <3>4. QED
      BY <1>1, <2>4, <3>2, <3>3, HashKept DEF SetCancelled, TypeInv, TypeOK, histVars, clockVars
  <2>5. QED
    BY <1>10, <2>1, <2>2, <2>3, <2>4, TypeRelease DEF Cancel
<1>11. ASSUME NEW a \in Actors, Interrupt(a) PROVE TypeInv'
  <2>1. held[a] \in Tasks
    BY <1>1, <1>11 DEF Interrupt, ActorsOK
  <2>2. ActorsOK'
    BY <1>1, <1>11, ActorLeaves DEF Interrupt, redisVars
  <2>3. interrupts' \in 0 .. MaxInterrupts
    BY <1>1, <1>11, QueueAssumption DEF Interrupt, TypeOK
  <2>4. timeoutAt' \in [Actors -> 0 .. Timeout + 1]
    BY <1>1, <1>2, <1>11 DEF Interrupt, TypeOK
  <2>5. QED
    BY <1>1, <1>11, <2>1, <2>2, <2>3, <2>4, TypeKept DEF Interrupt, TypeOK, HashInv, Keyed, redisVars
<1>12. ASSUME Tick PROVE TypeInv'
  <2>1. key' \in [Tasks -> Key] /\ \A t \in Tasks : Keyed(t)' => Keyed(t)
    BY <1>1, <1>12, LaterIs DEF Tick, TypeOK, Keyed
  <2>2. now' \in 0 .. MaxTime
    BY <1>1, <1>12, QueueAssumption DEF Tick, TypeOK
  <2>3. ActorsOK'
    BY <1>1, <1>12 DEF Tick, ActorsOK, actorVars, Rest
  <2>4. timeoutAt' \in [Actors -> 0 .. Timeout + 1]
    BY <1>1, <1>2, <1>12 DEF Tick, Less, TypeOK
  <2>5. late' \subseteq Tasks
    <3>1. Timing \subseteq Tasks
      BY <1>1, RestIs, HoldsTask DEF Timing
    <3>2. QED
      BY <1>1, <1>12, <3>1 DEF Tick, TypeOK
  <2>6. QED
    BY <1>1, <1>12, <2>1, <2>2, <2>3, <2>4, <2>5, TypeKept DEF Tick, TypeOK, HashInv, actorVars
<1>13. ASSUME NEW t \in Tasks, KeyExpires(t) PROVE TypeInv'
  <2>1. key' \in [Tasks -> Key] /\ \A u \in Tasks : Keyed(u)' => Keyed(u)
    BY <1>1, <1>2, <1>13 DEF KeyExpires, TypeOK, Keyed
  <2>2. ActorsOK'
    BY <1>1, <1>13 DEF KeyExpires, ActorsOK, actorVars, Rest
  <2>3. QED
    BY <1>1, <1>13, <2>1, <2>2, TypeKept DEF KeyExpires, TypeOK, HashInv, actorVars, histVars, clockVars
<1>14. QED
  BY <1>3, <1>4, <1>5, <1>6, <1>7, <1>8, <1>9, <1>10, <1>11, <1>12, <1>13 DEF Next, Submission

-----------------------------------------------------------------------------
(* No slot, place or key without a worker *)

UserPoints   == {"marked", "counted", "timed", "leased", "expiring", "working"}
GlobalPoints == {"counted", "timed", "leased", "expiring", "working", "unmarked"}
KeyPoints    == {"leased", "expiring", "working", "unmarked", "uncounted"}

(* Process a is a worker that answers for task t at one of the points S *)
Answers(a, t, S) == a \in Workers /\ held[a] = t /\ at[a] \in S

LEMMA NoLeakIs ==
    NoLeak <=> \A t \in Tasks \ interrupted :
                   /\ t \in userSet => \E w \in Workers : Answers(w, t, UserPoints)
                   /\ t \in processing => \E w \in Workers : Answers(w, t, GlobalPoints)
                   /\ Keyed(t) => \E w \in Workers : Answers(w, t, KeyPoints)
BY DEF NoLeak, Holders, Answers, UserPoints, GlobalPoints, KeyPoints

(* Process a steps: what it answered for goes with its step, or it answers *)
(* for it still                                                            *)
LEMMA LeakKept ==
    ASSUME NoLeak, NEW a \in Actors,
           \A b \in Actors \ {a} : at'[b] = at[b] /\ held'[b] = held[b],
           interrupted \subseteq interrupted',
           \A t \in Tasks \ interrupted' :
               /\ t \in userSet' => \/ t \in userSet /\ ~Answers(a, t, UserPoints)
                                    \/ Answers(a, t, UserPoints)'
               /\ t \in processing' => \/ t \in processing /\ ~Answers(a, t, GlobalPoints)
                                       \/ Answers(a, t, GlobalPoints)'
               /\ Keyed(t)' => \/ Keyed(t) /\ ~Answers(a, t, KeyPoints)
                               \/ Answers(a, t, KeyPoints)'
    PROVE  NoLeak'
<1>1. \A w \in Workers \ {a}, t \in Tasks :
          /\ Answers(w, t, UserPoints)' <=> Answers(w, t, UserPoints)
          /\ Answers(w, t, GlobalPoints)' <=> Answers(w, t, GlobalPoints)
          /\ Answers(w, t, KeyPoints)' <=> Answers(w, t, KeyPoints)
  BY DEF Answers, Actors, UserPoints, GlobalPoints, KeyPoints
<1>2. \A t, S : Answers(a, t, S)' => a \in Workers
  BY DEF Answers
<1>3. \A t \in Tasks \ interrupted' :
          /\ t \in userSet' => \E w \in Workers : Answers(w, t, UserPoints)'
          /\ t \in processing' => \E w \in Workers : Answers(w, t, GlobalPoints)'
          /\ Keyed(t)' => \E w \in Workers : Answers(w, t, KeyPoints)'
  BY <1>1, <1>2, NoLeakIs
<1>4. QED
  BY <1>3 DEF NoLeak, Holders, Answers, UserPoints, GlobalPoints, KeyPoints

LEMMA GotoIs ==
    ASSUME ActorsOK, NEW a \in Actors, NEW p, Goto(a, p)
    PROVE  at'[a] = p /\ \A b \in Actors \ {a} : at'[b] = at[b]
BY DEF Goto, ActorsOK

LEMMA LeaveIs ==
    ASSUME ActorsOK, NEW a \in Actors, Leave(a)
    PROVE  /\ at'[a] = Rest(a) /\ held'[a] = Nothing
           /\ \A b \in Actors \ {a} : at'[b] = at[b] /\ held'[b] = held[b]
BY DEF Leave, Goto, ActorsOK

LEMMA NoLeakRelease ==
    ASSUME TypeInv, NoLeak, NEW a \in Actors, Release(a)
    PROVE  NoLeak'
<1>1. ActorsOK /\ key \in [Tasks -> Key] /\ NoKey.ttl = 0
  BY DEF TypeInv, TypeOK, NoKey
<1>2. /\ held' = held /\ interrupted' = interrupted
      /\ \A b \in Actors \ {a} : at'[b] = at[b] /\ held'[b] = held[b]
  BY <1>1, GotoIs DEF Release, UnmarkUser, UnmarkGlobal, ClearVisibility, histVars
<1>3. a \in Workers => at[a] # "release"
  BY <1>1 DEF ActorsOK, WorkerPoints
<1>4. CASE UnmarkUser(a)
  <2>1. at'[a] = "unmarked" /\ at[a] \in {"working", "release"}
    BY <1>1, <1>4, GotoIs DEF UnmarkUser
  <2>2. userSet' = userSet \ {held[a]} /\ UNCHANGED <<processing, key>>
    BY <1>4 DEF UnmarkUser
  <2>3. QED
    BY <1>2, <1>3, <2>1, <2>2, LeakKept DEF Answers, Keyed, UserPoints, GlobalPoints, KeyPoints
<1>5. CASE UnmarkGlobal(a)
  <2>1. at'[a] = "uncounted" /\ at[a] = "unmarked"
    BY <1>1, <1>5, GotoIs DEF UnmarkGlobal
  <2>2. processing' = processing \ {held[a]} /\ UNCHANGED <<userSet, key>>
    BY <1>5 DEF UnmarkGlobal
  <2>3. QED
    BY <1>2, <2>1, <2>2, LeakKept DEF Answers, Keyed, UserPoints, GlobalPoints, KeyPoints
<1>6. CASE ClearVisibility(a)
  <2>1. at'[a] = "released" /\ at[a] = "uncounted"
    BY <1>1, <1>6, GotoIs DEF ClearVisibility
  <2>2. \A t \in Tasks : IF t = held[a] THEN key'[t] = NoKey ELSE key'[t] = key[t]
    BY <1>1, <1>6 DEF ClearVisibility
  <2>3. UNCHANGED <<userSet, processing>>
    BY <1>6 DEF ClearVisibility
  <2>4. \A t \in Tasks : Keyed(t)' => Keyed(t) /\ t # held[a]
    BY <1>1, <2>2 DEF Keyed
  <2>5. QED
    BY <1>2, <2>1, <2>3, <2>4, LeakKept DEF Answers, UserPoints, GlobalPoints, KeyPoints
<1>7. QED
  BY <1>4, <1>5, <1>6 DEF Release

LEMMA NoLeakStep == TypeInv /\ NoLeak /\ [Next]_vars => NoLeak'
<1> SUFFICES ASSUME TypeInv, NoLeak, [Next]_vars PROVE NoLeak'
  OBVIOUS
<1>1. ActorsOK /\ key \in [Tasks -> Key]
  BY DEF TypeInv, TypeOK
<1> USE DEF UserPoints, GlobalPoints, KeyPoints
<1>2. ASSUME UNCHANGED <<userSet, processing, at, held>>, interrupted \subseteq interrupted',
             \A t \in Tasks : Keyed(t)' => Keyed(t)
      PROVE  NoLeak'
  BY <1>2 DEF NoLeak, Holders
<1>3. CASE UNCHANGED vars
  BY <1>2, <1>3 DEF vars, redisVars, actorVars, histVars, Keyed
<1>4. CASE Submission \/ InterruptSubmit
  BY <1>2, <1>4 DEF Submission, InterruptSubmit, CheckLimits, SaveTask, PushTask, redisVars, actorVars, histVars, Keyed
<1>5. ASSUME NEW w \in Workers, Work(w) PROVE NoLeak'
  <2>1. w \in Actors /\ Rest(w) = "idle"
    BY RestIs
  <2>2. CASE Pop(w)
    <3>1. /\ at'[w] = "popped" /\ at[w] = "idle" /\ UNCHANGED <<userSet, processing, key, interrupted>>
          /\ \A b \in Actors \ {w} : at'[b] = at[b] /\ held'[b] = held[b]
      BY <1>1, <2>1, <2>2, GotoIs DEF Pop, histVars, ActorsOK
    <3>2. QED
      BY <2>1, <3>1, LeakKept DEF Answers, Keyed
  <2>3. CASE CheckAgain(w)
    <3>1. /\ at'[w] \in {"admitted", "refused"} /\ at[w] = "popped" /\ held' = held
          /\ UNCHANGED <<userSet, processing, key, interrupted>>
          /\ \A b \in Actors \ {w} : at'[b] = at[b]
      BY <1>1, <2>1, <2>3, GotoIs DEF CheckAgain, redisVars
    <3>2. QED
      BY <2>1, <3>1, LeakKept DEF Answers, Keyed
  <2>4. CASE PutBack(w)
    <3>1. at[w] = "refused" /\ UNCHANGED <<userSet, processing, key, interrupted>>
      BY <2>4 DEF PutBack, histVars
    <3>2. QED
      BY <1>1, <2>1, <2>4, <3>1, LeaveIs, LeakKept DEF PutBack, Answers, Keyed
  <2>5. CASE MarkUser(w)
    <3>1. /\ at'[w] = "marked" /\ at[w] = "admitted" /\ held' = held /\ userSet' = userSet \cup {held[w]}
          /\ UNCHANGED <<processing, key, interrupted>> /\ \A b \in Actors \ {w} : at'[b] = at[b]
      BY <1>1, <2>1, <2>5, GotoIs DEF MarkUser, histVars
    <3>2. QED
      BY <2>1, <3>1, LeakKept DEF Answers, Keyed
  <2>6. CASE MarkGlobal(w)
    <3>1. /\ at'[w] = "counted" /\ at[w] = "marked" /\ held' = held /\ processing' = processing \cup {held[w]}
          /\ UNCHANGED <<userSet, key, interrupted>> /\ \A b \in Actors \ {w} : at'[b] = at[b]
      BY <1>1, <2>1, <2>6, GotoIs DEF MarkGlobal, histVars
    <3>2. QED
      BY <2>1, <3>1, LeakKept DEF Answers, Keyed
  <2>a. CASE ReadClock(w)
    <3>1. /\ at'[w] = "timed" /\ at[w] = "counted" /\ held' = held
          /\ UNCHANGED <<userSet, processing, key, interrupted>> /\ \A b \in Actors \ {w} : at'[b] = at[b]
      BY <1>1, <2>1, <2>a, GotoIs DEF ReadClock, redisVars, histVars
    <3>2. QED
      BY <2>1, <3>1, LeakKept DEF Answers, Keyed, UserPoints, GlobalPoints, KeyPoints
  <2>7. CASE SetVisibility(w) \/ SetExpiry(w)
    <3>1. /\ at'[w] \in {"leased", "expiring"} /\ at[w] \in {"timed", "leased"} /\ held' = held
          /\ UNCHANGED <<userSet, processing, interrupted>> /\ \A b \in Actors \ {w} : at'[b] = at[b]
      BY <1>1, <2>1, <2>7, GotoIs DEF SetVisibility, SetExpiry, histVars
    <3>2. \A t \in Tasks : t # held[w] => key'[t] = key[t]
      BY <1>1, <2>7 DEF SetVisibility, SetExpiry
    <3>3. QED
      BY <2>1, <3>1, <3>2, LeakKept DEF Answers, Keyed
  <2>8. CASE SetProcessing(w)
    <3>1. /\ at'[w] = "working" /\ at[w] = "expiring" /\ held' = held
          /\ UNCHANGED <<userSet, processing, key, interrupted>> /\ \A b \in Actors \ {w} : at'[b] = at[b]
      BY <1>1, <2>1, <2>8, GotoIs DEF SetProcessing, histVars
    <3>2. QED
      BY <2>1, <3>1, LeakKept DEF Answers, Keyed
  <2>9. CASE SetOutcome(w)
    <3>1. at[w] = "released" /\ UNCHANGED <<userSet, processing, key, interrupted>>
      BY <2>9 DEF SetOutcome, histVars
    <3>2. QED
      BY <1>1, <2>1, <2>9, <3>1, LeaveIs, LeakKept DEF SetOutcome, Answers, Keyed
  <2>10. QED
    BY <1>5, <2>1, <2>2, <2>3, <2>4, <2>5, <2>6, <2>a, <2>7, <2>8, <2>9, NoLeakRelease DEF Work
<1>6. ASSUME NEW a \in Actors \ Workers, \A b \in Actors \ {a} : at'[b] = at[b] /\ held'[b] = held[b],
             UNCHANGED <<userSet, processing, key, interrupted>>
      PROVE  NoLeak'
  BY <1>6, LeakKept DEF Answers, Keyed
<1>7. ASSUME NEW c \in Cleaners, Cleanup(c) PROVE NoLeak'
  <2>1. c \in Actors \ Workers
    BY RestIs, QueueAssumption
  <2>2. CASE Scan(c) \/ \E t \in Tasks : HandleExpired(c, t)
    BY <1>1, <1>6, <2>1, <2>2 DEF Scan, HandleExpired, Goto, redisVars, histVars, ActorsOK
  <2>3. CASE PushBack(c) \/ SetQueued(c)
    BY <1>1, <1>6, <2>1, <2>3 DEF PushBack, SetQueued, Leave, Goto, histVars, ActorsOK
  <2>4. QED
    BY <1>7, <2>1, <2>2, <2>3, NoLeakRelease DEF Cleanup
<1>8. ASSUME NEW x \in Cancellers, Cancel(x) PROVE NoLeak'
  <2>1. x \in Actors \ Workers
    BY RestIs, QueueAssumption
  <2>2. CASE Withdraw(x) \/ \E t \in Tasks : ReadStatus(x, t)
    BY <1>1, <1>6, <2>1, <2>2 DEF Withdraw, ReadStatus, Goto, redisVars, histVars, ActorsOK
  <2>3. CASE SetCancelled(x)
    BY <1>1, <1>6, <2>1, <2>3 DEF SetCancelled, Leave, Goto, histVars, ActorsOK
  <2>4. QED
    BY <1>8, <2>1, <2>2, <2>3, NoLeakRelease DEF Cancel
<1>9. ASSUME NEW a \in Actors, Interrupt(a) PROVE NoLeak'
  <2>1. interrupted' = interrupted \cup {held[a]} /\ UNCHANGED <<userSet, processing, key>>
    BY <1>9 DEF Interrupt, redisVars
  <2>2. QED
    BY <1>1, <1>9, <2>1, LeaveIs, LeakKept DEF Interrupt, Answers, Keyed
<1>10. CASE Tick
  <2>1. \A t \in Tasks : Keyed(t)' => Keyed(t)
    BY <1>1, <1>10, LaterIs DEF Tick, Keyed
  <2>2. QED
    BY <1>2, <1>10, <2>1 DEF Tick, actorVars
<1>11. ASSUME NEW t \in Tasks, KeyExpires(t) PROVE NoLeak'
  <2>1. \A u \in Tasks : Keyed(u)' => Keyed(u)
    BY <1>1, <1>11 DEF KeyExpires, Keyed, NoKey
  <2>2. QED
    BY <1>2, <1>11, <2>1 DEF KeyExpires, actorVars, histVars
<1>12. QED
  BY <1>3, <1>4, <1>5, <1>7, <1>8, <1>9, <1>10, <1>11 DEF Next

-----------------------------------------------------------------------------
(* The limit of a user *)

LEMMA SlotsFinite ==
    ASSUME TypeInv, NEW u
    PROVE  IsFiniteSet(UserSlots(u)) /\ Cardinality(UserSlots(u)) \in Nat
<1>1. UserSlots(u) \subseteq Tasks /\ IsFiniteSet(Tasks)
  BY QueueAssumption DEF UserSlots, TypeInv, TypeOK
<1>2. QED
  BY <1>1, FS_Subset, FS_CardinalityType

(* Nobody is admitted and no slot is taken *)
LEMMA SlotKept ==
    ASSUME TypeInv, SlotInv, raced \subseteq raced', userSet' \subseteq userSet,
           \A w \in Workers : at'[w] = "admitted" => at[w] = "admitted" /\ held'[w] = held[w]
    PROVE  SlotInv'
<1> SUFFICES ASSUME NEW u \in Users \ raced'
             PROVE  /\ \A v, w \in Admitted(u)' : v = w
                    /\ Admitted(u)' # {} => Cardinality(UserSlots(u)') < UserLimit
                    /\ Cardinality(UserSlots(u)') <= UserLimit
  BY DEF SlotInv
<1>1. Admitted(u)' \subseteq Admitted(u) /\ UserSlots(u)' \subseteq UserSlots(u)
  BY DEF Admitted, UserSlots
<1>2. Cardinality(UserSlots(u)') \in Nat /\ Cardinality(UserSlots(u)') <= Cardinality(UserSlots(u))
  BY <1>1, SlotsFinite, FS_Subset, FS_CardinalityType
<1>3. UserLimit \in Nat
  BY QueueAssumption
<1>4. QED
  BY <1>1, <1>2, <1>3, SlotsFinite DEF SlotInv

LEMMA SlotCheck ==
    ASSUME TypeInv, SlotInv, NEW w \in Workers, CheckAgain(w)
    PROVE  SlotInv'
<1> DEFINE o == Owner(held[w])
<1>1. /\ ActorsOK /\ w \in Actors /\ held' = held /\ at[w] = "popped"
      /\ \A b \in Workers \ {w} : at'[b] = at[b]
  BY RestIs, GotoIs DEF CheckAgain, TypeInv, TypeOK, Actors
<1>2. userSet' = userSet
  BY DEF CheckAgain, redisVars
<1>3. CASE check_user_concurrent_limit(o)
  <2>1. at'[w] = "admitted" /\ raced' = IF Admitted(o) = {} THEN raced ELSE raced \cup {o}
    BY <1>1, <1>3, GotoIs DEF CheckAgain
  <2>2. Cardinality(UserSlots(o)) < UserLimit
    BY <1>3 DEF check_user_concurrent_limit, UserSlots
  <2>3. ASSUME NEW u \in Users \ raced'
        PROVE  /\ \A v, x \in Admitted(u)' : v = x
               /\ Admitted(u)' # {} => Cardinality(UserSlots(u)') < UserLimit
               /\ Cardinality(UserSlots(u)') <= UserLimit
    <3>1. UserSlots(u)' = UserSlots(u)
      BY <1>2 DEF UserSlots
    <3>2. CASE u = o
      <4>1. u \notin raced /\ Admitted(u) = {}
        BY <2>1, <2>3, <3>2
      <4>2. Admitted(u)' \subseteq {w}
        BY <1>1, <4>1 DEF Admitted
      <4>3. QED
        BY <2>2, <3>1, <3>2, <4>1, <4>2 DEF SlotInv
    <3>3. CASE u # o
      <4>1. Admitted(u)' = Admitted(u) /\ u \notin raced
        BY <1>1, <2>1, <2>3, <3>3 DEF Admitted
      <4>2. QED
        BY <3>1, <4>1 DEF SlotInv
    <3>4. QED
      BY <3>2, <3>3
  <2>4. QED
    BY <2>3 DEF SlotInv
<1>4. CASE ~check_user_concurrent_limit(o)
  <2>1. at'[w] = "refused" /\ raced' = raced
    BY <1>1, <1>4, GotoIs DEF CheckAgain
  <2>2. QED
    BY <1>1, <1>2, <2>1, SlotKept
<1>5. QED
  BY <1>3, <1>4

LEMMA SlotMark ==
    ASSUME TypeInv, SlotInv, NEW w \in Workers, MarkUser(w)
    PROVE  SlotInv'
<1>1. /\ ActorsOK /\ w \in Actors /\ held' = held /\ at[w] = "admitted" /\ at'[w] = "marked"
      /\ \A b \in Workers \ {w} : at'[b] = at[b]
  BY RestIs, GotoIs DEF MarkUser, TypeInv, TypeOK, Actors
<1>2. userSet' = userSet \cup {held[w]} /\ raced' = raced
  BY DEF MarkUser, histVars
<1> SUFFICES ASSUME NEW u \in Users \ raced
             PROVE  /\ \A v, x \in Admitted(u)' : v = x
                    /\ Admitted(u)' # {} => Cardinality(UserSlots(u)') < UserLimit
                    /\ Cardinality(UserSlots(u)') <= UserLimit
  BY <1>2 DEF SlotInv
<1>3. CASE u = Owner(held[w])
  <2>1. w \in Admitted(u) /\ Cardinality(UserSlots(u)) < UserLimit
    BY <1>1, <1>3 DEF SlotInv, Admitted
  <2>2. Admitted(u)' = {}
    BY <1>1, <2>1 DEF SlotInv, Admitted
  <2>3. UserSlots(u)' = UserSlots(u) \cup {held[w]}
    BY <1>2, <1>3 DEF UserSlots
  <2>4. Cardinality(UserSlots(u) \cup {held[w]}) <= Cardinality(UserSlots(u)) + 1
    <3>1. Cardinality(UserSlots(u) \cup {held[w]}) \in {Cardinality(UserSlots(u)), Cardinality(UserSlots(u)) + 1}
      BY SlotsFinite, FS_AddElement
    <3>2. QED
      BY <3>1, SlotsFinite
  <2>5. Cardinality(UserSlots(u) \cup {held[w]}) \in Nat /\ UserLimit \in Nat
    BY SlotsFinite, FS_AddElement, FS_CardinalityType, QueueAssumption
  <2>6. QED
    BY <2>1, <2>2, <2>3, <2>4, <2>5, SlotsFinite
<1>4. CASE u # Owner(held[w])
  <2>1. Admitted(u)' = Admitted(u) /\ UserSlots(u)' = UserSlots(u)
    BY <1>1, <1>2, <1>4 DEF Admitted, UserSlots
  <2>2. QED
    BY <2>1 DEF SlotInv
<1>5. QED
  BY <1>3, <1>4

LEMMA SlotStep == TypeInv /\ SlotInv /\ [Next]_vars => SlotInv'
<1> SUFFICES ASSUME TypeInv, SlotInv, [Next]_vars PROVE SlotInv'
  OBVIOUS
<1>1. ActorsOK
  BY DEF TypeInv, TypeOK
<1>2. ASSUME UNCHANGED <<userSet, at, held, raced>> PROVE SlotInv'
  BY <1>2, SlotKept
<1>3. CASE UNCHANGED vars
  BY <1>2, <1>3 DEF vars, redisVars, actorVars, histVars
<1>4. CASE Submission \/ InterruptSubmit \/ Tick \/ \E t \in Tasks : KeyExpires(t)
  BY <1>2, <1>4 DEF Submission, InterruptSubmit, CheckLimits, SaveTask, PushTask, Tick, KeyExpires,
                    redisVars, actorVars, histVars
<1>5. ASSUME NEW a \in Actors, \A b \in Actors \ {a} : at'[b] = at[b] /\ held'[b] = held[b],
             at'[a] # "admitted", userSet' \subseteq userSet, raced' = raced
      PROVE  SlotInv'
  BY <1>5, SlotKept DEF Actors
<1>6. ASSUME NEW a \in Actors, Release(a) PROVE SlotInv'
  <2>1. /\ at'[a] \in {"unmarked", "uncounted", "released"} /\ held' = held
        /\ \A b \in Actors \ {a} : at'[b] = at[b]
    BY <1>1, <1>6, GotoIs DEF Release, UnmarkUser, UnmarkGlobal, ClearVisibility
  <2>2. userSet' \subseteq userSet /\ raced' = raced
    BY <1>6 DEF Release, UnmarkUser, UnmarkGlobal, ClearVisibility, histVars
  <2>3. QED
    BY <1>5, <2>1, <2>2
<1>7. ASSUME NEW a \in Actors, Leave(a), userSet' = userSet, raced' = raced PROVE SlotInv'
  <2>1. Rest(a) # "admitted"
    BY RestIs DEF Actors
  <2>2. QED
    BY <1>1, <1>5, <1>7, <2>1, LeaveIs
<1>8. ASSUME NEW w \in Workers, Work(w) PROVE SlotInv'
  <2>1. w \in Actors
    BY RestIs
  <2>2. CASE Pop(w)
    BY <1>1, <1>5, <2>1, <2>2 DEF Pop, Goto, histVars, ActorsOK
  <2>3. CASE PutBack(w) \/ SetOutcome(w)
    BY <1>7, <2>1, <2>3 DEF PutBack, SetOutcome, histVars
  <2>4. CASE MarkGlobal(w) \/ ReadClock(w) \/ SetVisibility(w) \/ SetExpiry(w) \/ SetProcessing(w)
    <3>1. /\ at'[w] \in {"counted", "timed", "leased", "expiring", "working"} /\ held' = held
          /\ \A b \in Actors \ {w} : at'[b] = at[b]
      BY <1>1, <2>1, <2>4, GotoIs DEF MarkGlobal, ReadClock, SetVisibility, SetExpiry, SetProcessing
    <3>2. userSet' = userSet /\ raced' = raced
      BY <2>4 DEF MarkGlobal, ReadClock, SetVisibility, SetExpiry, SetProcessing, redisVars, histVars
    <3>3. QED
      BY <1>5, <2>1, <3>1, <3>2
  <2>5. QED
    BY <1>6, <1>8, <2>1, <2>2, <2>3, <2>4, SlotCheck, SlotMark DEF Work
<1>9. ASSUME NEW c \in Cleaners, Cleanup(c) PROVE SlotInv'
  <2>1. c \in Actors
    BY RestIs
  <2>2. CASE Scan(c) \/ \E t \in Tasks : HandleExpired(c, t)
    BY <1>1, <1>5, <2>1, <2>2 DEF Scan, HandleExpired, Goto, redisVars, histVars, ActorsOK
  <2>3. CASE PushBack(c)
    BY <1>1, <1>5, <2>1, <2>3 DEF PushBack, Goto, histVars, ActorsOK
  <2>4. CASE SetQueued(c)
    BY <1>7, <2>1, <2>4 DEF SetQueued, histVars
  <2>5. QED
    BY <1>6, <1>9, <2>1, <2>2, <2>3, <2>4 DEF Cleanup
<1>10. ASSUME NEW x \in Cancellers, Cancel(x) PROVE SlotInv'
  <2>1. x \in Actors
    BY RestIs
  <2>2. CASE Withdraw(x) \/ \E t \in Tasks : ReadStatus(x, t)
    <3>1. /\ at'[x] # "admitted" /\ \A b \in Actors \ {x} : at'[b] = at[b] /\ held'[b] = held[b]
      BY <1>1, <2>1, <2>2 DEF Withdraw, ReadStatus, Goto, ActorsOK
    <3>2. QED
      BY <1>5, <2>1, <2>2, <3>1 DEF Withdraw, ReadStatus, redisVars, histVars
  <2>3. CASE SetCancelled(x)
    BY <1>7, <2>1, <2>3 DEF SetCancelled, histVars
  <2>4. QED
    BY <1>6, <1>10, <2>1, <2>2, <2>3 DEF Cancel
<1>11. ASSUME NEW a \in Actors, Interrupt(a) PROVE SlotInv'
  BY <1>7, <1>11 DEF Interrupt, redisVars
<1>12. QED
  BY <1>3, <1>4, <1>8, <1>9, <1>10, <1>11 DEF Next

-----------------------------------------------------------------------------
(* One copy of a task *)

LEMMA SingleKept ==
    ASSUME SingleInv, takenBack \subseteq takenBack', client'.left = client.left, ready' = ready,
           \A w \in Workers : held'[w] \in {held[w], Nothing}
    PROVE  SingleInv'
BY QueueAssumption DEF SingleInv, Single

LEMMA SinglePush ==
    ASSUME TypeInv, SingleInv, PushTask
    PROVE  SingleInv'
<1> DEFINE h == Head(client.left)
<1>1. client.left \in Seq(Tasks) /\ client.left # <<>> /\ ready \in Seq(Tasks)
  BY DEF TypeInv, TypeOK, HashInv, PushTask
<1>2. /\ h = client.left[1] /\ 1 \in DOMAIN client.left
      /\ \A k \in DOMAIN Tail(client.left) : k + 1 \in DOMAIN client.left /\ Tail(client.left)[k] = client.left[k + 1] /\ k \in Nat /\ k > 0
  BY <1>1
<1>3. client'.left = Tail(client.left) /\ ready' = Append(ready, h) /\ UNCHANGED <<held, takenBack>>
  BY DEF PushTask, actorVars, histVars
<1>4. /\ DOMAIN ready' = 1 .. Len(ready) + 1 /\ DOMAIN ready = 1 .. Len(ready) /\ Len(ready) \in Nat
      /\ ready'[Len(ready) + 1] = h /\ \A i \in 1 .. Len(ready) : ready'[i] = ready[i]
  BY <1>1, <1>2, <1>3
<1>5. \A k \in DOMAIN Tail(client.left) : Tail(client.left)[k] # h
  BY <1>2 DEF SingleInv
<1>6. \A i, j \in DOMAIN Tail(client.left) : Tail(client.left)[i] = Tail(client.left)[j] => i = j
  BY <1>2 DEF SingleInv
<1>7. ASSUME NEW t \in Tasks \ takenBack PROVE Single(t)'
  <2>1. Single(t)
    BY DEF SingleInv
  <2>2. CASE t = h
    <3>1. (\A w \in Workers : held[w] # t) /\ (\A i \in DOMAIN ready : ready[i] # t)
      BY <1>2, <2>1, <2>2 DEF Single
    <3> HIDE DEF h
    <3>2. \A i \in DOMAIN ready' : ready'[i] = t => i = Len(ready) + 1
      BY <1>4, <3>1
    <3>3. QED
      BY <1>3, <1>5, <2>2, <3>1, <3>2 DEF Single
  <2>3. CASE t # h
    <3> HIDE DEF h
    <3>1. \A i \in DOMAIN ready' : ready'[i] = t => i \in DOMAIN ready /\ ready[i] = t
      BY <1>4, <2>3
    <3>2. QED
      BY <1>2, <1>3, <2>1, <3>1 DEF Single
  <2>4. QED
    BY <2>2, <2>3
<1>8. QED
  BY <1>3, <1>6, <1>7 DEF SingleInv

LEMMA SinglePop ==
    ASSUME TypeInv, SingleInv, NEW w \in Workers, Pop(w)
    PROVE  SingleInv'
<1>1. /\ ready \in Seq(Tasks) /\ ready # <<>> /\ UNCHANGED <<client, takenBack>> /\ ready' = Tail(ready)
      /\ held'[w] = Head(ready) /\ \A v \in Workers \ {w} : held'[v] = held[v]
  BY DEF TypeInv, TypeOK, ActorsOK, Actors, Pop, histVars
<1>2. /\ 1 \in DOMAIN ready /\ Head(ready) = ready[1]
      /\ \A i \in DOMAIN ready' : i \in Nat /\ i > 0 /\ i + 1 \in DOMAIN ready /\ ready'[i] = ready[i + 1]
  BY <1>1
<1>3. ASSUME NEW t \in Tasks \ takenBack PROVE Single(t)'
  <2>1. Single(t)
    BY DEF SingleInv
  <2>2. \A i, j \in DOMAIN ready' : ready'[i] = t /\ ready'[j] = t => i = j
    BY <1>2, <2>1 DEF Single
  <2>3. \A k \in DOMAIN client.left : client.left[k] = t => \A i \in DOMAIN ready' : ready'[i] # t
    BY <1>2, <2>1 DEF Single
  <2>4. CASE t = Head(ready)
    <3>1. \A v \in Workers : held'[v] = t => v = w
      BY <1>1, <1>2, <2>1, <2>4 DEF Single
    <3>2. \A i \in DOMAIN ready' : ready'[i] # t
      BY <1>2, <2>1, <2>4 DEF Single
    <3>3. \A k \in DOMAIN client.left : client.left[k] # t
      BY <1>2, <2>1, <2>4 DEF Single
    <3>4. QED
      BY <1>1, <3>1, <3>2, <3>3 DEF Single
  <2>5. CASE t # Head(ready)
    <3>1. \A v \in Workers : held'[v] = t => held[v] = t
      BY <1>1, <2>5
    <3>2. \A i \in DOMAIN ready' : ready'[i] = t => \E j \in DOMAIN ready : ready[j] = t
      BY <1>2
    <3>3. QED
      BY <1>1, <2>1, <2>2, <2>3, <3>1, <3>2 DEF Single
  <2>6. QED
    BY <2>4, <2>5
<1>4. QED
  BY <1>1, <1>3 DEF SingleInv

(* A worker puts its task back into the list, or a cleaner one that then   *)
(* counts as taken back                                                    *)
LEMMA SingleBack ==
    ASSUME TypeInv, SingleInv, NEW a \in Actors, ready' = Append(ready, held[a]), held[a] \in Tasks,
           client' = client, takenBack \subseteq takenBack',
           \A w \in Workers : held'[w] \in {held[w], Nothing},
           (a \in Workers /\ held'[a] = Nothing) \/ held[a] \in takenBack'
    PROVE  SingleInv'
<1>1. ready \in Seq(Tasks)
  BY DEF TypeInv, TypeOK
<1>2. /\ DOMAIN ready' = 1 .. Len(ready) + 1 /\ DOMAIN ready = 1 .. Len(ready) /\ Len(ready) \in Nat
      /\ ready'[Len(ready) + 1] = held[a] /\ \A i \in 1 .. Len(ready) : ready'[i] = ready[i]
  BY <1>1
<1>3. ASSUME NEW t \in Tasks \ takenBack' PROVE Single(t)'
  <2>1. Single(t) /\ t # Nothing /\ \A w \in Workers : held'[w] = t => held[w] = t
    BY QueueAssumption DEF SingleInv
  <2>2. CASE t = held[a]
    <3>1. a \in Workers /\ held'[a] = Nothing
      BY <2>2
    <3>2. \A w \in Workers : held'[w] # t
      BY <2>1, <2>2, <3>1 DEF Single
    <3>3. \A i \in DOMAIN ready : ready[i] # t
      BY <2>1, <2>2, <3>1 DEF Single
    <3>4. \A k \in DOMAIN client.left : client.left[k] # t
      BY <2>1, <2>2, <3>1 DEF Single
    <3>5. \A i \in DOMAIN ready' : ready'[i] = t => i = Len(ready) + 1
      BY <1>2, <3>3
    <3>6. QED
      BY <3>2, <3>4, <3>5 DEF Single
  <2>3. CASE t # held[a]
    <3>1. \A i \in DOMAIN ready' : ready'[i] = t => i \in DOMAIN ready /\ ready[i] = t
      BY <1>2, <2>3
    <3>2. QED
      BY <2>1, <3>1 DEF Single
  <2>4. QED
    BY <2>2, <2>3
<1>4. QED
  BY <1>3 DEF SingleInv

LEMMA SingleWithdraw ==
    ASSUME TypeInv, SingleInv, NEW x \in Cancellers, Withdraw(x)
    PROVE  SingleInv'
<1>1. ready \in Seq(Tasks) /\ ready' = Without(ready, held[x]) /\ UNCHANGED <<client, held, takenBack>>
  BY DEF TypeInv, TypeOK, Withdraw, histVars
<1>2. PICK place : IsPlace(place, ready, held[x])
  BY <1>1, WithoutPlaces
<1>3. \A n \in DOMAIN ready' : place[n] \in DOMAIN ready /\ ready'[n] = ready[place[n]]
  BY <1>1, <1>2 DEF IsPlace
<1>4. \A m, n \in DOMAIN ready' : place[m] = place[n] => m = n
  BY <1>1, <1>2 DEF IsPlace
<1>5. ASSUME NEW t \in Tasks \ takenBack PROVE Single(t)'
  <2>1. Single(t)
    BY DEF SingleInv
  <2>2. QED
    BY <1>1, <1>3, <1>4, <2>1 DEF Single
<1>6. QED
  BY <1>1, <1>5 DEF SingleInv

LEMMA SingleStep == TypeInv /\ SingleInv /\ [Next]_vars => SingleInv'
<1> SUFFICES ASSUME TypeInv, SingleInv, [Next]_vars PROVE SingleInv'
  OBVIOUS
<1>1. ActorsOK
  BY DEF TypeInv, TypeOK
<1>2. CASE UNCHANGED vars
  BY <1>2, SingleKept DEF vars, redisVars, actorVars, histVars
<1>3. CASE CheckLimits \/ SaveTask \/ InterruptSubmit
  <2>1. client'.left = client.left
    BY <1>3 DEF CheckLimits, SaveTask, InterruptSubmit, Submit, TypeInv, TypeOK
  <2>2. QED
    BY <1>3, <2>1, SingleKept DEF CheckLimits, SaveTask, InterruptSubmit, redisVars, actorVars, histVars
<1>4. CASE Tick \/ \E t \in Tasks : KeyExpires(t)
  BY <1>4, SingleKept DEF Tick, KeyExpires, actorVars, histVars
<1>5. ASSUME NEW a \in Actors, Leave(a), UNCHANGED <<client, ready, takenBack>> PROVE SingleInv'
  BY <1>1, <1>5, LeaveIs, SingleKept DEF Actors
<1>6. ASSUME NEW a \in Actors, Release(a) PROVE SingleInv'
  BY <1>6, SingleKept DEF Release, UnmarkUser, UnmarkGlobal, ClearVisibility, histVars
<1>7. ASSUME NEW w \in Workers, Work(w) PROVE SingleInv'
  <2>1. w \in Actors
    BY RestIs
  <2>2. CASE PutBack(w)
    <3>1. held[w] \in Tasks
      BY <1>1, <2>1, <2>2, HoldsTask DEF PutBack
    <3>2. held'[w] = Nothing /\ \A v \in Workers \ {w} : held'[v] = held[v]
      BY <1>1, <2>1, <2>2, LeaveIs DEF PutBack, Actors
    <3>3. QED
      BY <2>1, <2>2, <3>1, <3>2, SingleBack DEF PutBack, histVars
  <2>3. CASE CheckAgain(w) \/ MarkUser(w) \/ MarkGlobal(w) \/ ReadClock(w) \/ SetVisibility(w) \/ SetExpiry(w) \/ SetProcessing(w)
    BY <2>3, SingleKept DEF CheckAgain, MarkUser, MarkGlobal, ReadClock, SetVisibility, SetExpiry, SetProcessing, redisVars, histVars
  <2>4. CASE SetOutcome(w)
    BY <1>5, <2>1, <2>4 DEF SetOutcome, histVars
  <2>5. QED
    BY <1>6, <1>7, <2>1, <2>2, <2>3, <2>4, SinglePop DEF Work
<1>8. ASSUME NEW c \in Cleaners, Cleanup(c) PROVE SingleInv'
  <2>1. c \in Actors /\ c \notin Workers
    BY RestIs, QueueAssumption
  <2>2. CASE Scan(c) \/ \E t \in Tasks : HandleExpired(c, t)
    <3>1. \A w \in Workers : held'[w] = held[w]
      BY <1>1, <2>1, <2>2 DEF Scan, HandleExpired, ActorsOK, Actors
    <3>2. QED
      BY <2>2, <3>1, SingleKept DEF Scan, HandleExpired, redisVars, histVars
  <2>3. CASE PushBack(c)
    <3>1. held[c] \in Tasks
      BY <1>1, <2>1, <2>3, HoldsTask DEF PushBack
    <3>2. QED
      BY <2>1, <2>3, <3>1, SingleBack DEF PushBack
  <2>4. CASE SetQueued(c)
    BY <1>5, <2>1, <2>4 DEF SetQueued, histVars
  <2>5. QED
    BY <1>6, <1>8, <2>1, <2>2, <2>3, <2>4 DEF Cleanup
<1>9. ASSUME NEW x \in Cancellers, Cancel(x) PROVE SingleInv'
  <2>1. x \in Actors /\ x \notin Workers
    BY RestIs, QueueAssumption
  <2>2. ASSUME NEW t \in Tasks, ReadStatus(x, t) PROVE SingleInv'
    <3>1. \A w \in Workers : held'[w] = held[w]
      BY <1>1, <2>1, <2>2 DEF ReadStatus, ActorsOK, Actors
    <3>2. QED
      BY <2>2, <3>1, SingleKept DEF ReadStatus, redisVars, histVars
  <2>3. CASE SetCancelled(x)
    BY <1>5, <2>1, <2>3 DEF SetCancelled, histVars
  <2>4. QED
    BY <1>6, <1>9, <2>1, <2>2, <2>3, SingleWithdraw DEF Cancel
<1>10. ASSUME NEW a \in Actors, Interrupt(a) PROVE SingleInv'
  BY <1>5, <1>10 DEF Interrupt, redisVars
<1>11. QED
  BY <1>2, <1>3, <1>4, <1>7, <1>8, <1>9, <1>10, SinglePush DEF Next, Submission

-----------------------------------------------------------------------------
(* Leases *)

(* A worker that has not set the key of its task, or has cleared it, holds *)
(* a task without a key                                                    *)
LEMMA NoLease ==
    ASSUME TypeInv, LeaseInv, NEW w \in Workers, held[w] \in Tasks, at[w] \notin KeyPoints
    PROVE  held[w] \in late \/ ~Keyed(held[w])
BY DEF LeaseInv, OnTime, KeyPoints

(* Keys stay as they are or go; what is new in the list, with a worker or  *)
(* with a cleaner was late or has no key                                   *)
LEMMA LeaseKept ==
    ASSUME TypeInv, LeaseInv, late' = late, takenBack' \subseteq takenBack \cup late,
           \A t \in Tasks : key'[t] \in {key[t], NoKey},
           \A c \in Cleaners : held'[c] \in {held[c], Nothing} \cup late /\ expired'[c] \subseteq expired[c] \cup late,
           \A k \in DOMAIN client'.left : \E j \in DOMAIN client.left : client'.left[k] = client.left[j],
           \A i \in DOMAIN ready' : \/ \E j \in DOMAIN ready : ready'[i] = ready[j]
                                    \/ ready'[i] \in late \/ ~Keyed(ready'[i]),
           \A w \in Workers : \/ held'[w] = Nothing \/ held'[w] \in late \/ ~Keyed(held'[w])
                              \/ held'[w] = held[w] /\ (at'[w] = at[w] \/ at'[w] \in KeyPoints \ {"leased"})
    PROVE  LeaseInv'
<1> SUFFICES ASSUME NEW t \in Tasks \ late PROVE OnTime(t)'
  BY DEF LeaseInv
<1>1. OnTime(t) /\ t # Nothing
  BY QueueAssumption DEF LeaseInv
<1>2. t \notin takenBack' /\ \A c \in Cleaners : held'[c] # t /\ t \notin expired'[c]
  BY <1>1 DEF OnTime
<1>3. ASSUME Keyed(t)'
      PROVE  /\ \A i \in DOMAIN ready' : ready'[i] # t
             /\ \A k \in DOMAIN client'.left : client'.left[k] # t
             /\ \A w \in Workers :
                    held'[w] = t => at'[w] \in KeyPoints
             /\ \A w \in Workers : held'[w] = t /\ at'[w] = "leased" => key'[t].ttl = Forever
             /\ IF key'[t].ttl = Forever THEN key'[t].due = Timeout + 1 ELSE key'[t].ttl <= key'[t].due
  <2>1. key'[t] = key[t] /\ Keyed(t)
    BY <1>3 DEF Keyed, NoKey
  <2>2. \A i \in DOMAIN ready' : ready'[i] # t
    BY <1>1, <2>1 DEF OnTime
  <2>3. \A k \in DOMAIN client'.left : client'.left[k] # t
    BY <1>1, <2>1 DEF OnTime
  <2>4. ASSUME NEW w \in Workers, held'[w] = t
        PROVE  at'[w] \in KeyPoints /\ (at'[w] = "leased" => key'[t].ttl = Forever)
    <3>1. held[w] = t /\ (at'[w] = at[w] \/ at'[w] \in KeyPoints \ {"leased"})
      BY <1>1, <2>1, <2>4
    <3>2. QED
      BY <1>1, <2>1, <3>1 DEF OnTime, KeyPoints
  <2>5. QED
    BY <1>1, <2>1, <2>2, <2>3, <2>4 DEF OnTime
<1>4. QED
  BY <1>2, <1>3 DEF OnTime, KeyPoints

(* A worker comes to write timeout_at only by reading the clock *)
LEMMA ClockStep == TypeInv /\ ClockInv /\ [Next]_vars => ClockInv'
<1> SUFFICES ASSUME TypeInv, ClockInv, [Next]_vars PROVE ClockInv'
  OBVIOUS
<1>1. ActorsOK /\ timeoutAt \in [Actors -> 0 .. Timeout + 1]
  BY DEF TypeInv, TypeOK
<1>2. ASSUME late' = late, \A w \in Workers :
             at'[w] = "timed" => at[w] = "timed" /\ held'[w] = held[w] /\ timeoutAt'[w] = timeoutAt[w]
      PROVE  ClockInv'
  BY <1>2 DEF ClockInv
<1>3. ASSUME UNCHANGED <<at, held, timeoutAt, late>> PROVE ClockInv'
  BY <1>2, <1>3
<1>4. ASSUME NEW a \in Actors, NEW p, p # "timed", Goto(a, p), UNCHANGED <<timeoutAt, late>>,
             \A b \in Actors \ {a} : held'[b] = held[b]
      PROVE  ClockInv'
  <2>1. at'[a] = p /\ \A b \in Actors \ {a} : at'[b] = at[b]
    BY <1>1, <1>4, GotoIs
  <2>2. QED
    BY <1>2, <1>4, <2>1 DEF Actors
<1>5. ASSUME NEW a \in Actors, Leave(a), late' = late, \A b \in Actors \ {a} : timeoutAt'[b] = timeoutAt[b]
      PROVE  ClockInv'
  <2>1. Rest(a) # "timed"
    BY RestIs DEF Actors
  <2>2. at'[a] # "timed" /\ \A b \in Actors \ {a} : at'[b] = at[b] /\ held'[b] = held[b]
    BY <1>1, <1>5, <2>1, LeaveIs
  <2>3. QED
    BY <1>2, <1>5, <2>2 DEF Actors
<1>6. ASSUME NEW a \in Actors, Release(a) PROVE ClockInv'
  <2>1. /\ UNCHANGED <<held, timeoutAt, late>>
        /\ Goto(a, "unmarked") \/ Goto(a, "uncounted") \/ Goto(a, "released")
    BY <1>6 DEF Release, UnmarkUser, UnmarkGlobal, ClearVisibility, clockVars, histVars
  <2>2. QED
    BY <1>4, <2>1
<1>7. ASSUME NEW w \in Workers, Work(w) PROVE ClockInv'
  <2>1. w \in Actors
    BY RestIs
  <2>2. CASE Pop(w)
    BY <1>1, <1>4, <2>1, <2>2 DEF Pop, clockVars, histVars, ActorsOK
  <2>3. CASE PutBack(w) \/ SetOutcome(w)
    BY <1>5, <2>1, <2>3 DEF PutBack, SetOutcome, clockVars, histVars
  <2>4. CASE CheckAgain(w) \/ MarkUser(w) \/ MarkGlobal(w) \/ SetExpiry(w) \/ SetProcessing(w)
    <3>1. /\ UNCHANGED <<held, timeoutAt, late>>
          /\ \E p \in {"admitted", "refused", "marked", "counted", "expiring", "working"} : Goto(w, p)
      BY <2>4 DEF CheckAgain, MarkUser, MarkGlobal, SetExpiry, SetProcessing, clockVars, histVars
    <3>2. QED
      BY <1>4, <2>1, <3>1
  <2>5. CASE ReadClock(w)
    <3>1. /\ late' = late /\ held' = held /\ timeoutAt'[w] = Timeout + 1
          /\ \A b \in Actors \ {w} : at'[b] = at[b] /\ timeoutAt'[b] = timeoutAt[b]
      BY <1>1, <2>1, <2>5, GotoIs DEF ReadClock, histVars
    <3>2. QED
      BY <3>1 DEF ClockInv, Actors
  <2>6. CASE SetVisibility(w)
    <3>1. /\ late' = late /\ held' = held /\ at'[w] = "leased"
          /\ \A b \in Actors \ {w} : at'[b] = at[b] /\ timeoutAt'[b] = timeoutAt[b]
      BY <1>1, <2>1, <2>6, GotoIs DEF SetVisibility, histVars
    <3>2. QED
      BY <1>2, <3>1 DEF Actors
  <2>7. QED
    BY <1>6, <1>7, <2>1, <2>2, <2>3, <2>4, <2>5, <2>6 DEF Work
<1>8. ASSUME NEW c \in Cleaners, Cleanup(c) PROVE ClockInv'
  <2>1. c \in Actors
    BY RestIs
  <2>2. CASE Scan(c) \/ (\E t \in Tasks : HandleExpired(c, t)) \/ PushBack(c)
    <3>1. /\ UNCHANGED <<timeoutAt, late>> /\ \A b \in Actors \ {c} : held'[b] = held[b]
          /\ \E p \in {"scanned", "release", "pushed"} : Goto(c, p)
      BY <1>1, <2>1, <2>2 DEF Scan, HandleExpired, PushBack, clockVars, histVars, ActorsOK
    <3>2. QED
      BY <1>4, <2>1, <3>1
  <2>3. CASE SetQueued(c)
    BY <1>5, <2>1, <2>3 DEF SetQueued, clockVars, histVars
  <2>4. QED
    BY <1>6, <1>8, <2>1, <2>2, <2>3 DEF Cleanup
<1>9. ASSUME NEW x \in Cancellers, Cancel(x) PROVE ClockInv'
  <2>1. x \in Actors
    BY RestIs
  <2>2. CASE Withdraw(x) \/ \E t \in Tasks : ReadStatus(x, t)
    <3>1. /\ UNCHANGED <<timeoutAt, late>> /\ \A b \in Actors \ {x} : held'[b] = held[b]
          /\ \E p \in {"release", "withdraw", "released"} : Goto(x, p)
      BY <1>1, <2>1, <2>2 DEF Withdraw, ReadStatus, clockVars, histVars, ActorsOK
    <3>2. QED
      BY <1>4, <2>1, <3>1
  <2>3. CASE SetCancelled(x)
    BY <1>5, <2>1, <2>3 DEF SetCancelled, clockVars, histVars
  <2>4. QED
    BY <1>6, <1>9, <2>1, <2>2, <2>3 DEF Cancel
<1>10. ASSUME NEW a \in Actors, Interrupt(a) PROVE ClockInv'
  BY <1>1, <1>5, <1>10 DEF Interrupt
<1>11. CASE Tick
  BY <1>11 DEF Tick, Timing, ClockInv, actorVars
<1>12. CASE CheckLimits \/ SaveTask \/ PushTask \/ InterruptSubmit \/ \E t \in Tasks : KeyExpires(t)
  BY <1>3, <1>12 DEF CheckLimits, SaveTask, PushTask, InterruptSubmit, KeyExpires, clockVars, actorVars, histVars
<1>13. CASE UNCHANGED vars
  BY <1>3, <1>13 DEF vars, clockVars, actorVars, histVars
<1>14. QED
  BY <1>7, <1>8, <1>9, <1>10, <1>11, <1>12, <1>13 DEF Next, Submission

LEMMA LeaseSet ==
    ASSUME TypeInv, SingleInv, ClockInv, LeaseInv, NEW w \in Workers, SetVisibility(w) \/ SetExpiry(w)
    PROVE  LeaseInv'
<1>1. /\ ActorsOK /\ w \in Actors /\ key \in [Tasks -> Key] /\ Timeout \in Nat
      /\ Forever = Timeout + 2
  BY RestIs, QueueAssumption DEF TypeInv, TypeOK, Forever
<1>2. held[w] \in Tasks
  BY <1>1, HoldsTask DEF SetVisibility, SetExpiry
<1>3. /\ UNCHANGED <<ready, client, held, expired, takenBack, late>>
      /\ \A v \in Workers \ {w} : at'[v] = at[v]
  BY <1>1, GotoIs DEF SetVisibility, SetExpiry, histVars, Actors
<1>4. \A t \in Tasks \ {held[w]} : key'[t] = key[t]
  BY <1>1 DEF SetVisibility, SetExpiry
<1>5. ASSUME NEW t \in Tasks \ late, t # held[w] PROVE OnTime(t)'
  <2>1. OnTime(t) /\ key'[t] = key[t]
    BY <1>4, <1>5 DEF LeaseInv
  <2>2. \A v \in Workers : held[v] = t => at'[v] = at[v]
    BY <1>3, <1>5
  <2>3. Keyed(t)' <=> Keyed(t)
    BY <2>1 DEF Keyed
  <2>4. QED
    BY <1>3, <2>1, <2>2, <2>3 DEF OnTime
<1>6. ASSUME NEW t \in Tasks \ late, t = held[w] PROVE OnTime(t)'
  <2>1. OnTime(t) /\ Single(t)
    BY <1>6 DEF LeaseInv, SingleInv, OnTime
  <2>2. /\ \A v \in Workers : held[v] = t => v = w
        /\ \A i \in DOMAIN ready : ready[i] # t
        /\ \A k \in DOMAIN client.left : client.left[k] # t
    BY <1>6, <2>1 DEF Single
  <2>3. CASE SetVisibility(w)
    <3>1. ~Keyed(t) /\ at'[w] = "leased"
      BY <1>1, <1>6, <2>1, <2>3, GotoIs DEF SetVisibility, OnTime
    <3>2. key'[t] = [due |-> Timeout + 1, ttl |-> Forever]
      <4>1. timeoutAt[w] = Timeout + 1
        BY <1>6, <2>3 DEF SetVisibility, ClockInv
      <4>2. QED
        BY <1>1, <1>2, <1>6, <2>3, <3>1, <4>1 DEF SetVisibility
    <3>3. key'[t].ttl = Forever /\ key'[t].due = Timeout + 1
      BY <3>2
    <3>4. QED
      BY <1>3, <2>1, <2>2, <3>1, <3>3 DEF OnTime
  <2>4. CASE SetExpiry(w)
    <3>1. at[w] = "leased" /\ at'[w] = "expiring"
      BY <1>1, <2>4, GotoIs DEF SetExpiry
    <3>2. CASE Keyed(t)
      <4>1. key[t].due = Timeout + 1 /\ key[t] \in Key
        BY <1>1, <1>6, <2>1, <3>1, <3>2 DEF OnTime
      <4>2. key'[t] = [key[t] EXCEPT !.ttl = Timeout + 1]
        BY <1>1, <1>2, <1>6, <2>4, <3>2 DEF SetExpiry
      <4>3. key'[t].ttl = Timeout + 1 /\ key'[t].due = Timeout + 1
        BY <4>1, <4>2 DEF Key
      <4>4. key'[t].ttl # Forever /\ key'[t].ttl <= key'[t].due
        BY <1>1, <4>3
      <4>5. QED
        BY <1>3, <2>1, <2>2, <3>1, <4>4 DEF OnTime
    <3>3. CASE ~Keyed(t)
      <4>1. ~Keyed(t)'
        BY <1>6, <2>4, <3>3 DEF SetExpiry, Keyed
      <4>2. QED
        BY <1>3, <2>1, <4>1 DEF OnTime
    <3>4. QED
      BY <3>2, <3>3
  <2>5. QED
    BY <2>3, <2>4
<1>7. QED
  BY <1>3, <1>5, <1>6 DEF LeaseInv

LEMMA LeaseTick ==
    ASSUME TypeInv, LeaseInv, Tick
    PROVE  LeaseInv'
<1>1. /\ UNCHANGED <<ready, client, at, held, expired, takenBack>>
      /\ late \cup {t \in Tasks : key[t].ttl = Forever} \subseteq late'
      /\ key' = [t \in Tasks |-> Later(key[t])] /\ key \in [Tasks -> Key]
  BY DEF Tick, actorVars, TypeInv, TypeOK
<1>2. Timeout \in Nat /\ Forever = Timeout + 2
  BY QueueAssumption DEF Forever
<1>3. ASSUME NEW t \in Tasks \ late' PROVE OnTime(t)'
  <2>1. OnTime(t) /\ key[t].ttl # Forever /\ key[t] \in Key
    BY <1>1, <1>3 DEF LeaseInv
  <2>2. key[t].due \in 0 .. Timeout + 1 /\ key[t].ttl \in 0 .. Forever
    BY <2>1 DEF Key
  <2>3. CASE key[t].ttl <= 1
    <3>1. key'[t] = NoKey
      BY <1>1, <2>1, <2>3 DEF Later
    <3>2. ~Keyed(t)'
      BY <3>1 DEF Keyed, NoKey
    <3>3. QED
      BY <1>1, <2>1, <3>2 DEF OnTime
  <2>4. CASE key[t].ttl > 1
    <3>1. Keyed(t) /\ key[t].ttl <= key[t].due
      BY <1>2, <2>1, <2>2, <2>4 DEF OnTime, Keyed
    <3>2. key'[t] = [due |-> key[t].due - 1, ttl |-> key[t].ttl - 1]
      BY <1>1, <1>2, <2>1, <2>2, <2>4, <3>1 DEF Later, Less
    <3>3. key'[t].ttl # Forever /\ key'[t].ttl <= key'[t].due
      BY <1>2, <2>1, <2>2, <3>1, <3>2
    <3>4. QED
      BY <1>1, <2>1, <3>1, <3>3 DEF OnTime
  <2>5. QED
    BY <1>2, <2>2, <2>3, <2>4
<1>4. QED
  BY <1>3 DEF LeaseInv

(* A key is due only if it was late: this is what a cleaner can find *)
LEMMA DueIsLate ==
    ASSUME TypeInv, LeaseInv, NEW t \in Tasks, Due(t)
    PROVE  t \in late
<1>1. key[t] \in Key /\ key[t].due = 0 /\ Keyed(t) /\ Timeout \in Nat
  BY QueueAssumption DEF TypeInv, TypeOK, Due
<1>2. key[t].ttl \in Nat /\ key[t].ttl > 0
  BY <1>1, QueueAssumption DEF Key, Keyed, Forever
<1>3. QED
  BY <1>1, <1>2 DEF LeaseInv, OnTime

LEMMA LeaseStep == TypeInv /\ SingleInv /\ ClockInv /\ LeaseInv /\ [Next]_vars => LeaseInv'
<1> SUFFICES ASSUME TypeInv, SingleInv, ClockInv, LeaseInv, [Next]_vars PROVE LeaseInv'
  OBVIOUS
<1>1. ActorsOK /\ key \in [Tasks -> Key] /\ ready \in Seq(Tasks) /\ client.left \in Seq(Tasks)
      /\ expired \in [Cleaners -> SUBSET Tasks]
  BY DEF TypeInv, TypeOK
<1>2. ASSUME UNCHANGED <<ready, key, at, held, expired, takenBack, late>>,
             \A k \in DOMAIN client'.left : \E j \in DOMAIN client.left : client'.left[k] = client.left[j]
      PROVE  LeaseInv'
  BY <1>2, LeaseKept
<1>3. CASE UNCHANGED vars
  BY <1>2, <1>3 DEF vars, redisVars, actorVars, histVars
<1>4. CASE CheckLimits \/ SaveTask \/ InterruptSubmit
  <2>1. client'.left = client.left
    BY <1>4 DEF CheckLimits, SaveTask, InterruptSubmit, Submit, TypeInv, TypeOK
  <2>2. QED
    BY <1>2, <1>4, <2>1 DEF CheckLimits, SaveTask, InterruptSubmit, redisVars, actorVars, histVars
<1>5. CASE PushTask
  <2> DEFINE h == Head(client.left)
  <2>1. client.left # <<>> /\ UNCHANGED <<key, at, held, expired, takenBack, late>>
    BY <1>5 DEF PushTask, TypeInv, HashInv, actorVars, histVars
  <2>2. h = client.left[1] /\ 1 \in DOMAIN client.left /\ h \in Tasks
    BY <1>1, <2>1
  <2>3. h \in late \/ ~Keyed(h)
    BY <2>2 DEF LeaseInv, OnTime
  <2>4. \A k \in DOMAIN client'.left : \E j \in DOMAIN client.left : client'.left[k] = client.left[j]
    <3>1. client'.left = Tail(client.left)
      BY <1>5 DEF PushTask
    <3>2. \A k \in DOMAIN Tail(client.left) : k + 1 \in DOMAIN client.left /\ Tail(client.left)[k] = client.left[k + 1]
      BY <1>1, <2>1
    <3>3. QED
      BY <3>1, <3>2
  <2>5. \A i \in DOMAIN ready' : (\E j \in DOMAIN ready : ready'[i] = ready[j]) \/ ready'[i] = h
    BY <1>1, <1>5, <2>2 DEF PushTask
  <2> HIDE DEF h
  <2>6. QED
    BY <2>1, <2>3, <2>4, <2>5, LeaseKept
<1>6. ASSUME NEW a \in Actors, Leave(a), UNCHANGED <<key, client, expired, takenBack, late>>,
             \A i \in DOMAIN ready' : \/ \E j \in DOMAIN ready : ready'[i] = ready[j]
                                      \/ ready'[i] \in late \/ ~Keyed(ready'[i])
      PROVE  LeaseInv'
  <2>1. /\ \A c \in Cleaners : held'[c] \in {held[c], Nothing} /\ expired'[c] = expired[c]
        /\ \A w \in Workers : held'[w] = Nothing \/ (held'[w] = held[w] /\ at'[w] = at[w])
    <3>1. held'[a] = Nothing /\ \A b \in Actors \ {a} : at'[b] = at[b] /\ held'[b] = held[b]
      BY <1>1, <1>6, LeaveIs
    <3>2. \A c \in Cleaners : held'[c] \in {held[c], Nothing}
      BY <3>1 DEF Actors
    <3>3. \A w \in Workers : held'[w] = Nothing \/ (held'[w] = held[w] /\ at'[w] = at[w])
      BY <3>1 DEF Actors
    <3>4. QED
      BY <1>6, <3>2, <3>3
  <2>2. QED
    BY <1>6, <2>1, LeaseKept
<1>7. ASSUME NEW a \in Actors, Release(a) PROVE LeaseInv'
  <2>1. UNCHANGED <<ready, client, held, expired, takenBack, late>>
    BY <1>7 DEF Release, UnmarkUser, UnmarkGlobal, ClearVisibility, histVars
  <2>2. \A t \in Tasks : key'[t] \in {key[t], NoKey}
    BY <1>1, <1>7 DEF Release, UnmarkUser, UnmarkGlobal, ClearVisibility
  <2>3. \A b \in Actors \ {a} : at'[b] = at[b]
    BY <1>1, <1>7, GotoIs DEF Release, UnmarkUser, UnmarkGlobal, ClearVisibility
  <2>4. CASE UnmarkUser(a) \/ UnmarkGlobal(a)
    <3>1. at'[a] \in KeyPoints \ {"leased"}
      BY <1>1, <2>4, GotoIs DEF UnmarkUser, UnmarkGlobal, KeyPoints
    <3>2. QED
      BY <2>1, <2>2, <2>3, <3>1, LeaseKept DEF Actors
  <2>5. CASE ClearVisibility(a)
    <3>1. held[a] \in Tasks /\ at[a] = "uncounted" /\ UNCHANGED <<ready, client, held, expired, takenBack, late>>
      BY <1>1, <2>1, <2>5, HoldsTask DEF ClearVisibility
    <3>2. \A t \in Tasks : IF t = held[a] THEN key'[t] = NoKey ELSE key'[t] = key[t]
      BY <1>1, <2>5 DEF ClearVisibility
    <3>3. ASSUME NEW t \in Tasks \ late PROVE OnTime(t)'
      <4>1. OnTime(t)
        BY DEF LeaseInv
      <4>2. CASE t = held[a]
        <5>1. ~Keyed(t)'
          BY <3>2, <4>2 DEF Keyed, NoKey
        <5>2. QED
          BY <2>1, <4>1, <5>1 DEF OnTime
      <4>3. CASE t # held[a]
        <5>1. \A w \in Workers : held[w] = t => at'[w] = at[w]
          BY <2>3, <4>3 DEF Actors
        <5>2. key'[t] = key[t]
          BY <3>2, <4>3
        <5>3. Keyed(t)' <=> Keyed(t)
          BY <5>2 DEF Keyed
        <5>4. QED
          BY <2>1, <4>1, <5>1, <5>2, <5>3 DEF OnTime
      <4>4. QED
        BY <4>2, <4>3
    <3>4. QED
      BY <2>1, <3>3 DEF LeaseInv
  <2>6. QED
    BY <1>7, <2>4, <2>5 DEF Release
<1>8. ASSUME NEW w \in Workers, Work(w) PROVE LeaseInv'
  <2>1. w \in Actors /\ w \notin Cleaners
    BY RestIs, QueueAssumption
  <2>2. CASE Pop(w)
    <3>1. /\ ready # <<>> /\ ready' = Tail(ready) /\ UNCHANGED <<client, key, expired, takenBack, late>>
          /\ held'[w] = Head(ready)
          /\ \A b \in Actors \ {w} : at'[b] = at[b] /\ held'[b] = held[b]
      BY <1>1, <2>1, <2>2 DEF Pop, Goto, histVars, ActorsOK
    <3>2. Head(ready) = ready[1] /\ 1 \in DOMAIN ready /\ Head(ready) \in Tasks
      BY <1>1, <3>1
    <3>3. Head(ready) \in late \/ ~Keyed(Head(ready))
      BY <3>2 DEF LeaseInv, OnTime
    <3>4. \A i \in DOMAIN ready' : \E j \in DOMAIN ready : ready'[i] = ready[j]
      <4>1. \A i \in DOMAIN Tail(ready) : i + 1 \in DOMAIN ready /\ Tail(ready)[i] = ready[i + 1]
        BY <1>1, <3>1
      <4>2. QED
        BY <3>1, <4>1
    <3>5. /\ \A c \in Cleaners : held'[c] = held[c]
          /\ \A v \in Workers \ {w} : at'[v] = at[v] /\ held'[v] = held[v]
      BY <2>1, <3>1 DEF Actors
    <3>6. QED
      BY <3>1, <3>3, <3>4, <3>5, LeaseKept
  <2>3. CASE CheckAgain(w) \/ MarkUser(w) \/ MarkGlobal(w) \/ ReadClock(w)
    <3>1. /\ held[w] \in Tasks /\ at[w] \notin KeyPoints /\ UNCHANGED <<client, ready, held, key, expired, takenBack, late>>
          /\ \A b \in Workers \ {w} : at'[b] = at[b]
      BY <1>1, <2>1, <2>3, GotoIs, HoldsTask DEF CheckAgain, MarkUser, MarkGlobal, ReadClock, redisVars, histVars, KeyPoints, Actors
    <3>2. held[w] \in late \/ ~Keyed(held[w])
      BY <3>1, NoLease
    <3>3. QED
      BY <3>1, <3>2, LeaseKept
  <2>4. CASE PutBack(w)
    <3>1. held[w] \in Tasks /\ at[w] \notin KeyPoints /\ ready' = Append(ready, held[w])
      BY <1>1, <2>1, <2>4, HoldsTask DEF PutBack, KeyPoints
    <3>2. held[w] \in late \/ ~Keyed(held[w])
      BY <3>1, NoLease
    <3>3. \A i \in DOMAIN ready' : (\E j \in DOMAIN ready : ready'[i] = ready[j]) \/ ready'[i] = held[w]
      BY <1>1, <3>1
    <3>4. QED
      BY <1>6, <2>1, <2>4, <3>2, <3>3 DEF PutBack, histVars
  <2>5. CASE SetProcessing(w)
    <3>1. /\ at'[w] = "working" /\ UNCHANGED <<client, ready, held, key, expired, takenBack, late>>
          /\ \A b \in Workers \ {w} : at'[b] = at[b]
      BY <1>1, <2>1, <2>5, GotoIs DEF SetProcessing, histVars, Actors
    <3>2. QED
      BY <3>1, LeaseKept DEF KeyPoints
  <2>6. CASE SetOutcome(w)
    BY <1>6, <2>1, <2>6 DEF SetOutcome, histVars
  <2>7. QED
    BY <1>7, <1>8, <2>1, <2>2, <2>3, <2>4, <2>5, <2>6, LeaseSet DEF Work
<1>9. ASSUME NEW c \in Cleaners, Cleanup(c) PROVE LeaseInv'
  <2>1. c \in Actors /\ c \notin Workers
    BY RestIs, QueueAssumption
  <2>2. ASSUME NEW p, Goto(c, p), UNCHANGED <<client, key, takenBack, late, ready>>,
               held'[c] \in {held[c]} \cup late, \A b \in Actors \ {c} : held'[b] = held[b],
               \A b \in Cleaners : expired'[b] \subseteq expired[b] \cup late
        PROVE  LeaseInv'
    <3>1. \A w \in Workers : at'[w] = at[w] /\ held'[w] = held[w]
      BY <1>1, <2>1, <2>2, GotoIs DEF Actors
    <3>2. \A b \in Cleaners : held'[b] \in {held[b], Nothing} \cup late
      BY <2>2 DEF Actors
    <3>3. QED
      BY <2>2, <3>1, <3>2, LeaseKept
  <2>3. CASE Scan(c)
    <3>1. \A b \in Cleaners : expired'[b] \subseteq expired[b] \cup late
      BY <1>1, <2>3, DueIsLate DEF Scan
    <3>2. QED
      BY <2>2, <2>3, <3>1 DEF Scan, redisVars, histVars
  <2>4. ASSUME NEW t \in Tasks, HandleExpired(c, t) PROVE LeaseInv'
    <3>1. t \in late
      BY <2>4 DEF HandleExpired, LeaseInv, OnTime
    <3>2. /\ \A b \in Cleaners : expired'[b] \subseteq expired[b]
          /\ held'[c] = t /\ \A b \in Actors \ {c} : held'[b] = held[b]
      BY <1>1, <2>1, <2>4 DEF HandleExpired, ActorsOK
    <3>3. QED
      BY <2>2, <2>4, <3>1, <3>2 DEF HandleExpired, redisVars, histVars
  <2>5. CASE PushBack(c)
    <3>1. held[c] \in Tasks /\ UNCHANGED <<client, key, held, expired, late>>
          /\ ready' = Append(ready, held[c]) /\ takenBack' = takenBack \cup {held[c]}
          /\ \A w \in Workers : at'[w] = at[w]
      BY <1>1, <2>1, <2>5, HoldsTask, GotoIs DEF PushBack, Actors
    <3>2. held[c] \in late
      BY <3>1 DEF LeaseInv, OnTime
    <3>3. \A i \in DOMAIN ready' : (\E j \in DOMAIN ready : ready'[i] = ready[j]) \/ ready'[i] = held[c]
      BY <1>1, <3>1
    <3>4. QED
      BY <3>1, <3>2, <3>3, LeaseKept
  <2>6. CASE SetQueued(c)
    BY <1>6, <2>1, <2>6 DEF SetQueued, histVars
  <2>7. QED
    BY <1>7, <1>9, <2>1, <2>3, <2>4, <2>5, <2>6 DEF Cleanup
<1>10. ASSUME NEW x \in Cancellers, Cancel(x) PROVE LeaseInv'
  <2>1. x \in Actors /\ x \notin Workers /\ x \notin Cleaners
    BY RestIs, QueueAssumption
  <2>2. ASSUME NEW t \in Tasks, ReadStatus(x, t) PROVE LeaseInv'
    <3>1. \A b \in Actors \ {x} : at'[b] = at[b] /\ held'[b] = held[b]
      BY <1>1, <2>1, <2>2 DEF ReadStatus, Goto, ActorsOK
    <3>2. UNCHANGED <<client, ready, key, expired, takenBack, late>>
      BY <2>2 DEF ReadStatus, redisVars, histVars
    <3>3. QED
      BY <2>1, <3>1, <3>2, LeaseKept DEF Actors
  <2>3. CASE Withdraw(x)
    <3>1. \A n \in DOMAIN ready' : \E i \in DOMAIN ready : ready'[n] = ready[i]
      BY <1>1, <2>3, WithoutPlaces DEF Withdraw, IsPlace
    <3>2. \A b \in Actors \ {x} : at'[b] = at[b]
      BY <1>1, <2>1, <2>3, GotoIs DEF Withdraw
    <3>3. UNCHANGED <<client, held, key, expired, takenBack, late>>
      BY <2>3 DEF Withdraw, histVars
    <3>4. QED
      BY <2>1, <3>1, <3>2, <3>3, LeaseKept DEF Actors
  <2>4. CASE SetCancelled(x)
    BY <1>6, <2>1, <2>4 DEF SetCancelled, histVars
  <2>5. QED
    BY <1>7, <1>10, <2>1, <2>2, <2>3, <2>4 DEF Cancel
<1>11. ASSUME NEW a \in Actors, Interrupt(a) PROVE LeaseInv'
  BY <1>6, <1>11 DEF Interrupt, redisVars
<1>12. ASSUME NEW t \in Tasks, KeyExpires(t) PROVE LeaseInv'
  <2>1. \A u \in Tasks : key'[u] \in {key[u], NoKey}
    BY <1>1, <1>12 DEF KeyExpires
  <2>2. QED
    BY <1>12, <2>1, LeaseKept DEF KeyExpires, actorVars, histVars
<1>13. QED
  BY <1>3, <1>4, <1>5, <1>8, <1>9, <1>10, <1>11, <1>12, LeaseTick DEF Next, Submission

-----------------------------------------------------------------------------
(* No task is lost *)

Somewhere(t) ==
    \/ \E i \in DOMAIN ready : ready[i] = t
    \/ \E a \in Workers \cup Cancellers : held[a] = t
    \/ client.point = "saved" /\ Head(client.left) = t

LEMMA NotLostIs ==
    NotLost <=> \A t \in Tasks \ (interrupted \cup takenBack) :
                    status[t] \in {"queued", "processing"} => Somewhere(t)
BY DEF NotLost, Somewhere, Copies

(* A task that waits or runs after a step did so before it and did not go, *)
(* or is somewhere now                                                     *)
LEMMA LostKept ==
    ASSUME NotLost, interrupted \subseteq interrupted', takenBack \subseteq takenBack',
           \A t \in Tasks \ (interrupted' \cup takenBack') :
               status'[t] \in {"queued", "processing"} =>
                   \/ status'[t] = status[t] /\ (Somewhere(t) => Somewhere(t)')
                   \/ Somewhere(t)'
    PROVE  NotLost'
<1>1. \A t \in Tasks \ (interrupted' \cup takenBack') :
          status'[t] \in {"queued", "processing"} => Somewhere(t)'
  BY NotLostIs
<1>2. QED
  BY <1>1 DEF NotLost, Somewhere, Copies

LEMMA NotLostStep == TypeInv /\ PushedInv /\ NotLost /\ [Next]_vars => NotLost'
<1> SUFFICES ASSUME TypeInv, PushedInv, NotLost, [Next]_vars PROVE NotLost'
  OBVIOUS
<1>1. /\ ActorsOK /\ ready \in Seq(Tasks) /\ client.left \in Seq(Tasks)
      /\ client \in [point : {"idle", "accepted", "saved", "refused"}, left : Seq(Tasks)]
      /\ status \in [Tasks -> {"none", "queued", "processing"} \cup Finished]
  BY DEF TypeInv, TypeOK
<1>2. ASSUME UNCHANGED <<status, ready, held, client, interrupted, takenBack>> PROVE NotLost'
  BY <1>2 DEF NotLost, Copies
<1>3. CASE UNCHANGED vars
  BY <1>2, <1>3 DEF vars, redisVars, actorVars, histVars
<1>4. CASE CheckLimits
  <2>1. client.point = "idle" /\ UNCHANGED <<status, ready, held, interrupted, takenBack>>
    BY <1>4 DEF CheckLimits, redisVars, actorVars, histVars
  <2>2. QED
    BY <2>1, LostKept DEF Somewhere
<1>5. CASE SaveTask
  <2>1. /\ client.point = "accepted" /\ client'.point = "saved" /\ client'.left = client.left
        /\ UNCHANGED <<ready, held, interrupted, takenBack>>
        /\ \A t \in Tasks \ {Head(client.left)} : status'[t] = status[t]
    BY <1>1, <1>5 DEF SaveTask, Submit, actorVars, histVars
  <2>2. QED
    BY <2>1, LostKept DEF Somewhere
<1>6. CASE PushTask
  <2>1. client.left # <<>>
    BY <1>6 DEF PushTask, TypeInv, HashInv
  <2>2. Head(client.left) \in Tasks /\ ready' = Append(ready, Head(client.left))
    BY <1>1, <1>6, <2>1 DEF PushTask
  <2>3. /\ \A i \in DOMAIN ready : i \in DOMAIN ready' /\ ready'[i] = ready[i]
        /\ \E i \in DOMAIN ready' : ready'[i] = Head(client.left)
    <3>1. Len(ready) + 1 \in DOMAIN ready' /\ ready'[Len(ready) + 1] = Head(client.left)
      BY <1>1, <2>2
    <3>2. QED
      BY <1>1, <2>2, <3>1
  <2>4. UNCHANGED <<status, held, interrupted, takenBack>>
    BY <1>6 DEF PushTask, actorVars, histVars
  <2>5. QED
    BY <2>3, <2>4, LostKept DEF Somewhere
<1>7. CASE InterruptSubmit
  <2>1. /\ interrupted' = interrupted \cup {Head(client.left)} /\ UNCHANGED <<status, ready, held, takenBack>>
    BY <1>7 DEF InterruptSubmit, redisVars, actorVars
  <2>2. QED
    BY <2>1, LostKept DEF Somewhere
<1>8. CASE Tick \/ \E t \in Tasks : KeyExpires(t)
  BY <1>2, <1>8 DEF Tick, KeyExpires, actorVars, histVars
<1>9. ASSUME NEW a \in Actors, Release(a) PROVE NotLost'
  BY <1>2, <1>9 DEF Release, UnmarkUser, UnmarkGlobal, ClearVisibility, histVars
(* A process leaves a task whose outcome it has written *)
<1>10. ASSUME NEW a \in Actors, NEW s \in Finished, status' = [status EXCEPT ![held[a]] = s], Leave(a),
              UNCHANGED <<ready, client, interrupted, takenBack>>
       PROVE  NotLost'
  <2>1. \A t \in Tasks \ {held[a]} : status'[t] = status[t]
    BY <1>1, <1>10
  <2>2. held[a] \in Tasks => status'[held[a]] \notin {"queued", "processing"}
    BY <1>1, <1>10 DEF Finished
  <2>3. \A b \in Actors \ {a} : held'[b] = held[b]
    BY <1>1, <1>10, LeaveIs
  <2>4. QED
    BY <1>10, <2>1, <2>2, <2>3, LostKept DEF Somewhere, Actors
<1>11. ASSUME NEW w \in Workers, Work(w) PROVE NotLost'
  <2>1. w \in Actors
    BY RestIs
  <2>2. CASE Pop(w)
    <3>1. /\ ready # <<>> /\ ready' = Tail(ready) /\ at[w] = "idle"
          /\ UNCHANGED <<client, status, interrupted, takenBack>>
          /\ held'[w] = Head(ready) /\ \A b \in Actors \ {w} : held'[b] = held[b]
      BY <1>1, <2>1, <2>2 DEF Pop, histVars, ActorsOK
    <3>2. held[w] = Nothing
      BY <1>1, <2>1, <3>1 DEF ActorsOK
    <3>3. \A i \in DOMAIN ready : ready[i] = Head(ready) \/ \E j \in DOMAIN ready' : ready'[j] = ready[i]
      <4>1. \A i \in DOMAIN ready \ {1} : i - 1 \in DOMAIN Tail(ready) /\ Tail(ready)[i - 1] = ready[i]
        BY <1>1, <3>1
      <4>2. Head(ready) = ready[1]
        BY <1>1, <3>1
      <4>3. QED
        BY <3>1, <4>1, <4>2
    <3>4. QED
      <4>1. \A t \in Tasks : Somewhere(t) => Somewhere(t)'
        <5> SUFFICES ASSUME NEW t \in Tasks, Somewhere(t) PROVE Somewhere(t)'
          OBVIOUS
        <5>1. t # Nothing
          BY QueueAssumption
        <5>2. CASE t = Head(ready)
          BY <3>1, <5>2 DEF Somewhere
        <5>3. CASE t # Head(ready)
          BY <3>1, <3>2, <3>3, <5>1, <5>3 DEF Somewhere, Actors
        <5>4. QED
          BY <5>2, <5>3
      <4>2. QED
        BY <3>1, <4>1, LostKept
  <2>3. CASE CheckAgain(w) \/ MarkUser(w) \/ MarkGlobal(w) \/ ReadClock(w) \/ SetVisibility(w) \/ SetExpiry(w)
    BY <1>2, <2>3 DEF CheckAgain, MarkUser, MarkGlobal, ReadClock, SetVisibility, SetExpiry, redisVars, histVars
  <2>4. CASE PutBack(w)
    <3>1. held[w] \in Tasks /\ ready' = Append(ready, held[w]) /\ UNCHANGED <<client, status, interrupted, takenBack>>
      BY <1>1, <2>1, <2>4, HoldsTask DEF PutBack, histVars
    <3>2. /\ \A i \in DOMAIN ready : i \in DOMAIN ready' /\ ready'[i] = ready[i]
          /\ \E i \in DOMAIN ready' : ready'[i] = held[w]
      <4>1. Len(ready) + 1 \in DOMAIN ready' /\ ready'[Len(ready) + 1] = held[w]
        BY <1>1, <3>1
      <4>2. QED
        BY <1>1, <3>1, <4>1
    <3>3. \A b \in Actors \ {w} : held'[b] = held[b]
      BY <1>1, <2>1, <2>4, LeaveIs DEF PutBack
    <3>4. QED
      BY <3>1, <3>2, <3>3, LostKept DEF Somewhere, Actors
  <2>5. CASE SetProcessing(w)
    <3>1. /\ held' = held /\ UNCHANGED <<ready, client, interrupted, takenBack>>
          /\ \A t \in Tasks \ {held[w]} : status'[t] = status[t]
      BY <1>1, <2>5 DEF SetProcessing, histVars
    <3>2. QED
      BY <3>1, LostKept DEF Somewhere
  <2>6. CASE SetOutcome(w)
    BY <1>10, <2>1, <2>6 DEF SetOutcome, histVars, Finished
  <2>7. QED
    BY <1>9, <1>11, <2>1, <2>2, <2>3, <2>4, <2>5, <2>6 DEF Work
<1>12. ASSUME NEW c \in Cleaners, Cleanup(c) PROVE NotLost'
  <2>1. c \in Actors /\ c \notin Workers \cup Cancellers
    BY RestIs, QueueAssumption
  <2>2. CASE Scan(c) \/ \E t \in Tasks : HandleExpired(c, t)
    <3>1. \A b \in Workers \cup Cancellers : held'[b] = held[b]
      BY <1>1, <2>1, <2>2 DEF Scan, HandleExpired, ActorsOK, Actors
    <3>2. QED
      BY <2>2, <3>1, LostKept DEF Scan, HandleExpired, redisVars, histVars, Somewhere
  <2>3. CASE PushBack(c)
    <3>1. held[c] \in Tasks
      BY <1>1, <2>1, <2>3, HoldsTask DEF PushBack
    <3>2. \A i \in DOMAIN ready : i \in DOMAIN ready' /\ ready'[i] = ready[i]
      BY <1>1, <2>3, <3>1 DEF PushBack
    <3>3. QED
      BY <2>3, <3>2, LostKept DEF PushBack, Somewhere
  <2>4. CASE SetQueued(c)
    <3>1. /\ held[c] \in takenBack /\ UNCHANGED <<ready, client, interrupted, takenBack>>
          /\ \A t \in Tasks \ {held[c]} : status'[t] = status[t]
      BY <1>1, <2>4 DEF SetQueued, PushedInv, histVars
    <3>2. \A b \in Workers \cup Cancellers : held'[b] = held[b]
      BY <1>1, <2>1, <2>4, LeaveIs DEF SetQueued, Actors
    <3>3. QED
      BY <3>1, <3>2, LostKept DEF Somewhere
  <2>5. QED
    BY <1>9, <1>12, <2>1, <2>2, <2>3, <2>4 DEF Cleanup
<1>13. ASSUME NEW x \in Cancellers, Cancel(x) PROVE NotLost'
  <2>1. x \in Actors
    BY RestIs
  <2>2. ASSUME NEW t \in Tasks, ReadStatus(x, t) PROVE NotLost'
    <3>1. /\ at[x] = "idle" /\ UNCHANGED <<ready, client, status, interrupted, takenBack>>
          /\ \A b \in Actors \ {x} : held'[b] = held[b]
      BY <1>1, <2>1, <2>2 DEF ReadStatus, redisVars, histVars, ActorsOK
    <3>2. held[x] = Nothing
      BY <1>1, <2>1, <3>1 DEF ActorsOK
    <3>3. QED
      BY <3>1, <3>2, QueueAssumption, LostKept DEF Somewhere, Actors
  <2>3. CASE Withdraw(x)
    <3>1. PICK place : IsPlace(place, ready, held[x])
      BY <1>1, WithoutPlaces
    <3>2. \A i \in DOMAIN ready : ready[i] # held[x] => \E n \in DOMAIN ready' : ready'[n] = ready[i]
      BY <2>3, <3>1 DEF Withdraw, IsPlace
    <3>3. UNCHANGED <<held, client, status, interrupted, takenBack>>
      BY <2>3 DEF Withdraw, histVars
    <3>4. QED
      BY <3>2, <3>3, LostKept DEF Somewhere
  <2>4. CASE SetCancelled(x)
    BY <1>10, <2>1, <2>4 DEF SetCancelled, histVars, Finished
  <2>5. QED
    BY <1>9, <1>13, <2>1, <2>2, <2>3, <2>4 DEF Cancel
<1>14. ASSUME NEW a \in Actors, Interrupt(a) PROVE NotLost'
  <2>1. interrupted' = interrupted \cup {held[a]} /\ UNCHANGED <<ready, client, status, takenBack>>
    BY <1>14 DEF Interrupt, redisVars
  <2>2. \A b \in Actors \ {a} : held'[b] = held[b]
    BY <1>1, <1>14, LeaveIs DEF Interrupt
  <2>3. QED
    BY <2>1, <2>2, LostKept DEF Somewhere, Actors
<1>15. QED
  BY <1>3, <1>4, <1>5, <1>6, <1>7, <1>8, <1>11, <1>12, <1>13, <1>14 DEF Next, Submission

LEMMA PushedStep == TypeInv /\ PushedInv /\ [Next]_vars => PushedInv'
<1> SUFFICES ASSUME TypeInv, PushedInv, [Next]_vars PROVE PushedInv'
  OBVIOUS
<1>1. ActorsOK
  BY DEF TypeInv, TypeOK
<1>2. ASSUME UNCHANGED <<at, held, takenBack>> PROVE PushedInv'
  BY <1>2 DEF PushedInv
<1>3. CASE UNCHANGED vars
  BY <1>2, <1>3 DEF vars, actorVars, histVars
<1>4. CASE Submission \/ InterruptSubmit \/ Tick \/ \E t \in Tasks : KeyExpires(t)
  BY <1>2, <1>4 DEF Submission, InterruptSubmit, CheckLimits, SaveTask, PushTask, Tick, KeyExpires,
                    actorVars, histVars
<1>5. ASSUME NEW a \in Actors, \A b \in Actors \ {a} : at'[b] = at[b] /\ held'[b] = held[b],
             a \in Cleaners => at'[a] # "pushed", takenBack' = takenBack
      PROVE  PushedInv'
  BY <1>5 DEF PushedInv, Actors
<1>6. ASSUME NEW a \in Actors, Leave(a), takenBack' = takenBack PROVE PushedInv'
  <2>1. Rest(a) # "pushed"
    BY RestIs DEF Actors
  <2>2. QED
    BY <1>1, <1>5, <1>6, <2>1, LeaveIs
<1>7. ASSUME NEW a \in Actors, Release(a) PROVE PushedInv'
  <2>1. /\ at'[a] \in {"unmarked", "uncounted", "released"} /\ held' = held /\ takenBack' = takenBack
        /\ \A b \in Actors \ {a} : at'[b] = at[b]
    BY <1>1, <1>7, GotoIs DEF Release, UnmarkUser, UnmarkGlobal, ClearVisibility, histVars
  <2>2. QED
    BY <1>5, <2>1
<1>8. ASSUME NEW w \in Workers, Work(w) PROVE PushedInv'
  <2>1. w \in Actors /\ w \notin Cleaners
    BY RestIs, QueueAssumption
  <2>2. CASE Pop(w)
    BY <1>1, <1>5, <2>1, <2>2 DEF Pop, Goto, histVars, ActorsOK
  <2>3. CASE PutBack(w) \/ SetOutcome(w)
    BY <1>6, <2>1, <2>3 DEF PutBack, SetOutcome, histVars
  <2>4. CASE CheckAgain(w) \/ MarkUser(w) \/ MarkGlobal(w) \/ ReadClock(w) \/ SetVisibility(w) \/ SetExpiry(w) \/ SetProcessing(w)
    <3>1. held' = held /\ takenBack' = takenBack /\ \A b \in Actors \ {w} : at'[b] = at[b]
      BY <1>1, <2>1, <2>4, GotoIs DEF CheckAgain, MarkUser, MarkGlobal, ReadClock, SetVisibility, SetExpiry, SetProcessing, redisVars, histVars
    <3>2. QED
      BY <1>5, <2>1, <3>1
  <2>5. QED
    BY <1>7, <1>8, <2>1, <2>2, <2>3, <2>4 DEF Work
<1>9. ASSUME NEW c \in Cleaners, Cleanup(c) PROVE PushedInv'
  <2>1. c \in Actors
    BY RestIs
  <2>2. CASE Scan(c) \/ \E t \in Tasks : HandleExpired(c, t)
    BY <1>1, <1>5, <2>1, <2>2 DEF Scan, HandleExpired, Goto, histVars, ActorsOK
  <2>3. CASE PushBack(c)
    <3>1. held' = held /\ takenBack' = takenBack \cup {held[c]} /\ \A b \in Actors \ {c} : at'[b] = at[b]
      BY <1>1, <2>1, <2>3, GotoIs DEF PushBack
    <3>2. QED
      BY <3>1 DEF PushedInv, Actors
  <2>4. CASE SetQueued(c)
    BY <1>6, <2>1, <2>4 DEF SetQueued, histVars
  <2>5. QED
    BY <1>7, <1>9, <2>1, <2>2, <2>3, <2>4 DEF Cleanup
<1>10. ASSUME NEW x \in Cancellers, Cancel(x) PROVE PushedInv'
  <2>1. x \in Actors /\ x \notin Cleaners
    BY RestIs, QueueAssumption
  <2>2. CASE Withdraw(x) \/ \E t \in Tasks : ReadStatus(x, t)
    <3>1. takenBack' = takenBack /\ \A b \in Actors \ {x} : at'[b] = at[b] /\ held'[b] = held[b]
      BY <1>1, <2>1, <2>2 DEF Withdraw, ReadStatus, Goto, histVars, ActorsOK
    <3>2. QED
      BY <1>5, <2>1, <3>1
  <2>3. CASE SetCancelled(x)
    BY <1>6, <2>1, <2>3 DEF SetCancelled, histVars
  <2>4. QED
    BY <1>7, <1>10, <2>1, <2>2, <2>3 DEF Cancel
<1>11. ASSUME NEW a \in Actors, Interrupt(a) PROVE PushedInv'
  BY <1>6, <1>11 DEF Interrupt
<1>12. QED
  BY <1>3, <1>4, <1>8, <1>9, <1>10, <1>11 DEF Next

-----------------------------------------------------------------------------
(* The theorems *)

QueueInv ==
    TypeInv /\ SingleInv /\ PushedInv /\ NotLost /\ NoLeak /\ SlotInv /\ ClockInv /\ LeaseInv

LEMMA QueueInit == Init => QueueInv
<1> SUFFICES ASSUME Init PROVE QueueInv
  OBVIOUS
<1>1. TypeInv
  BY TypeInit
<1>2. /\ ready = <<>> /\ userSet = {} /\ processing = {} /\ client.left = Batch /\ client.point = "idle"
      /\ \A t \in Tasks : ~Keyed(t) /\ status[t] = "none"
      /\ \A a \in Actors : held[a] = Nothing /\ at[a] = "idle"
      /\ \A c \in Cleaners : expired[c] = {}
      /\ takenBack = {} /\ raced = {}
  BY DEF Init, Keyed, NoKey
<1>3. \A w \in Workers \cup Cleaners : w \in Actors /\ held[w] = Nothing /\ at[w] = "idle"
  BY <1>2 DEF Actors
<1>4. SingleInv
  BY <1>2, <1>3, QueueAssumption DEF SingleInv, Single
<1>5. NotLost /\ PushedInv /\ NoLeak
  BY <1>2, <1>3 DEF NotLost, PushedInv, NoLeak
<1>6. SlotInv
  <2>1. \A u \in Users : Admitted(u) = {} /\ UserSlots(u) = {}
    BY <1>2, <1>3 DEF Admitted, UserSlots
  <2>2. Cardinality({}) = 0 /\ UserLimit \in Nat
    BY FS_EmptySet, QueueAssumption
  <2>3. QED
    BY <2>1, <2>2 DEF SlotInv
<1>7. ClockInv /\ LeaseInv
  BY <1>2, <1>3, QueueAssumption DEF ClockInv, LeaseInv, OnTime
<1>8. QED
  BY <1>1, <1>4, <1>5, <1>6, <1>7 DEF QueueInv

LEMMA QueueStep == QueueInv /\ [Next]_vars => QueueInv'
BY TypeStep, SingleStep, PushedStep, NotLostStep, NoLeakStep, SlotStep, ClockStep, LeaseStep DEF QueueInv

LEMMA AtMostOne ==
    ASSUME NEW S, \A x, y \in S : x = y
    PROVE  Cardinality(S) \in {0, 1} /\ (Cardinality(S) = 1 => S # {})
<1>1. CASE S = {}
  BY <1>1, FS_EmptySet
<1>2. ASSUME NEW x \in S PROVE Cardinality(S) = 1
  <2>1. S = {x}
    OBVIOUS
  <2>2. QED
    BY <2>1, FS_Singleton
<1>3. QED
  BY <1>1, <1>2

LEMMA OneRunnerFromSingle == SingleInv => OneRunner
<1> SUFFICES ASSUME SingleInv, NEW t \in Tasks \ takenBack
             PROVE  Cardinality(Holders(t)) + Cardinality(Copies(t)) <= 1
  BY DEF OneRunner
<1>1. Single(t)
  BY DEF SingleInv
<1>2. \A v, w \in Holders(t) : v = w
  BY <1>1 DEF Single, Holders
<1>3. \A i, j \in Copies(t) : i = j
  BY <1>1 DEF Single, Copies
<1>4. Holders(t) = {} \/ Copies(t) = {}
  BY <1>1 DEF Single, Holders, Copies
<1>5. /\ Cardinality(Holders(t)) \in {0, 1} /\ (Cardinality(Holders(t)) = 1 => Holders(t) # {})
      /\ Cardinality(Copies(t)) \in {0, 1} /\ (Cardinality(Copies(t)) = 1 => Copies(t) # {})
  BY <1>2, <1>3, AtMostOne
<1>6. QED
  BY <1>4, <1>5

(* Every task that waits or runs is in the list, with one worker, with a   *)
(* canceller or with the client, and only once, whatever the workers,      *)
(* cleaners and cancellers of queue_service.py do at the same time, unless *)
(* an operation was cut short or a clean-up took the task back.            *)
THEOREM TaskInOnePlace == Spec => []OnePlace
<1>1. QueueInv => OnePlace
  BY OneRunnerFromSingle DEF QueueInv, TypeInv, OnePlace
<1>2. QED
  BY <1>1, QueueInit, QueueStep, PTL DEF Spec

(* A user's slot, a place in the processing set and a visibility key are   *)
(* there only while a worker is between mark_task_processing and the end   *)
(* of ack_task, unless an operation was cut short.                         *)
THEOREM NothingLeaks == Spec => []NoLeak
<1>1. QueueInv => NoLeak
  BY DEF QueueInv
<1>2. QED
  BY <1>1, QueueInit, QueueStep, PTL DEF Spec

(* A user has more tasks at work than user_concurrent_limit only after two *)
(* workers passed the second check of dequeue_task together.               *)
THEOREM LimitHolds == Spec => []OverrunOnlyByRace
<1>1. QueueInv => OverrunOnlyByRace
  BY DEF QueueInv, SlotInv, OverrunOnlyByRace
<1>2. QED
  BY <1>1, QueueInit, QueueStep, PTL DEF Spec

(* cleanup_expired_tasks finds only tasks for which a second once began    *)
(* between the worker's reading of the clock and its EXPIRE: for all       *)
(* others Redis removes the key before it counts as expired.               *)
THEOREM CleanupFindsOnlyLate == Spec => OnlyLateLeasesFound
<1> DEFINE Found == \A c \in Cleaners : \A t \in expired'[c] \ expired[c] : t \in late
<1>1. QueueInv /\ [Next]_vars => [Found]_vars
  <2> SUFFICES ASSUME QueueInv, Next PROVE Found
    OBVIOUS
  <2>1. TypeInv /\ LeaseInv /\ expired \in [Cleaners -> SUBSET Tasks]
    BY DEF QueueInv, TypeInv, TypeOK
  <2>2. ASSUME expired' = expired PROVE Found
    BY <2>2
  <2>3. ASSUME NEW c \in Cleaners, Scan(c) PROVE Found
    BY <2>1, <2>3, DueIsLate DEF Scan
  <2>4. ASSUME NEW c \in Cleaners, NEW t \in Tasks, HandleExpired(c, t) PROVE Found
    BY <2>1, <2>4 DEF HandleExpired
  <2> HIDE DEF Found
  <2>5. ASSUME NEW a, Release(a) PROVE Found
    BY <2>2, <2>5 DEF Release, UnmarkUser, UnmarkGlobal, ClearVisibility
  <2>6. ASSUME NEW w \in Workers, Work(w) PROVE Found
    BY <2>2, <2>5, <2>6 DEF Work, Pop, CheckAgain, PutBack, MarkUser, MarkGlobal, ReadClock, SetVisibility, SetExpiry, SetProcessing, SetOutcome
  <2>7. ASSUME NEW c \in Cleaners, Cleanup(c) PROVE Found
    BY <2>2, <2>3, <2>4, <2>5, <2>7 DEF Cleanup, PushBack, SetQueued
  <2>8. ASSUME NEW x \in Cancellers, Cancel(x) PROVE Found
    BY <2>2, <2>5, <2>8 DEF Cancel, ReadStatus, Withdraw, SetCancelled
  <2>9. CASE Submission \/ InterruptSubmit \/ Tick \/ \E t \in Tasks : KeyExpires(t)
    BY <2>2, <2>9 DEF Submission, CheckLimits, SaveTask, PushTask, InterruptSubmit, Tick, KeyExpires, actorVars
  <2>10. CASE \E a \in Actors : Interrupt(a)
    BY <2>2, <2>10 DEF Interrupt
  <2>11. QED
    BY <2>6, <2>7, <2>8, <2>9, <2>10 DEF Next
<1>2. QED
  BY <1>1, QueueInit, QueueStep, PTL DEF Spec, OnlyLateLeasesFound

=============================================================================
