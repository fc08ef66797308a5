---------------------------- MODULE AnalysisQueue ----------------------------
(***************************************************************************)
(* The Redis task queue of TradingAgents-CN: QueueService of               *)
(* app/services/queue_service.py with its helpers, the workers of          *)
(* app/worker/analysis_worker.py that take tasks from it, the clean-up     *)
(* loop of each worker, a client that submits a batch and one that cancels *)
(* tasks. Each command to Redis is atomic and every operation is a         *)
(* sequence of commands with an await between them: all of them interleave.*)
(* A task that is taken gets a visibility key with the second at which it  *)
(* counts as given up (timeout_at) and a time to live of as many seconds,  *)
(* after which Redis itself removes the key.                               *)
(***************************************************************************)
EXTENDS Naturals, Sequences, FiniteSets

CONSTANTS
    Tasks, Users,
    Owner(_),       \* the user of a task
    Batch,          \* the tasks the client submits, in order
    Workers,        \* worker processes
    Cleaners,       \* passes of the workers' clean-up loops
    Cancellers,     \* requests to cancel a task
    Nothing,        \* no task
    UserLimit,      \* user_concurrent_limit
    GlobalLimit,    \* global_concurrent_limit
    Timeout,        \* visibility_timeout in seconds
    MaxTime,        \* bound: seconds that pass
    MaxInterrupts   \* bound: operations cut short by a crash or a lost connection

Actors == Workers \cup Cleaners \cup Cancellers

ASSUME QueueAssumption ==
    /\ \A t \in Tasks : Owner(t) \in Users
    /\ Batch \in Seq(Tasks)
    /\ \A i, j \in DOMAIN Batch : Batch[i] = Batch[j] => i = j
    /\ Nothing \notin Tasks
    /\ Workers \cap Cleaners = {} /\ Workers \cap Cancellers = {}
    /\ Cleaners \cap Cancellers = {}
    /\ IsFiniteSet(Workers) /\ IsFiniteSet(Tasks)
    /\ {UserLimit, GlobalLimit, Timeout, MaxTime, MaxInterrupts} \subseteq Nat
    /\ UserLimit > 0 /\ Timeout > 0

VARIABLES
    ready,        \* READY_LIST, the end that is popped first
    status,       \* field status of the task's hash, "none" without a hash
    userSet,      \* the users' processing sets, together
    processing,   \* SET_PROCESSING
    key,          \* visibility keys
    now,          \* the seconds that have passed
    timeoutAt,    \* the timeout_at a worker has computed: the seconds until the clock passes it
    client,       \* create_batch: its program point and the tasks it has left
    at,           \* program point of each worker, cleaner and canceller
    held,         \* the task each of them is concerned with
    expired,      \* tasks a cleaner has found given up and not yet handled
    interrupted,  \* tasks whose operation was cut short: history
    interrupts,   \* how often that happened
    takenBack,    \* tasks a cleaner has put back: history
    raced,        \* users of whom two workers passed the second check together: history
    late          \* tasks for which a second began between time.time() and EXPIRE: history

redisVars == <<ready, status, userSet, processing, key>>
clockVars == <<now, timeoutAt>>
actorVars == <<at, held, expired>>
histVars  == <<interrupted, interrupts, takenBack, raced, late>>
vars == <<redisVars, clockVars, client, actorVars, histVars>>

(* A key: the seconds until the clock passes its timeout_at, and until     *)
(* Redis has removed it at the latest; no key has time to live 0           *)
Forever  == Timeout + 2                \* no time to live was set
NoKey    == [due |-> 0, ttl |-> 0]
Keyed(t) == key[t].ttl > 0
Finished == {"ended", "cancelled"}

Init ==
    /\ ready = <<>>
    /\ status = [t \in Tasks |-> "none"]
    /\ userSet = {} /\ processing = {}
    /\ key = [t \in Tasks |-> NoKey]
    /\ now = 0
    /\ timeoutAt = [a \in Actors |-> 0]
    /\ client = [point |-> "idle", left |-> Batch]
    /\ at = [a \in Actors |-> "idle"]
    /\ held = [a \in Actors |-> Nothing]
    /\ expired = [c \in Cleaners |-> {}]
    /\ interrupted = {} /\ interrupts = 0 /\ takenBack = {} /\ raced = {} /\ late = {}

-----------------------------------------------------------------------------
(* The concurrency limits *)

check_user_concurrent_limit(u) == Cardinality({t \in userSet : Owner(t) = u}) < UserLimit
check_global_concurrent_limit  == Cardinality(processing) < GlobalLimit

Goto(a, point) == at' = [at EXCEPT ![a] = point]
Rest(a)        == CASE a \in Workers  -> "idle"
                    [] a \in Cleaners -> "scanned"
                    [] OTHER          -> "done"
Leave(a)       == Goto(a, Rest(a)) /\ held' = [held EXCEPT ![a] = Nothing]

-----------------------------------------------------------------------------
(* create_batch: enqueue_task for one stock after the other, until one is  *)
(* refused; a single stock is a batch of one                               *)

Submit(point) == client' = [client EXCEPT !.point = point]

CheckLimits ==            \* two SCARDs: nothing is reserved, so that one step will do
    /\ client.point = "idle" /\ client.left # <<>>
    /\ Submit(IF /\ check_user_concurrent_limit(Owner(Head(client.left)))
                 /\ check_global_concurrent_limit
              THEN "accepted" ELSE "refused")
    /\ UNCHANGED <<redisVars, clockVars, actorVars, histVars>>

SaveTask ==
    /\ client.point = "accepted"
    /\ status' = [status EXCEPT ![Head(client.left)] = "queued"]
    /\ Submit("saved")
    /\ UNCHANGED <<ready, userSet, processing, key, clockVars, actorVars, histVars>>

PushTask ==
    /\ client.point = "saved"
    /\ ready' = Append(ready, Head(client.left))
    /\ client' = [point |-> "idle", left |-> Tail(client.left)]
    /\ UNCHANGED <<status, userSet, processing, key, clockVars, actorVars, histVars>>

-----------------------------------------------------------------------------
(* dequeue_task *)

Pop(w) ==
    /\ at[w] = "idle" /\ ready # <<>>
    /\ ready' = Tail(ready)
    /\ held' = [held EXCEPT ![w] = Head(ready)]
    /\ Goto(w, "popped")
    /\ UNCHANGED <<status, userSet, processing, key, clockVars, client, expired, histVars>>

Admitted(u) == {w \in Workers : at[w] = "admitted" /\ Owner(held[w]) = u}

CheckAgainNever(w) ==     \* mutant: no second check
    /\ at[w] = "popped"
    /\ Goto(w, "admitted")
    /\ raced' = IF Admitted(Owner(held[w])) = {} THEN raced ELSE raced \cup {Owner(held[w])}
    /\ UNCHANGED <<redisVars, clockVars, client, held, expired,
                   interrupted, interrupts, takenBack, late>>

CheckAgain(w) ==
    /\ at[w] = "popped"
    /\ LET u == Owner(held[w]) IN
       IF check_user_concurrent_limit(u)
       THEN /\ Goto(w, "admitted")
            /\ raced' = IF Admitted(u) = {} THEN raced ELSE raced \cup {u}
       ELSE Goto(w, "refused") /\ raced' = raced
    /\ UNCHANGED <<redisVars, clockVars, client, held, expired,
                   interrupted, interrupts, takenBack, late>>

PutBackNowhere(w) ==      \* mutant: refused and not pushed again
    /\ at[w] = "refused" /\ Leave(w)
    /\ UNCHANGED <<redisVars, clockVars, client, expired, histVars>>

PutBackGoingOn(w) ==      \* mutant: pushed again, and the return forgotten
    /\ at[w] = "refused"
    /\ ready' = Append(ready, held[w])
    /\ Goto(w, "admitted")
    /\ UNCHANGED <<status, userSet, processing, key, clockVars, client, held, expired, histVars>>

PutBack(w) ==
    /\ at[w] = "refused"
    /\ ready' = Append(ready, held[w])
    /\ Leave(w)
    /\ UNCHANGED <<status, userSet, processing, key, clockVars, client, expired, histVars>>

MarkUser(w) ==
    /\ at[w] = "admitted"
    /\ userSet' = userSet \cup {held[w]}
    /\ Goto(w, "marked")
    /\ UNCHANGED <<ready, status, processing, key, clockVars, client, held, expired, histVars>>

MarkGlobal(w) ==
    /\ at[w] = "marked"
    /\ processing' = processing \cup {held[w]}
    /\ Goto(w, "counted")
    /\ UNCHANGED <<ready, status, userSet, key, clockVars, client, held, expired, histVars>>

ReadClock(w) ==           \* int(time.time()) + visibility_timeout, before the await of HSET
    /\ at[w] = "counted"
    /\ timeoutAt' = [timeoutAt EXCEPT ![w] = Timeout + 1]
    /\ Goto(w, "timed")
    /\ UNCHANGED <<redisVars, now, client, held, expired, histVars>>

SetVisibility(w) ==       \* HSET: a key that is there keeps its time to live
    /\ at[w] = "timed"
    /\ key' = [key EXCEPT ![held[w]] =
                  [due |-> timeoutAt[w], ttl |-> IF Keyed(held[w]) THEN @.ttl ELSE Forever]]
    /\ timeoutAt' = [timeoutAt EXCEPT ![w] = 0]
    /\ Goto(w, "leased")
    /\ UNCHANGED <<ready, status, userSet, processing, now, client, held, expired, histVars>>

SetExpiry(w) ==           \* EXPIRE does nothing to a key that is not there
    /\ at[w] = "leased"
    /\ key' = IF Keyed(held[w]) THEN [key EXCEPT ![held[w]].ttl = Timeout + 1] ELSE key
    /\ Goto(w, "expiring")
    /\ UNCHANGED <<ready, status, userSet, processing, clockVars, client, held, expired, histVars>>

SetProcessing(w) ==
    /\ at[w] = "expiring"
    /\ status' = [status EXCEPT ![held[w]] = "processing"]
    /\ Goto(w, "working")
    /\ UNCHANGED <<ready, userSet, processing, key, clockVars, client, held, expired, histVars>>

-----------------------------------------------------------------------------
(* unmark_task_processing and clear_visibility_timeout, as ack_task,       *)
(* _handle_expired_task and cancel_task call them. A worker comes here     *)
(* when its analysis has ended, well or not.                               *)

UnmarkUser(a) ==
    /\ at[a] \in {"working", "release"}
    /\ userSet' = userSet \ {held[a]}
    /\ Goto(a, "unmarked")
    /\ UNCHANGED <<ready, status, processing, key, clockVars, client, held, expired, histVars>>

UnmarkGlobalForgotten(a) ==   \* mutant: only the user's set is updated
    /\ at[a] = "unmarked"
    /\ Goto(a, "uncounted")
    /\ UNCHANGED <<redisVars, clockVars, client, held, expired, histVars>>

UnmarkGlobal(a) ==
    /\ at[a] = "unmarked"
    /\ processing' = processing \ {held[a]}
    /\ Goto(a, "uncounted")
    /\ UNCHANGED <<ready, status, userSet, key, clockVars, client, held, expired, histVars>>

ClearVisibility(a) ==
    /\ at[a] = "uncounted"
    /\ key' = [key EXCEPT ![held[a]] = NoKey]
    /\ Goto(a, "released")
    /\ UNCHANGED <<ready, status, userSet, processing, clockVars, client, held, expired, histVars>>

-----------------------------------------------------------------------------
(* ack_task, its end. "ended" stands for completed and failed, which no    *)
(* operation tells apart; the sets of completed and of failed tasks, which *)
(* only the statistics read, are left out.                                 *)

SetOutcome(w) ==
    /\ at[w] = "released"
    /\ status' = [status EXCEPT ![held[w]] = "ended"]
    /\ Leave(w)
    /\ UNCHANGED <<ready, userSet, processing, key, clockVars, client, expired, histVars>>

-----------------------------------------------------------------------------
(* cleanup_expired_tasks and _handle_expired_task. KEYS and the HGETALLs   *)
(* are one step: a lease that goes during the scan is as good as one gone  *)
(* before it, and one whose holder ends after it is the case of interest.  *)

DueAtOnce(t) == Keyed(t) /\ key[t].due <= 1      \* mutant: >= for >
Due(t) == Keyed(t) /\ key[t].due = 0

Scan(c) ==
    /\ at[c] = "idle"
    /\ \E t \in Tasks : Due(t)
    /\ Goto(c, "scanned")
    /\ expired' = [expired EXCEPT ![c] = {t \in Tasks : Due(t)}]
    /\ UNCHANGED <<redisVars, clockVars, client, held, histVars>>

HandleExpired(c, t) ==
    /\ at[c] = "scanned" /\ t \in expired[c]
    /\ expired' = [expired EXCEPT ![c] = @ \ {t}]
    /\ held' = [held EXCEPT ![c] = t]
    /\ Goto(c, "release")
    /\ UNCHANGED <<redisVars, clockVars, client, histVars>>

PushBack(c) ==
    /\ at[c] = "released"
    /\ ready' = Append(ready, held[c])
    /\ takenBack' = takenBack \cup {held[c]}
    /\ Goto(c, "pushed")
    /\ UNCHANGED <<status, userSet, processing, key, clockVars, client, held, expired,
                   interrupted, interrupts, raced, late>>

SetQueued(c) ==
    /\ at[c] = "pushed"
    /\ status' = [status EXCEPT ![held[c]] = "queued"]
    /\ Leave(c)
    /\ UNCHANGED <<ready, userSet, processing, key, clockVars, client, expired, histVars>>

-----------------------------------------------------------------------------
(* cancel_task: what it does depends on the status it has read *)

ReadStatus(x, t) ==
    /\ at[x] = "idle" /\ status[t] # "none"
    /\ held' = [held EXCEPT ![x] = t]
    /\ Goto(x, CASE status[t] = "processing" -> "release"
                 [] status[t] = "queued"     -> "withdraw"
                 [] OTHER                    -> "released")
    /\ UNCHANGED <<redisVars, clockVars, client, expired, histVars>>

(* LREM with count 0: the places of s that hold another task, in order *)
Without(s, t) ==
    LET kept    == {i \in DOMAIN s : s[i] # t}
        rank(i) == Cardinality({j \in kept : j <= i})
    IN  [n \in 1 .. Cardinality(kept) |-> s[CHOOSE i \in kept : rank(i) = n]]

Withdraw(x) ==
    /\ at[x] = "withdraw"
    /\ ready' = Without(ready, held[x])
    /\ Goto(x, "released")
    /\ UNCHANGED <<status, userSet, processing, key, clockVars, client, held, expired, histVars>>

SetCancelled(x) ==
    /\ at[x] = "released"
    /\ status' = [status EXCEPT ![held[x]] = "cancelled"]
    /\ Leave(x)
    /\ UNCHANGED <<ready, userSet, processing, key, clockVars, client, expired, histVars>>

-----------------------------------------------------------------------------
(* Time: a second passes, or Redis removes a key in the second of its      *)
(* expiry                                                                  *)

Less(n) == IF n = 0 THEN 0 ELSE n - 1

Later(k) ==
    CASE k.ttl = Forever -> [k EXCEPT !.due = Less(@)]
      [] k.ttl <= 1      -> NoKey
      [] OTHER           -> [due |-> Less(k.due), ttl |-> k.ttl - 1]

Timing == {held[w] : w \in {v \in Workers : at[v] = "timed"}}

Tick ==
    /\ now < MaxTime
    /\ now' = now + 1
    /\ timeoutAt' = [a \in Actors |-> Less(timeoutAt[a])]
    /\ key' = [t \in Tasks |-> Later(key[t])]
    /\ late' = late \cup {t \in Tasks : key[t].ttl = Forever} \cup Timing
    /\ UNCHANGED <<ready, status, userSet, processing, client, actorVars,
                   interrupted, interrupts, takenBack, raced>>

KeyExpires(t) ==
    /\ key[t].ttl = 1
    /\ key' = [key EXCEPT ![t] = NoKey]
    /\ UNCHANGED <<ready, status, userSet, processing, clockVars, client, actorVars, histVars>>

(* A process dies and is started again, or Redis refuses a command and the *)
(* except clause ends the operation: the rest of it is not done            *)
Interrupt(a) ==
    /\ held[a] # Nothing /\ interrupts < MaxInterrupts
    /\ interrupts' = interrupts + 1
    /\ interrupted' = interrupted \cup {held[a]}
    /\ timeoutAt' = [timeoutAt EXCEPT ![a] = 0]
    /\ Leave(a)
    /\ UNCHANGED <<redisVars, now, client, expired, takenBack, raced, late>>

InterruptSubmit ==
    /\ client.point \in {"accepted", "saved"} /\ interrupts < MaxInterrupts
    /\ interrupts' = interrupts + 1
    /\ interrupted' = interrupted \cup {Head(client.left)}
    /\ Submit("refused")
    /\ UNCHANGED <<redisVars, clockVars, actorVars, takenBack, raced, late>>

Submission == CheckLimits \/ SaveTask \/ PushTask

Release(a) == UnmarkUser(a) \/ UnmarkGlobal(a) \/ ClearVisibility(a)

Work(w) ==
    \/ Pop(w) \/ CheckAgain(w) \/ PutBack(w)
    \/ MarkUser(w) \/ MarkGlobal(w) \/ ReadClock(w) \/ SetVisibility(w)
    \/ SetExpiry(w) \/ SetProcessing(w)
    \/ Release(w) \/ SetOutcome(w)

Cleanup(c) ==
    \/ Scan(c) \/ \E t \in Tasks : HandleExpired(c, t)
    \/ Release(c) \/ PushBack(c) \/ SetQueued(c)

Cancel(x) ==
    \/ \E t \in Tasks : ReadStatus(x, t)
    \/ Withdraw(x) \/ Release(x) \/ SetCancelled(x)

Next ==
    \/ Submission \/ InterruptSubmit
    \/ \E w \in Workers : Work(w)
    \/ \E c \in Cleaners : Cleanup(c)
    \/ \E x \in Cancellers : Cancel(x)
    \/ \E a \in Actors : Interrupt(a)
    \/ Tick
    \/ \E t \in Tasks : KeyExpires(t)

Spec == Init /\ [][Next]_vars

-----------------------------------------------------------------------------
(* Properties *)

WorkerPoints    == {"idle", "popped", "refused", "admitted", "marked", "counted", "timed",
                    "leased", "expiring", "working", "unmarked", "uncounted", "released"}
CleanerPoints   == {"idle", "scanned", "release", "unmarked", "uncounted", "released", "pushed"}
CancellerPoints == {"idle", "withdraw", "release", "unmarked", "uncounted", "released", "done"}

Key == [due : 0 .. Timeout + 1, ttl : 0 .. Forever]

(* A process is at a point of its own operation and concerned with a task  *)
(* exactly when it is not idle; the task of an operation has a hash        *)
ActorsOK ==
    /\ at \in [Actors -> WorkerPoints \cup CleanerPoints \cup CancellerPoints]
    /\ held \in [Actors -> Tasks \cup {Nothing}]
    /\ \A w \in Workers : at[w] \in WorkerPoints
    /\ \A c \in Cleaners : at[c] \in CleanerPoints
    /\ \A x \in Cancellers : at[x] \in CancellerPoints
    /\ \A a \in Actors : IF at[a] \in {"idle", Rest(a)} THEN held[a] = Nothing
                         ELSE held[a] \in Tasks /\ status[held[a]] # "none"

(* Types *)
TypeOK ==
    /\ ready \in Seq(Tasks)
    /\ status \in [Tasks -> {"none", "queued", "processing"} \cup Finished]
    /\ userSet \subseteq Tasks /\ processing \subseteq Tasks
    /\ key \in [Tasks -> Key]
    /\ now \in 0 .. MaxTime /\ timeoutAt \in [Actors -> 0 .. Timeout + 1]
    /\ client \in [point : {"idle", "accepted", "saved", "refused"}, left : Seq(Tasks)]
    /\ ActorsOK
    /\ expired \in [Cleaners -> SUBSET Tasks]
    /\ interrupted \subseteq Tasks /\ takenBack \subseteq Tasks /\ raced \subseteq Users
    /\ late \subseteq Tasks
    /\ interrupts \in 0 .. MaxInterrupts

Holders(t)  == {w \in Workers : held[w] = t}
Copies(t)   == {i \in DOMAIN ready : ready[i] = t}
UserSlots(u) == {t \in userSet : Owner(t) = u}

(* The second check of the limit, in dequeue_task, is there to prevent a   *)
(* race, and comes before an await and the SADD: a user has more slots     *)
(* than the limit only after two workers passed it together, not because a *)
(* slot leaked, a batch was accepted at once or a task was taken back.     *)
OverrunOnlyByRace ==
    \A u \in Users \ raced : Cardinality(UserSlots(u)) <= UserLimit

(* A slot, a place in the processing set and a visibility key are there    *)
(* only while a worker is on the way between taking and giving them up,    *)
(* whatever cleaners and cancellers do meanwhile: only an operation that   *)
(* was cut short leaks one.                                                *)
NoLeak ==
    \A t \in Tasks \ interrupted :
        /\ t \in userSet => \E w \in Holders(t) :
               at[w] \in {"marked", "counted", "timed", "leased", "expiring", "working"}
        /\ t \in processing => \E w \in Holders(t) :
               at[w] \in {"counted", "timed", "leased", "expiring", "working", "unmarked"}
        /\ Keyed(t) => \E w \in Holders(t) :
               at[w] \in {"leased", "expiring", "working", "unmarked", "uncounted"}

(* A task that its status says is waiting or running is in the list, with  *)
(* a worker, with a canceller that has withdrawn it, or still to be pushed *)
(* by the client. Only an operation cut short, or a clean-up that writes   *)
(* its late "queued", leaves a task that nobody will run.                  *)
NotLost ==
    \A t \in Tasks \ (interrupted \cup takenBack) :
        status[t] \in {"queued", "processing"} =>
            \/ Copies(t) # {}
            \/ \E a \in Workers \cup Cancellers : held[a] = t
            \/ client.point = "saved" /\ Head(client.left) = t

(* A task has one copy, in the list or with one worker, until a cleaner    *)
(* takes it back from a worker that may still be at work on it.            *)
OneRunner ==
    \A t \in Tasks \ takenBack : Cardinality(Holders(t)) + Cardinality(Copies(t)) <= 1

(* cleanup_expired_tasks finds a lease only if a second began between the  *)
(* worker's reading of the clock and its EXPIRE, or EXPIRE was never done. *)
(* The key of a worker that dies later is removed by Redis before the      *)
(* clean-up can see it as expired, however the leases of one task follow   *)
(* each other.                                                             *)
OnlyLateLeasesFound ==
    [][\A c \in Cleaners : \A t \in expired'[c] \ expired[c] : t \in late]_vars

(* A task is in exactly one place: the parts above as one invariant *)
OnePlace == TypeOK /\ NotLost /\ OneRunner

=============================================================================
