----------------------- MODULE CrossDayTrackerProofs -----------------------
(***************************************************************************)
(* Proofs about the cross-day tracker, for every number of days, stocks,   *)
(* processes and runs: signals are recorded once whatever overlaps         *)
(* (RecordedOnce); runs that come one after the other settle none twice,   *)
(* also when they are killed (AtMostOnce), and lose none when they are not *)
(* (TrackerInv); none is settled early (TrackerInv) or late                *)
(* (SettledInTime).                                                        *)
(*                                                                         *)
(* The properties speak of the files, and between two file operations a    *)
(* signal is only in the memory of a process: the inductive invariant says *)
(* for each program point which of its lists counts.                       *)
(***************************************************************************)
EXTENDS CrossDayTracker, FiniteSetTheorems, TLAPS

-----------------------------------------------------------------------------
(* The inductive invariant *)

(* No signal is twice among the waiting ones, on file or in memory *)
ListInv ==
    \A r \in Record : Waiting[r] <= 1 /\ \A p \in Processes : still[p][r] <= 1

(* A process that is not in a run has no lists *)
RestInv ==
    \A p \in Processes : pc[p] = "idle" => still[p] = Empty(Record) /\ newly[p] = Empty(Settled)

(* A day settles what was due on that day *)
Due(d, s) == d - s.buy >= (IF s.status = "verified" THEN HoldDays ELSE HoldDays + Grace)

DateInv ==
    /\ \A d \in Days, s \in Settled : SettledOn(d)[s] > 0 => d <= day /\ Due(d, s)
    /\ \A p \in Processes, s \in Settled : newly[p][s] > 0 => Due(day, s)

(* What verify_pending is about to save is not too old *)
AgeInv ==
    \A p \in Processes, r \in Record :
        pc[p] \in {"truncP", "writeP"} /\ still[p][r] > 0 => Age(r) < HoldDays + Grace

(* Until runs overlap at most one process is in a run *)
AloneInv ==
    ~overlap => \A p, q \in Processes : pc[p] # "idle" /\ pc[q] # "idle" => p = q

(* No signal is twice in a list of settled ones *)
NoneTwice(list) ==
    \A s \in Settled : list[s] <= 1 /\
        \A t \in Settled : list[s] > 0 /\ list[t] > 0 /\ Signal(s) = Signal(t) => s = t

(* Signal r was settled on a day among D *)
IsSettled(r, D) == \E d \in D : \E s \in Settled : SettledOn(d)[s] > 0 /\ Signal(s) = r
Moving(p, r)    == \E s \in Settled : newly[p][s] > 0 /\ Signal(s) = r

(* A signal is in one place on file *)
FilesOnce ==
    /\ \A d \in Days : NoneTwice(SettledOn(d))
    /\ \A d \in Days, s \in Settled :
          SettledOn(d)[s] > 0 => ~IsSettled(Signal(s), Days \ {d}) /\ Waiting[Signal(s)] = 0

(* What a process is about to save is in no other place: the lists of      *)
(* verify_pending while pending.json is replaced, the list of settled      *)
(* signals before and after today's file was added to it, and the list     *)
(* record_today_signals saves.                                             *)
HeldOnce(p) ==
    /\ pc[p] \in {"truncP", "writeP", "loadV", "truncV", "writeV"} => NoneTwice(newly[p])
    /\ pc[p] \in {"truncP", "writeP", "loadV"} =>
          \A s \in Settled : newly[p][s] > 0 => ~IsSettled(Signal(s), Days)
    /\ pc[p] \in {"truncP", "writeP"} =>
          \A s \in Settled : newly[p][s] > 0 => still[p][Signal(s)] = 0
    /\ pc[p] \in {"loadV", "truncV", "writeV"} =>
          \A s \in Settled : newly[p][s] > 0 => Waiting[Signal(s)] = 0
    /\ pc[p] \in {"truncV", "writeV"} =>
          \A s \in Settled : newly[p][s] > 0 => ~IsSettled(Signal(s), Days \ {day})
    /\ pc[p] \in {"truncP", "writeP", "truncR", "writeR"} =>
          \A r \in Record : still[p][r] > 0 => ~IsSettled(r, Days)

OnceInv == ~overlap => FilesOnce /\ \A p \in Processes : HeldOnce(p)

(* Where signal r is while p is in a run *)
Kept(p, r) ==
    /\ pc[p] \in {"idle", "verify", "record"} => Waiting[r] > 0 \/ IsSettled(r, Days)
    /\ pc[p] \in {"truncP", "writeP"} => still[p][r] > 0 \/ Moving(p, r) \/ IsSettled(r, Days)
    /\ pc[p] = "loadV" => Waiting[r] > 0 \/ Moving(p, r) \/ IsSettled(r, Days)
    /\ pc[p] \in {"truncV", "writeV"} =>
          Waiting[r] > 0 \/ Moving(p, r) \/ IsSettled(r, Days \ {day})
    /\ pc[p] \in {"truncR", "writeR"} => still[p][r] > 0 \/ IsSettled(r, Days)

(* The process in a run keeps every signal, and the files do when none is *)
KeptInv ==
    ~overlap /\ ~killed => \A r \in recorded, p \in Processes :
        pc[p] # "idle" \/ (\A q \in Processes : pc[q] = "idle") => Kept(p, r)

FileInv ==
    /\ TypeOK /\ ListInv /\ RestInv /\ DateInv /\ AgeInv
    /\ AloneInv /\ OnceInv /\ KeptInv
-----------------------------------------------------------------------------
(* The operators of the model *)

LEMMA SignalType == \A s \in Settled : Signal(s) \in Record
BY DEF Settled, Record, Signal

LEMMA EmptyList == ASSUME NEW S PROVE Empty(S) \in List(S) /\ \A x \in S : Empty(S)[x] = 0
BY DEF Empty, List

(* What is loaded is a list, whatever is in the file *)
LEMMA LoadType ==
  ASSUME TypeOK
  PROVE  Waiting \in List(Record) /\ \A d \in Days : SettledOn(d) \in List(Settled)
<1>1. Empty(Record) \in List(Record) /\ Empty(Settled) \in List(Settled)
  BY EmptyList
<1>2. pending # Torn => pending \in List(Record)
  BY DEF TypeOK
<1>3. \A d \in Days : verified[d] # Torn => verified[d] \in List(Settled)
  BY DEF TypeOK
<1> QED BY <1>1, <1>2, <1>3 DEF Load, Waiting, SettledOn

(* Their entries are numbers *)
LEMMA ListTypes ==
  ASSUME TypeOK
  PROVE  /\ \A r \in Record : Waiting[r] \in Nat
         /\ \A d \in Days, s \in Settled : SettledOn(d)[s] \in Nat
         /\ \A p \in Processes, r \in Record : still[p][r] \in Nat
         /\ \A p \in Processes, s \in Settled : newly[p][s] \in Nat
<1>1. Waiting \in [Record -> Nat] /\ \A d \in Days : SettledOn(d) \in [Settled -> Nat]
  BY LoadType DEF List
<1>2. /\ \A p \in Processes : still[p] \in [Record -> Nat]
      /\ \A p \in Processes : newly[p] \in [Settled -> Nat]
  BY DEF TypeOK, List
<1> QED BY <1>1, <1>2

(* A file that is being written is read as empty, and one that was written *)
(* as what was written.                                                    *)
LEMMA TornIsEmpty == Load(Torn, Record) = Empty(Record) /\ Load(Torn, Settled) = Empty(Settled)
BY DEF Load

LEMMA WrittenIsRead ==
  /\ \A list \in List(Record) : Load(list, Record) = list
  /\ \A list \in List(Settled) : Load(list, Settled) = list
BY TrackerAssumption DEF Load

(* IsSettled looks only at the files of the days it is asked about *)
LEMMA SettledSame ==
  ASSUME NEW D, \A d \in D : SettledOn(d)' = SettledOn(d)
  PROVE  \A r : IsSettled(r, D)' <=> IsSettled(r, D)
BY DEF IsSettled

LEMMA FilesSame ==
  /\ pending' = pending => Waiting' = Waiting
  /\ verified' = verified =>
        /\ \A d : SettledOn(d)' = SettledOn(d)
        /\ \A r, D : IsSettled(r, D)' <=> IsSettled(r, D)
BY DEF Waiting, SettledOn, IsSettled, Load

-----------------------------------------------------------------------------
(* What the steps do *)

(* verify_pending takes every waiting signal into one of its two lists *)
LEMMA SplitEffect ==
  ASSUME TypeOK, NEW p \in Processes, VerifyPending(p)
  PROVE  /\ pc[p] = "verify" /\ pc' = [pc EXCEPT ![p] = "truncP"]
         /\ UNCHANGED <<day, runs, pending, verified, recorded, overlap, killed>>
         /\ still' \in [Processes -> List(Record)] /\ newly' \in [Processes -> List(Settled)]
         /\ \A q \in Processes \ {p} : still'[q] = still[q] /\ newly'[q] = newly[q]
         /\ \A r \in Record :
               /\ still'[p][r] <= Waiting[r]
               /\ still'[p][r] > 0 => Age(r) < HoldDays + Grace
               /\ Waiting[r] > 0 =>
                     still'[p][r] > 0 \/ \E s \in Settled : newly'[p][s] > 0 /\ Signal(s) = r
         /\ \A s \in Settled :
               /\ newly'[p][s] <= Waiting[Signal(s)]
               /\ newly'[p][s] > 0 => still'[p][Signal(s)] = 0 /\ Due(day, s)
               /\ \A t \in Settled :
                     newly'[p][s] > 0 /\ newly'[p][t] > 0 /\ Signal(s) = Signal(t) => s = t
<1>1. PICK priced \in SUBSET Codes : Split(p, priced, HoldDays, HoldDays + Grace)
  BY DEF VerifyPending
<1> DEFINE Stays(r)   == Age(r) < HoldDays \/ (r.code \notin priced /\ Age(r) < HoldDays + Grace)
           Outcome(s) == IF s.code \in priced THEN "verified" ELSE "no_price"
           left       == [r \in Record |-> IF Stays(r) THEN Waiting[r] ELSE 0]
           gone       == [s \in Settled |-> IF ~Stays(Signal(s)) /\ s.status = Outcome(s)
                                             THEN Waiting[Signal(s)] ELSE 0]
<1>2. still' = [still EXCEPT ![p] = left] /\ newly' = [newly EXCEPT ![p] = gone]
  BY <1>1 DEF Split
<1>3. /\ pc[p] = "verify" /\ pc' = [pc EXCEPT ![p] = "truncP"]
      /\ UNCHANGED <<day, runs, pending, verified, recorded, overlap, killed>>
  BY <1>1 DEF Split, VerifyPending, Goto, past
<1>4. \A r \in Record : Waiting[r] \in Nat
  BY ListTypes
<1>5. left \in List(Record) /\ gone \in List(Settled)
  BY <1>4, SignalType DEF List
<1>6. /\ still' \in [Processes -> List(Record)] /\ newly' \in [Processes -> List(Settled)]
      /\ still'[p] = left /\ newly'[p] = gone
      /\ \A q \in Processes \ {p} : still'[q] = still[q] /\ newly'[q] = newly[q]
  <2> HIDE DEF left, gone
  <2> QED BY <1>2, <1>5 DEF TypeOK
<1>7. /\ HoldDays \in Nat /\ Grace \in Nat /\ day \in Nat
      /\ \A r \in Record : r.buy \in Nat /\ Age(r) \in Int
  BY TrackerAssumption DEF TypeOK, Days, Record, Grace, Age
<1>8. ASSUME NEW r \in Record
      PROVE  /\ left[r] <= Waiting[r]
             /\ left[r] > 0 => Age(r) < HoldDays + Grace
             /\ Waiting[r] > 0 => left[r] > 0 \/ \E s \in Settled : gone[s] > 0 /\ Signal(s) = r
  <2>1. left[r] <= Waiting[r]
    BY <1>4
  <2>2. left[r] > 0 => Age(r) < HoldDays + Grace
    BY <1>7
  <2>3. ASSUME Waiting[r] > 0, ~Stays(r)
        PROVE  \E s \in Settled : gone[s] > 0 /\ Signal(s) = r
    <3> DEFINE s == [code |-> r.code, buy |-> r.buy, status |-> Outcome(r)]
    <3>1. s \in Settled /\ Signal(s) = r /\ s.status = Outcome(s)
      BY DEF Settled, Record, Signal, Status
    <3> HIDE DEF s
    <3>2. gone[s] = Waiting[r]
      BY <2>3, <3>1
    <3> QED BY <2>3, <3>1, <3>2
  <2> QED BY <2>1, <2>2, <2>3
<1>9. ASSUME NEW s \in Settled
      PROVE  /\ gone[s] <= Waiting[Signal(s)]
             /\ gone[s] > 0 => left[Signal(s)] = 0 /\ Due(day, s)
             /\ \A t \in Settled : gone[s] > 0 /\ gone[t] > 0 /\ Signal(s) = Signal(t) => s = t
  <2>1. Signal(s) \in Record /\ Signal(s).code = s.code /\ Signal(s).buy = s.buy /\ s.buy \in Nat
    BY SignalType DEF Signal, Settled, Days
  <2>2. gone[s] <= Waiting[Signal(s)]
    BY <1>4, <2>1
  <2>3. gone[s] > 0 => ~Stays(Signal(s)) /\ s.status = Outcome(s)
    OBVIOUS
  <2>4. gone[s] > 0 => left[Signal(s)] = 0
    BY <2>1, <2>3
  <2>5. gone[s] > 0 => Due(day, s)
    BY <1>7, <2>1, <2>3 DEF Due, Age
  <2>6. ASSUME NEW t \in Settled, gone[s] > 0, gone[t] > 0, Signal(s) = Signal(t)
        PROVE  s = t
    <3>1. s.code = t.code /\ s.buy = t.buy
      BY <2>6 DEF Signal
    <3>2. s.status = Outcome(s) /\ t.status = Outcome(t)
      BY <2>6
    <3> QED BY <3>1, <3>2 DEF Settled
  <2> QED BY <2>2, <2>4, <2>5, <2>6
<1> HIDE DEF left, gone
<1> QED BY <1>3, <1>6, <1>8, <1>9

-----------------------------------------------------------------------------
(* The invariant holds initially *)

LEMMA InitFileInv ==
  ASSUME Init
  PROVE  FileInv
<1>1. /\ day = 0 /\ runs = 0 /\ pending = Empty(Record)
      /\ verified = [d \in Days |-> Empty(Settled)]
      /\ pc = [p \in Processes |-> "idle"]
      /\ still = [p \in Processes |-> Empty(Record)]
      /\ newly = [p \in Processes |-> Empty(Settled)]
      /\ recorded = {} /\ overlap = FALSE /\ killed = FALSE
  BY DEF Init
<1>2. /\ Empty(Record) \in List(Record) /\ Empty(Settled) \in List(Settled)
      /\ \A r \in Record : Empty(Record)[r] = 0
      /\ \A s \in Settled : Empty(Settled)[s] = 0
  BY EmptyList
<1>3. Waiting = Empty(Record) /\ \A d \in Days : SettledOn(d) = Empty(Settled)
  BY <1>1, <1>2, WrittenIsRead DEF Waiting, SettledOn
<1>4. TypeOK
  <2>1. day \in Days /\ runs \in 0..MaxRuns
    BY <1>1, TrackerAssumption DEF Days
  <2>2. pc \in [Processes -> Points]
    BY <1>1 DEF Points
  <2>3. pending \in List(Record) \cup {Torn} /\ verified \in [Days -> List(Settled) \cup {Torn}]
    BY <1>1, <1>2
  <2>4. still \in [Processes -> List(Record)] /\ newly \in [Processes -> List(Settled)]
    BY <1>1, <1>2
  <2> QED BY <1>1, <2>1, <2>2, <2>3, <2>4, Zenon DEF TypeOK
<1>5. ListInv /\ RestInv
  BY <1>1, <1>2, <1>3 DEF ListInv, RestInv
<1>6. DateInv
  BY <1>1, <1>2, <1>3 DEF DateInv
<1>7. AgeInv /\ AloneInv
  BY <1>1 DEF AgeInv, AloneInv
<1>8. OnceInv
  <2>1. FilesOnce
    BY <1>2, <1>3 DEF FilesOnce, NoneTwice
  <2>2. \A p \in Processes : HeldOnce(p)
    BY <1>1 DEF HeldOnce
  <2> QED BY <2>1, <2>2 DEF OnceInv
<1>9. KeptInv
  BY <1>1 DEF KeptInv
<1> QED BY <1>4, <1>5, <1>6, <1>7, <1>8, <1>9 DEF FileInv

-----------------------------------------------------------------------------
(* Every step preserves it *)

(* While p is in a run that no other overlaps, nobody else is in one: what *)
(* the invariant says of a process need be shown of p only.                *)
LEMMA OthersIdle ==
  ASSUME FileInv, NEW p \in Processes, pc[p] # "idle", ~overlap
  PROVE  \A q \in Processes \ {p} : pc[q] = "idle"
BY DEF FileInv, AloneInv

LEMMA OnlyMine ==
  ASSUME FileInv, NEW p \in Processes, pc[p] # "idle", NEW point,
         pc' = [pc EXCEPT ![p] = point], overlap' = overlap
  PROVE  /\ AloneInv'
         /\ (~overlap => FilesOnce' /\ HeldOnce(p)') => OnceInv'
         /\ (~overlap /\ ~killed' => \A r \in recorded' : Kept(p, r)') => KeptInv'
<1>1. pc \in [Processes -> Points]
  BY DEF FileInv, TypeOK
<1>2. pc'[p] = point /\ \A q \in Processes \ {p} : pc'[q] = pc[q]
  BY <1>1
<1>3. ~overlap => \A q \in Processes \ {p} : pc'[q] = "idle"
  BY <1>2, OthersIdle
<1>4. AloneInv'
  BY <1>3 DEF AloneInv
<1>5. ASSUME ~overlap => FilesOnce' /\ HeldOnce(p)'
      PROVE  OnceInv'
  <2>1. ~overlap => \A q \in Processes \ {p} : HeldOnce(q)'
    BY <1>3 DEF HeldOnce
  <2> QED BY <1>5, <2>1 DEF OnceInv
<1>6. ASSUME ~overlap /\ ~killed' => \A r \in recorded' : Kept(p, r)'
      PROVE  KeptInv'
  <2> SUFFICES ASSUME ~overlap', ~killed', NEW r \in recorded', NEW q \in Processes,
                      pc'[q] # "idle" \/ (\A x \in Processes : pc'[x] = "idle")
               PROVE  Kept(q, r)'
    BY DEF KeptInv
  <2>1. Kept(p, r)'
    BY <1>6
  <2>2. CASE q = p
    BY <2>1, <2>2
  <2>3. CASE q # p
    <3>1. pc'[q] = "idle" /\ pc'[p] = "idle"
      BY <1>3, <2>3
    <3> QED BY <2>1, <3>1 DEF Kept
  <2> QED BY <2>2, <2>3
<1> QED BY <1>4, <1>5, <1>6

(* What p knows before the step *)
LEMMA MineBefore ==
  ASSUME FileInv, NEW p \in Processes, pc[p] # "idle"
  PROVE  /\ ~overlap => FilesOnce /\ HeldOnce(p)
         /\ ~overlap /\ ~killed => \A r \in recorded : Kept(p, r)
BY DEF FileInv, OnceInv, KeptInv

(* The parts of the invariant in names *)
LEMMA Parts ==
  ASSUME FileInv
  PROVE  TypeOK /\ ListInv /\ RestInv /\ DateInv /\ AgeInv /\ AloneInv /\ OnceInv /\ KeptInv
BY DEF FileInv

LEMMA BeginStep ==
  ASSUME FileInv, NEW p \in Processes, Begin(p)
  PROVE  FileInv'
<1>1. /\ pc[p] = "idle" /\ runs < MaxRuns /\ runs' = runs + 1
      /\ pc' = [pc EXCEPT ![p] = "verify"]
      /\ overlap' = (overlap \/ \E q \in Processes : pc[q] # "idle")
      /\ UNCHANGED <<day, pending, verified, still, newly, recorded, killed>>
  BY DEF Begin, Goto, local
<1>2. /\ Waiting' = Waiting /\ \A d : SettledOn(d)' = SettledOn(d)
      /\ \A r, D : IsSettled(r, D)' <=> IsSettled(r, D)
  BY <1>1, FilesSame
<1>3. pc'[p] = "verify" /\ \A q \in Processes \ {p} : pc'[q] = pc[q]
  BY <1>1, Parts DEF TypeOK
<1>4. overlap \in BOOLEAN /\ (~overlap' => ~overlap /\ \A q \in Processes : pc[q] = "idle")
  BY <1>1, Parts DEF TypeOK
<1>5. TypeOK'
  <2>1. overlap' \in BOOLEAN
    BY <1>1, Zenon
  <2>2. runs' \in 0..MaxRuns
    BY <1>1, Parts, TrackerAssumption DEF TypeOK
  <2> QED BY <1>1, <2>1, <2>2, Parts DEF TypeOK, Points
<1>6. ListInv' /\ RestInv' /\ DateInv'
  BY <1>1, <1>2, <1>3, Parts DEF ListInv, RestInv, DateInv, Due
<1>7. AgeInv'
  BY <1>1, <1>3, Parts DEF AgeInv, Age
<1>8. AloneInv'
  BY <1>3, <1>4 DEF AloneInv
<1>9. OnceInv'
  <2>1. ~overlap' => FilesOnce'
    BY <1>2, <1>4, Parts DEF OnceInv, FilesOnce, NoneTwice
  <2>2. ~overlap' => \A q \in Processes : HeldOnce(q)'
    BY <1>3, <1>4 DEF HeldOnce
  <2> QED BY <2>1, <2>2 DEF OnceInv
<1>10. KeptInv'
  <2> SUFFICES ASSUME ~overlap', ~killed', NEW r \in recorded', NEW q \in Processes
               PROVE  Kept(q, r)'
    BY DEF KeptInv
  <2>1. Kept(q, r)
    BY <1>1, <1>4, Parts DEF KeptInv
  <2>2. Waiting[r] > 0 \/ IsSettled(r, Days)
    BY <1>4, <2>1 DEF Kept
  <2>3. pc'[q] \in {"idle", "verify"}
    BY <1>3, <1>4
  <2> QED BY <1>2, <2>2, <2>3 DEF Kept
<1> QED BY <1>5, <1>6, <1>7, <1>8, <1>9, <1>10 DEF FileInv

(* Steps that leave the files and the lists alone: without any price       *)
(* nothing is verified.                                                    *)
LEMMA VerifySkippedStep ==
  ASSUME FileInv, NEW p \in Processes, VerifySkipped(p)
  PROVE  FileInv'
<1>1. /\ pc[p] = "verify" /\ pc' = [pc EXCEPT ![p] = "record"]
      /\ UNCHANGED <<day, runs, pending, verified, still, newly, recorded, overlap, killed>>
  BY DEF VerifySkipped, Goto, local, past
<1>2. /\ Waiting' = Waiting /\ \A d : SettledOn(d)' = SettledOn(d)
      /\ \A r, D : IsSettled(r, D)' <=> IsSettled(r, D)
  BY <1>1, FilesSame
<1>3. pc'[p] = "record" /\ \A q \in Processes \ {p} : pc'[q] = pc[q]
  BY <1>1, Parts DEF TypeOK
<1>4. TypeOK'
  BY <1>1, Parts DEF TypeOK, Points
<1>5. ListInv' /\ RestInv' /\ DateInv'
  BY <1>1, <1>2, <1>3, Parts DEF ListInv, RestInv, DateInv, Due
<1>6. AgeInv'
  BY <1>1, <1>3, Parts DEF AgeInv, Age
<1>7. ~overlap => FilesOnce' /\ HeldOnce(p)'
  BY <1>1, <1>2, <1>3, MineBefore DEF FilesOnce, NoneTwice, HeldOnce
<1>8. ~overlap /\ ~killed' => \A r \in recorded' : Kept(p, r)'
  BY <1>1, <1>2, <1>3, MineBefore DEF Kept
<1> QED BY <1>1, <1>4, <1>5, <1>6, <1>7, <1>8, OnlyMine DEF FileInv

LEMMA VerifyPendingStep ==
  ASSUME FileInv, NEW p \in Processes, VerifyPending(p)
  PROVE  FileInv'
<1>0. TypeOK
  BY Parts
<1>1. /\ pc[p] = "verify" /\ pc' = [pc EXCEPT ![p] = "truncP"]
      /\ UNCHANGED <<day, runs, pending, verified, recorded, overlap, killed>>
      /\ still' \in [Processes -> List(Record)] /\ newly' \in [Processes -> List(Settled)]
      /\ \A q \in Processes \ {p} : still'[q] = still[q] /\ newly'[q] = newly[q]
  BY <1>0, SplitEffect
<1>2. \A r \in Record :
         /\ still'[p][r] <= Waiting[r]
         /\ still'[p][r] > 0 => Age(r) < HoldDays + Grace
         /\ Waiting[r] > 0 =>
               still'[p][r] > 0 \/ \E s \in Settled : newly'[p][s] > 0 /\ Signal(s) = r
  BY <1>0, SplitEffect
<1>3. \A s \in Settled :
         /\ newly'[p][s] <= Waiting[Signal(s)]
         /\ newly'[p][s] > 0 => still'[p][Signal(s)] = 0 /\ Due(day, s)
         /\ \A t \in Settled :
               newly'[p][s] > 0 /\ newly'[p][t] > 0 /\ Signal(s) = Signal(t) => s = t
  BY <1>0, SplitEffect
<1>4. /\ Waiting' = Waiting /\ \A d : SettledOn(d)' = SettledOn(d)
      /\ \A r, D : IsSettled(r, D)' <=> IsSettled(r, D)
  BY <1>1, FilesSame
<1>5. pc'[p] = "truncP" /\ \A q \in Processes \ {p} : pc'[q] = pc[q]
  BY <1>0, <1>1 DEF TypeOK
<1>6. TypeOK'
  BY <1>0, <1>1 DEF TypeOK, Points
<1>7. /\ \A r \in Record : Waiting[r] \in Nat /\ still'[p][r] \in Nat
      /\ \A s \in Settled : newly'[p][s] \in Nat /\ Signal(s) \in Record
      /\ \A d \in Days, s \in Settled : SettledOn(d)[s] \in Nat
  <2>1. still'[p] \in [Record -> Nat] /\ newly'[p] \in [Settled -> Nat]
    BY <1>1 DEF List
  <2> QED BY <1>0, <2>1, ListTypes, SignalType
<1>8. ListInv'
  <2>1. \A r \in Record : still'[p][r] <= 1
    BY <1>2, <1>7, Parts DEF ListInv
  <2> QED BY <1>1, <1>4, <2>1, Parts DEF ListInv
<1>9. RestInv'
  BY <1>1, <1>5, Parts DEF RestInv
<1>10. DateInv'
  BY <1>1, <1>3, <1>4, Parts DEF DateInv, Due
<1>11. AgeInv'
  BY <1>1, <1>2, <1>5, Parts DEF AgeInv, Age
<1>12. ~overlap => FilesOnce' /\ HeldOnce(p)'
  <2> SUFFICES ASSUME ~overlap
               PROVE  FilesOnce' /\ HeldOnce(p)'
    OBVIOUS
  <2>1. FilesOnce
    BY <1>1, MineBefore
  <2>2. FilesOnce'
    BY <1>1, <1>4, <2>1 DEF FilesOnce, NoneTwice
  <2>3. \A r \in Record : Waiting[r] > 0 => ~IsSettled(r, Days)
    BY <1>7, <2>1 DEF FilesOnce, IsSettled
  <2>4. NoneTwice(newly'[p])
    BY <1>3, <1>7, Parts DEF NoneTwice, ListInv
  <2>5. \A s \in Settled : newly'[p][s] > 0 =>
            ~IsSettled(Signal(s), Days) /\ still'[p][Signal(s)] = 0
    BY <1>3, <1>7, <2>3
  <2>6. \A r \in Record : still'[p][r] > 0 => ~IsSettled(r, Days)
    BY <1>2, <1>7, <2>3
  <2>7. NoneTwice(newly[p])'
    BY <2>4 DEF NoneTwice
  <2>8. HeldOnce(p)'
    BY <1>1, <1>4, <1>5, <2>5, <2>6, <2>7 DEF HeldOnce
  <2> QED BY <2>2, <2>8
<1>13. ~overlap /\ ~killed' => \A r \in recorded' : Kept(p, r)'
  <2> SUFFICES ASSUME ~overlap, ~killed', NEW r \in recorded'
               PROVE  Kept(p, r)'
    OBVIOUS
  <2>1. r \in Record
    BY <1>0, <1>1 DEF TypeOK
  <2>2. Waiting[r] > 0 \/ IsSettled(r, Days)
    BY <1>1, MineBefore DEF Kept
  <2> QED BY <1>2, <1>4, <1>5, <2>1, <2>2 DEF Kept, Moving
<1> QED BY <1>1, <1>6, <1>8, <1>9, <1>10, <1>11, <1>12, <1>13, OnlyMine DEF FileInv

(* Opening pending.json empties it: its signals are in the lists of p *)
LEMMA TruncateStep ==
  ASSUME FileInv, NEW p \in Processes, TruncatePending(p) \/ TruncateForRecord(p)
  PROVE  FileInv'
<1>0. TypeOK
  BY Parts
<1> DEFINE point == IF pc[p] = "truncP" THEN "writeP" ELSE "writeR"
<1>1. /\ pc[p] \in {"truncP", "truncR"} /\ pc' = [pc EXCEPT ![p] = point]
      /\ pending' = Torn
      /\ UNCHANGED <<day, runs, verified, still, newly, recorded, overlap, killed>>
  BY DEF TruncatePending, TruncateForRecord, Goto, local, past
<1>2. Waiting' = Empty(Record)
  BY <1>1, TornIsEmpty DEF Waiting
<1>3. /\ \A d : SettledOn(d)' = SettledOn(d)
      /\ \A r, D : IsSettled(r, D)' <=> IsSettled(r, D)
  BY <1>1, FilesSame
<1>4. pc'[p] = point /\ \A q \in Processes \ {p} : pc'[q] = pc[q]
  BY <1>0, <1>1 DEF TypeOK
<1>5. TypeOK'
  BY <1>0, <1>1 DEF TypeOK, Points
<1>6. /\ \A r \in Record : Waiting'[r] = 0
      /\ \A s \in Settled : Signal(s) \in Record
  BY <1>2, EmptyList, SignalType
<1>7. ListInv' /\ RestInv' /\ DateInv'
  BY <1>1, <1>3, <1>4, <1>6, Parts DEF ListInv, RestInv, DateInv, Due
<1>8. AgeInv'
  BY <1>1, <1>4, Parts DEF AgeInv, Age
<1>9. ~overlap => FilesOnce' /\ HeldOnce(p)'
  <2>1. ~overlap => FilesOnce'
    BY <1>1, <1>3, <1>6, MineBefore DEF FilesOnce, NoneTwice
  <2>2. ~overlap => HeldOnce(p)'
    BY <1>1, <1>3, <1>4, MineBefore DEF HeldOnce, NoneTwice
  <2> QED BY <2>1, <2>2
<1>10. ~overlap /\ ~killed' => \A r \in recorded' : Kept(p, r)'
  BY <1>1, <1>3, <1>4, MineBefore DEF Kept, Moving
<1> QED BY <1>1, <1>5, <1>7, <1>8, <1>9, <1>10, OnlyMine DEF FileInv

LEMMA WritePendingStep ==
  ASSUME FileInv, NEW p \in Processes, WritePending(p)
  PROVE  FileInv'
<1>0. TypeOK
  BY Parts
<1> DEFINE point == IF newly[p] = Empty(Settled) THEN "record" ELSE "loadV"
<1>1. /\ pc[p] = "writeP" /\ pc' = [pc EXCEPT ![p] = point]
      /\ pending' = still[p]
      /\ UNCHANGED <<day, runs, verified, still, newly, recorded, overlap, killed>>
  BY DEF WritePending, Goto, local, past
<1>2. still[p] \in List(Record) /\ Waiting' = still[p]
  BY <1>0, <1>1, WrittenIsRead DEF TypeOK, Waiting
<1>3. /\ \A d : SettledOn(d)' = SettledOn(d)
      /\ \A r, D : IsSettled(r, D)' <=> IsSettled(r, D)
  BY <1>1, FilesSame
<1>4. pc'[p] = point /\ \A q \in Processes \ {p} : pc'[q] = pc[q]
  BY <1>0, <1>1 DEF TypeOK
<1>5. TypeOK'
  BY <1>0, <1>1, <1>2 DEF TypeOK, Points
<1>6. /\ \A s \in Settled : Signal(s) \in Record
      /\ \A r \in Record : still[p][r] \in Nat
      /\ \A d \in Days, s \in Settled : SettledOn(d)[s] \in Nat
  BY <1>0, ListTypes, SignalType
<1>7. ListInv' /\ RestInv' /\ DateInv'
  BY <1>1, <1>2, <1>3, <1>4, Parts DEF ListInv, RestInv, DateInv, Due
<1>8. AgeInv'
  BY <1>1, <1>4, Parts DEF AgeInv, Age
<1>9. ~overlap => FilesOnce' /\ HeldOnce(p)'
  <2> SUFFICES ASSUME ~overlap
               PROVE  FilesOnce' /\ HeldOnce(p)'
    OBVIOUS
  <2>1. FilesOnce /\ HeldOnce(p)
    BY <1>1, MineBefore
  <2>2. \A d \in Days, s \in Settled : SettledOn(d)[s] > 0 => still[p][Signal(s)] = 0
    BY <1>1, <1>6, <2>1 DEF HeldOnce, IsSettled
  <2>3. FilesOnce'
    BY <1>2, <1>3, <2>1, <2>2 DEF FilesOnce, NoneTwice
  <2>4. HeldOnce(p)'
    BY <1>1, <1>2, <1>3, <1>4, <2>1 DEF HeldOnce, NoneTwice
  <2> QED BY <2>3, <2>4
<1>10. ~overlap /\ ~killed' => \A r \in recorded' : Kept(p, r)'
  <2> SUFFICES ASSUME ~overlap, ~killed', NEW r \in recorded'
               PROVE  Kept(p, r)'
    OBVIOUS
  <2>1. still[p][r] > 0 \/ Moving(p, r) \/ IsSettled(r, Days)
    BY <1>1, MineBefore DEF Kept
  <2>2. point = "record" => ~Moving(p, r)
    BY EmptyList DEF Moving
  <2>3. Moving(p, r)' <=> Moving(p, r)
    BY <1>1 DEF Moving
  <2> QED BY <1>2, <1>3, <1>4, <2>1, <2>2, <2>3 DEF Kept
<1> QED BY <1>1, <1>5, <1>7, <1>8, <1>9, <1>10, OnlyMine DEF FileInv

(* _save_verified loads today's file into the list of p, which counts for  *)
(* it from then on.                                                        *)
LEMMA LoadVerifiedStep ==
  ASSUME FileInv, NEW p \in Processes, LoadVerified(p)
  PROVE  FileInv'
<1>0. TypeOK /\ day \in Days
  BY Parts DEF TypeOK
<1>1. /\ pc[p] = "loadV" /\ pc' = [pc EXCEPT ![p] = "truncV"]
      /\ newly' = [newly EXCEPT ![p] = WithToday(p)]
      /\ UNCHANGED <<day, runs, pending, verified, still, recorded, overlap, killed>>
  BY DEF LoadVerified, Goto, past
<1>2. /\ Waiting' = Waiting /\ \A d : SettledOn(d)' = SettledOn(d)
      /\ \A r, D : IsSettled(r, D)' <=> IsSettled(r, D)
  BY <1>1, FilesSame
<1>3. pc'[p] = "truncV" /\ \A q \in Processes \ {p} : pc'[q] = pc[q]
  BY <1>0, <1>1 DEF TypeOK
<1>4. /\ \A s \in Settled : Signal(s) \in Record
      /\ \A r \in Record : Waiting[r] \in Nat
      /\ \A s \in Settled : newly[p][s] \in Nat
      /\ \A d \in Days, s \in Settled : SettledOn(d)[s] \in Nat
  BY <1>0, ListTypes, SignalType
<1>5. /\ WithToday(p) \in List(Settled)
      /\ \A s \in Settled : WithToday(p)[s] = SettledOn(day)[s] + newly[p][s]
  BY <1>0, <1>4 DEF WithToday, List
<1>6. /\ newly' \in [Processes -> List(Settled)] /\ newly'[p] = WithToday(p)
      /\ \A q \in Processes \ {p} : newly'[q] = newly[q]
  BY <1>0, <1>1, <1>5 DEF TypeOK
<1>7. TypeOK'
  BY <1>0, <1>1, <1>6 DEF TypeOK, Points
<1>8. \A s \in Settled :
         /\ newly'[p][s] = SettledOn(day)[s] + newly[p][s]
         /\ newly'[p][s] > 0 <=> SettledOn(day)[s] > 0 \/ newly[p][s] > 0
  BY <1>0, <1>4, <1>5, <1>6
<1>9. ListInv' /\ RestInv'
  BY <1>1, <1>2, <1>3, <1>6, Parts DEF ListInv, RestInv
<1>10. DateInv'
  <2>1. \A s \in Settled : newly'[p][s] > 0 => Due(day, s)
    BY <1>0, <1>8, Parts DEF DateInv
  <2> QED BY <1>1, <1>2, <1>6, <2>1, Parts DEF DateInv, Due
<1>11. AgeInv'
  BY <1>1, <1>3, Parts DEF AgeInv, Age
<1>12. ~overlap => FilesOnce' /\ HeldOnce(p)'
  <2> SUFFICES ASSUME ~overlap
               PROVE  FilesOnce' /\ HeldOnce(p)'
    OBVIOUS
  <2>1. FilesOnce /\ HeldOnce(p)
    BY <1>1, MineBefore
  <2>2. FilesOnce'
    BY <1>2, <2>1 DEF FilesOnce, NoneTwice
  <2>3. NoneTwice(newly[p]) /\ NoneTwice(SettledOn(day))
    BY <1>0, <1>1, <2>1 DEF HeldOnce, FilesOnce
  <2>4. \A s, t \in Settled : newly[p][s] > 0 /\ SettledOn(day)[t] > 0 => Signal(s) # Signal(t)
    BY <1>0, <1>1, <2>1 DEF HeldOnce, IsSettled
  <2>5. \A s \in Settled : newly'[p][s] <= 1
    BY <1>0, <1>4, <1>8, <2>3, <2>4 DEF NoneTwice
  <2>6. \A s, t \in Settled :
            newly'[p][s] > 0 /\ newly'[p][t] > 0 /\ Signal(s) = Signal(t) => s = t
    BY <1>8, <2>3, <2>4 DEF NoneTwice
  <2>7. NoneTwice(newly[p])'
    BY <2>5, <2>6 DEF NoneTwice
  <2>8. \A s \in Settled : newly'[p][s] > 0 =>
            Waiting[Signal(s)] = 0 /\ ~IsSettled(Signal(s), Days \ {day})
    <3> SUFFICES ASSUME NEW s \in Settled, newly'[p][s] > 0
                 PROVE  Waiting[Signal(s)] = 0 /\ ~IsSettled(Signal(s), Days \ {day})
      OBVIOUS
    <3>1. CASE SettledOn(day)[s] > 0
      BY <1>0, <2>1, <3>1 DEF FilesOnce
    <3>2. CASE newly[p][s] > 0
      BY <1>1, <2>1, <3>2 DEF HeldOnce, IsSettled
    <3> QED BY <1>8, <3>1, <3>2
  <2>9. HeldOnce(p)'
    BY <1>1, <1>2, <1>3, <2>7, <2>8 DEF HeldOnce
  <2> QED BY <2>2, <2>9
<1>13. ~overlap /\ ~killed' => \A r \in recorded' : Kept(p, r)'
  <2> SUFFICES ASSUME ~overlap, ~killed', NEW r \in recorded'
               PROVE  Kept(p, r)'
    OBVIOUS
  <2>1. Waiting[r] > 0 \/ Moving(p, r) \/ IsSettled(r, Days)
    BY <1>1, MineBefore DEF Kept
  <2>2. Moving(p, r) => Moving(p, r)'
    BY <1>8 DEF Moving
  <2>3. IsSettled(r, Days) => IsSettled(r, Days \ {day}) \/ Moving(p, r)'
    BY <1>8 DEF Moving, IsSettled
  <2> QED BY <1>1, <1>2, <1>3, <2>1, <2>2, <2>3 DEF Kept
<1> QED BY <1>1, <1>7, <1>9, <1>10, <1>11, <1>12, <1>13, OnlyMine DEF FileInv


(* Only today's file changes *)
LEMMA TodayOnly ==
  ASSUME TypeOK, NEW file, verified' = [verified EXCEPT ![day] = file], day' = day
  PROVE  /\ \A d \in Days : d = day => SettledOn(d)' = Load(file, Settled)
         /\ \A d \in Days : d # day => SettledOn(d)' = SettledOn(d)
         /\ \A r : IsSettled(r, Days \ {day})' <=> IsSettled(r, Days \ {day})
<1>1. \A d \in Days : verified'[d] = IF d = day THEN file ELSE verified[d]
  BY DEF TypeOK
<1>2. \A d \in Days : d = day => SettledOn(d)' = Load(file, Settled)
  BY <1>1 DEF SettledOn, Load
<1>3. \A d \in Days : d # day => SettledOn(d)' = SettledOn(d)
  BY <1>1 DEF SettledOn, Load
<1>4. \A r : IsSettled(r, Days \ {day})' <=> IsSettled(r, Days \ {day})
  BY <1>3 DEF IsSettled
<1> QED BY <1>2, <1>3, <1>4

LEMMA TruncateVerifiedStep ==
  ASSUME FileInv, NEW p \in Processes, TruncateVerified(p)
  PROVE  FileInv'
<1>0. TypeOK /\ day \in Days
  BY Parts DEF TypeOK
<1>1. /\ pc[p] = "truncV" /\ pc' = [pc EXCEPT ![p] = "writeV"]
      /\ verified' = [verified EXCEPT ![day] = Torn]
      /\ UNCHANGED <<day, runs, pending, still, newly, recorded, overlap, killed>>
  BY DEF TruncateVerified, Goto, local, past
<1>2. /\ Waiting' = Waiting
      /\ \A d \in Days : d = day => SettledOn(d)' = Empty(Settled)
      /\ \A d \in Days : d # day => SettledOn(d)' = SettledOn(d)
      /\ \A r : IsSettled(r, Days \ {day})' <=> IsSettled(r, Days \ {day})
  BY <1>0, <1>1, FilesSame, TodayOnly, TornIsEmpty
<1>3. pc'[p] = "writeV" /\ \A q \in Processes \ {p} : pc'[q] = pc[q]
  BY <1>0, <1>1 DEF TypeOK
<1>4. TypeOK'
  BY <1>0, <1>1 DEF TypeOK, Points
<1>5. \A d \in Days, s \in Settled :
         SettledOn(d)'[s] > 0 => d # day /\ SettledOn(d)[s] > 0 /\ SettledOn(d)' = SettledOn(d)
  BY <1>2, EmptyList
<1>6. ListInv' /\ RestInv'
  BY <1>1, <1>2, <1>3, Parts DEF ListInv, RestInv
<1>7. DateInv'
  BY <1>1, <1>5, Parts DEF DateInv, Due
<1>8. AgeInv'
  BY <1>1, <1>3, Parts DEF AgeInv, Age
<1>9. ~overlap => FilesOnce' /\ HeldOnce(p)'
  <2> SUFFICES ASSUME ~overlap
               PROVE  FilesOnce' /\ HeldOnce(p)'
    OBVIOUS
  <2>1. FilesOnce /\ HeldOnce(p)
    BY <1>1, MineBefore
  <2>2. \A d \in Days : NoneTwice(SettledOn(d))'
    <3> SUFFICES ASSUME NEW d \in Days
                 PROVE  NoneTwice(SettledOn(d))'
      OBVIOUS
    <3>1. CASE d = day
      BY <1>2, <3>1, EmptyList DEF NoneTwice
    <3>2. CASE d # day
      BY <1>2, <2>1, <3>2 DEF FilesOnce, NoneTwice
    <3> QED BY <3>1, <3>2
  <2>3. \A d \in Days : \A r : IsSettled(r, Days \ {d})' => IsSettled(r, Days \ {d})
    BY <1>5 DEF IsSettled
  <2>4. FilesOnce'
    BY <1>2, <1>5, <2>1, <2>2, <2>3 DEF FilesOnce
  <2>5. HeldOnce(p)'
    BY <1>1, <1>2, <1>3, <2>1 DEF HeldOnce, NoneTwice
  <2> QED BY <2>4, <2>5
<1>10. ~overlap /\ ~killed' => \A r \in recorded' : Kept(p, r)'
  BY <1>1, <1>2, <1>3, MineBefore DEF Kept, Moving
<1> QED BY <1>1, <1>4, <1>6, <1>7, <1>8, <1>9, <1>10, OnlyMine DEF FileInv

LEMMA WriteVerifiedStep ==
  ASSUME FileInv, NEW p \in Processes, WriteVerified(p)
  PROVE  FileInv'
<1>0. TypeOK /\ day \in Days /\ newly[p] \in List(Settled)
  BY Parts DEF TypeOK
<1>1. /\ pc[p] = "writeV" /\ pc' = [pc EXCEPT ![p] = "record"]
      /\ verified' = [verified EXCEPT ![day] = newly[p]]
      /\ UNCHANGED <<day, runs, pending, still, newly, recorded, overlap, killed>>
  BY DEF WriteVerified, Goto, local, past
<1>2. /\ Waiting' = Waiting
      /\ \A d \in Days : d = day => SettledOn(d)' = newly[p]
      /\ \A d \in Days : d # day => SettledOn(d)' = SettledOn(d)
      /\ \A r : IsSettled(r, Days \ {day})' <=> IsSettled(r, Days \ {day})
  BY <1>0, <1>1, FilesSame, TodayOnly, WrittenIsRead
<1>3. pc'[p] = "record" /\ \A q \in Processes \ {p} : pc'[q] = pc[q]
  BY <1>0, <1>1 DEF TypeOK
<1>4. TypeOK'
  BY <1>0, <1>1 DEF TypeOK, Points
<1>5. ListInv' /\ RestInv'
  BY <1>1, <1>2, <1>3, Parts DEF ListInv, RestInv
<1>6. DateInv'
  <2>1. \A d \in Days, s \in Settled : SettledOn(d)'[s] > 0 => d <= day /\ Due(d, s)
    <3> SUFFICES ASSUME NEW d \in Days, NEW s \in Settled, SettledOn(d)'[s] > 0
                 PROVE  d <= day /\ Due(d, s)
      OBVIOUS
    <3>1. CASE d = day
      BY <1>0, <1>2, <3>1, Parts DEF DateInv, Days
    <3>2. CASE d # day
      BY <1>2, <3>2, Parts DEF DateInv
    <3> QED BY <3>1, <3>2
  <2> QED BY <1>1, <2>1, Parts DEF DateInv, Due
<1>7. AgeInv'
  BY <1>1, <1>3, Parts DEF AgeInv, Age
<1>8. ~overlap => FilesOnce' /\ HeldOnce(p)'
  <2> SUFFICES ASSUME ~overlap
               PROVE  FilesOnce' /\ HeldOnce(p)'
    OBVIOUS
  <2>1. FilesOnce
    BY <1>1, MineBefore
  <2>2. /\ NoneTwice(newly[p])
        /\ \A s \in Settled : newly[p][s] > 0 =>
              Waiting[Signal(s)] = 0 /\ ~IsSettled(Signal(s), Days \ {day})
    BY <1>1, MineBefore DEF HeldOnce
  <2>3. \A d \in Days : NoneTwice(SettledOn(d))'
    <3> SUFFICES ASSUME NEW d \in Days
                 PROVE  NoneTwice(SettledOn(d))'
      OBVIOUS
    <3>1. CASE d = day
      BY <1>2, <2>2, <3>1 DEF NoneTwice
    <3>2. CASE d # day
      BY <1>2, <2>1, <3>2 DEF FilesOnce, NoneTwice
    <3> QED BY <3>1, <3>2
  <2>4. ASSUME NEW d \in Days, NEW s \in Settled, SettledOn(d)'[s] > 0
        PROVE  ~IsSettled(Signal(s), Days \ {d})' /\ Waiting'[Signal(s)] = 0
    <3>1. CASE d = day
      <4>1. Waiting'[Signal(s)] = 0 /\ ~IsSettled(Signal(s), Days \ {day})
        BY <1>2, <2>2, <2>4, <3>1
      <4>2. \A e \in Days \ {day}, t \in Settled :
                SettledOn(e)'[t] > 0 => Signal(t) # Signal(s)
        BY <1>2, <4>1 DEF IsSettled
      <4> QED BY <3>1, <4>1, <4>2 DEF IsSettled
    <3>2. CASE d # day
      <4>1. SettledOn(d)[s] > 0 /\ d \in Days \ {day}
        BY <1>2, <2>4, <3>2
      <4>2. \A t \in Settled : newly[p][t] > 0 => Signal(t) # Signal(s)
        BY <2>2, <4>1 DEF IsSettled
      <4>3. ~IsSettled(Signal(s), Days \ {d})
        BY <2>1, <4>1 DEF FilesOnce
      <4>4. ~IsSettled(Signal(s), Days \ {d})'
        <5> SUFFICES ASSUME NEW e \in Days \ {d}, NEW t \in Settled,
                            SettledOn(e)'[t] > 0, Signal(t) = Signal(s)
                     PROVE  FALSE
          BY DEF IsSettled
        <5>1. e # day
          BY <1>2, <4>2
        <5> QED BY <1>2, <4>3, <5>1 DEF IsSettled
      <4> QED BY <1>2, <2>1, <4>1, <4>4 DEF FilesOnce
    <3> QED BY <3>1, <3>2
  <2>5. FilesOnce'
    BY <2>3, <2>4 DEF FilesOnce
  <2>6. HeldOnce(p)'
    BY <1>3 DEF HeldOnce
  <2> QED BY <2>5, <2>6
<1>9. ~overlap /\ ~killed' => \A r \in recorded' : Kept(p, r)'
  <2> SUFFICES ASSUME ~overlap, ~killed', NEW r \in recorded'
               PROVE  Kept(p, r)'
    OBVIOUS
  <2>1. Waiting[r] > 0 \/ Moving(p, r) \/ IsSettled(r, Days \ {day})
    BY <1>1, MineBefore DEF Kept
  <2>2. Moving(p, r) => IsSettled(r, Days)'
    BY <1>0, <1>2 DEF Moving, IsSettled
  <2>3. IsSettled(r, Days \ {day}) => IsSettled(r, Days)'
    BY <1>2 DEF IsSettled
  <2> QED BY <1>2, <1>3, <2>1, <2>2, <2>3 DEF Kept
<1> QED BY <1>1, <1>4, <1>5, <1>6, <1>7, <1>8, <1>9, OnlyMine DEF FileInv

(* A run ends, or is killed: its lists are gone, the files stay *)
LEMMA EndStep ==
  ASSUME FileInv, NEW p \in Processes, RecordSkipped(p) \/ Crash(p)
  PROVE  FileInv'
<1>0. TypeOK
  BY Parts
<1>1. /\ pc[p] # "idle" /\ pc' = [pc EXCEPT ![p] = "idle"]
      /\ still' = [still EXCEPT ![p] = Empty(Record)]
      /\ newly' = [newly EXCEPT ![p] = Empty(Settled)]
      /\ UNCHANGED <<day, runs, pending, verified, recorded, overlap>>
      /\ killed' = TRUE \/ (killed' = killed /\ pc[p] = "record")
  BY DEF RecordSkipped, Crash, End, Goto, past
<1>2. /\ Waiting' = Waiting /\ \A d : SettledOn(d)' = SettledOn(d)
      /\ \A r, D : IsSettled(r, D)' <=> IsSettled(r, D)
  BY <1>1, FilesSame
<1>3. /\ pc'[p] = "idle" /\ still'[p] = Empty(Record) /\ newly'[p] = Empty(Settled)
      /\ \A q \in Processes \ {p} :
            pc'[q] = pc[q] /\ still'[q] = still[q] /\ newly'[q] = newly[q]
  BY <1>0, <1>1 DEF TypeOK
<1>4. TypeOK'
  <2>1. still' \in [Processes -> List(Record)] /\ newly' \in [Processes -> List(Settled)]
    BY <1>0, <1>1, EmptyList DEF TypeOK
  <2>2. killed' \in BOOLEAN
    BY <1>0, <1>1, Zenon DEF TypeOK
  <2> QED BY <1>0, <1>1, <2>1, <2>2 DEF TypeOK, Points
<1>5. /\ \A r \in Record : still'[p][r] = 0
      /\ \A s \in Settled : newly'[p][s] = 0
  BY <1>3, EmptyList
<1>6. ListInv' /\ RestInv' /\ DateInv'
  BY <1>1, <1>2, <1>3, <1>5, Parts DEF ListInv, RestInv, DateInv, Due
<1>7. AgeInv'
  BY <1>1, <1>3, Parts DEF AgeInv, Age
<1>8. ~overlap => FilesOnce' /\ HeldOnce(p)'
  BY <1>1, <1>2, <1>3, MineBefore DEF FilesOnce, NoneTwice, HeldOnce
<1>9. ~overlap /\ ~killed' => \A r \in recorded' : Kept(p, r)'
  BY <1>1, <1>2, <1>3, MineBefore DEF Kept
<1> QED BY <1>1, <1>4, <1>6, <1>7, <1>8, <1>9, OnlyMine DEF FileInv

(* What is recorded today was not waiting and cannot have been settled:    *)
(* hold_days is at least one.                                              *)
LEMMA RecordStep ==
  ASSUME FileInv, NEW p \in Processes, RecordTodaySignals(p)
  PROVE  FileInv'
<1>0. TypeOK
  BY Parts
<1>1. PICK signals \in SUBSET Codes : Extend(p, signals)
  BY DEF RecordTodaySignals
<1>2. /\ pc[p] = "record" /\ pc' = [pc EXCEPT ![p] = "truncR"]
      /\ \A r \in Elements(Waiting) : r.buy # day
      /\ UNCHANGED <<day, runs, pending, verified, newly, recorded, overlap, killed>>
  BY DEF RecordTodaySignals, Goto, past
<1>3. /\ Waiting' = Waiting /\ \A d : SettledOn(d)' = SettledOn(d)
      /\ \A r, D : IsSettled(r, D)' <=> IsSettled(r, D)
  BY <1>2, FilesSame
<1>4. pc'[p] = "truncR" /\ \A q \in Processes \ {p} : pc'[q] = pc[q]
  BY <1>0, <1>2 DEF TypeOK
<1>5. Waiting \in [Record -> Nat] /\ \A r \in Record : Waiting[r] \in Nat
  BY <1>0, LoadType DEF List
<1>6. /\ still' \in [Processes -> List(Record)]
      /\ \A q \in Processes \ {p} : still'[q] = still[q]
      /\ \A r \in Record :
            still'[p][r] = Waiting[r] + (IF r.buy = day /\ r.code \in signals THEN 1 ELSE 0)
  <2> DEFINE list == [r \in Record |->
                 Waiting[r] + (IF r.buy = day /\ r.code \in signals THEN 1 ELSE 0)]
  <2>1. list \in List(Record)
    BY <1>5 DEF List
  <2>2. still' = [still EXCEPT ![p] = list]
    BY <1>1 DEF Extend
  <2>3. \A r \in Record :
            list[r] = Waiting[r] + (IF r.buy = day /\ r.code \in signals THEN 1 ELSE 0)
    OBVIOUS
  <2> HIDE DEF list
  <2>4. /\ still' \in [Processes -> List(Record)] /\ still'[p] = list
        /\ \A q \in Processes \ {p} : still'[q] = still[q]
    BY <1>0, <2>1, <2>2 DEF TypeOK
  <2> QED BY <2>3, <2>4
<1>7. \A r \in Record : r.buy = day => Waiting[r] = 0
  BY <1>2, <1>5 DEF Elements
<1>8. \A r \in Record : Waiting[r] > 0 => still'[p][r] > 0
  BY <1>5, <1>6
<1>9. \A r \in Record : still'[p][r] > 0 => Waiting[r] > 0 \/ r.buy = day
  BY <1>5, <1>6
<1>10. TypeOK'
  BY <1>0, <1>2, <1>6 DEF TypeOK, Points
<1>11. ListInv'
  <2>1. \A r \in Record : still'[p][r] <= 1
    BY <1>5, <1>6, <1>7, Parts DEF ListInv
  <2> QED BY <1>3, <1>6, <2>1, Parts DEF ListInv
<1>12. RestInv' /\ DateInv'
  BY <1>2, <1>3, <1>4, <1>6, Parts DEF RestInv, DateInv, Due
<1>13. AgeInv'
  BY <1>2, <1>4, <1>6, Parts DEF AgeInv, Age
<1>14. \A r \in Record : r.buy = day => ~IsSettled(r, Days)
  <2> SUFFICES ASSUME NEW d \in Days, NEW s \in Settled, SettledOn(d)[s] > 0
               PROVE  Signal(s).buy # day
    BY DEF IsSettled
  <2>1. Signal(s).buy = s.buy /\ s.buy \in Nat /\ d \in Nat /\ day \in Nat
    BY <1>0 DEF TypeOK, Signal, Settled, Days
  <2>2. d <= day /\ d - s.buy >= (IF s.status = "verified" THEN HoldDays ELSE HoldDays + Grace)
    BY Parts DEF DateInv, Due
  <2> QED BY <2>1, <2>2, TrackerAssumption DEF Grace
<1>15. ~overlap => FilesOnce' /\ HeldOnce(p)'
  <2> SUFFICES ASSUME ~overlap
               PROVE  FilesOnce' /\ HeldOnce(p)'
    OBVIOUS
  <2>1. FilesOnce
    BY <1>2, MineBefore
  <2>2. FilesOnce'
    BY <1>3, <2>1 DEF FilesOnce, NoneTwice
  <2>3. \A r \in Record : Waiting[r] > 0 => ~IsSettled(r, Days)
    BY <1>5, <2>1 DEF FilesOnce, IsSettled
  <2>4. \A r \in Record : still'[p][r] > 0 => ~IsSettled(r, Days)
    BY <1>9, <1>14, <2>3
  <2>5. HeldOnce(p)'
    BY <1>3, <1>4, <2>4 DEF HeldOnce
  <2> QED BY <2>2, <2>5
<1>16. ~overlap /\ ~killed' => \A r \in recorded' : Kept(p, r)'
  <2> SUFFICES ASSUME ~overlap, ~killed', NEW r \in recorded'
               PROVE  Kept(p, r)'
    OBVIOUS
  <2>1. Waiting[r] > 0 \/ IsSettled(r, Days)
    BY <1>2, MineBefore DEF Kept
  <2>2. r \in Record
    BY <1>0, <1>2 DEF TypeOK
  <2> QED BY <1>3, <1>4, <1>8, <2>1, <2>2 DEF Kept
<1> QED BY <1>2, <1>10, <1>11, <1>12, <1>13, <1>15, <1>16, OnlyMine DEF FileInv

LEMMA WriteRecordStep ==
  ASSUME FileInv, NEW p \in Processes, WriteRecord(p)
  PROVE  FileInv'
<1>0. TypeOK /\ still[p] \in List(Record)
  BY Parts DEF TypeOK
<1>1. /\ pc[p] = "writeR" /\ pc' = [pc EXCEPT ![p] = "idle"]
      /\ pending' = still[p] /\ recorded' = recorded \cup Elements(still[p])
      /\ still' = [still EXCEPT ![p] = Empty(Record)]
      /\ newly' = [newly EXCEPT ![p] = Empty(Settled)]
      /\ UNCHANGED <<day, runs, verified, overlap, killed>>
  BY DEF WriteRecord, End, Goto
<1>2. Waiting' = still[p]
  BY <1>0, <1>1, WrittenIsRead DEF Waiting
<1>3. /\ \A d : SettledOn(d)' = SettledOn(d)
      /\ \A r, D : IsSettled(r, D)' <=> IsSettled(r, D)
  BY <1>1, FilesSame
<1>4. /\ pc'[p] = "idle" /\ still'[p] = Empty(Record) /\ newly'[p] = Empty(Settled)
      /\ \A q \in Processes \ {p} :
            pc'[q] = pc[q] /\ still'[q] = still[q] /\ newly'[q] = newly[q]
  BY <1>0, <1>1 DEF TypeOK
<1>5. Elements(still[p]) \subseteq Record /\ \A r \in Elements(still[p]) : still[p][r] > 0
  BY <1>0 DEF Elements, List
<1>6. TypeOK'
  <2>1. still' \in [Processes -> List(Record)] /\ newly' \in [Processes -> List(Settled)]
    BY <1>0, <1>1, EmptyList DEF TypeOK
  <2> QED BY <1>0, <1>1, <1>5, <2>1 DEF TypeOK, Points
<1>7. /\ \A r \in Record : still'[p][r] = 0 /\ still[p][r] \in Nat
      /\ \A s \in Settled : newly'[p][s] = 0 /\ Signal(s) \in Record
  BY <1>0, <1>4, EmptyList, SignalType, ListTypes
<1>8. ListInv' /\ RestInv' /\ DateInv'
  BY <1>1, <1>2, <1>3, <1>4, <1>7, Parts DEF ListInv, RestInv, DateInv, Due
<1>9. AgeInv'
  BY <1>1, <1>4, Parts DEF AgeInv, Age
<1>10. ~overlap => FilesOnce' /\ HeldOnce(p)'
  <2> SUFFICES ASSUME ~overlap
               PROVE  FilesOnce' /\ HeldOnce(p)'
    OBVIOUS
  <2>1. FilesOnce /\ HeldOnce(p)
    BY <1>1, MineBefore
  <2>2. \A d \in Days, s \in Settled : SettledOn(d)[s] > 0 => still[p][Signal(s)] = 0
    BY <1>1, <1>7, <2>1 DEF HeldOnce, IsSettled
  <2>3. FilesOnce'
    BY <1>2, <1>3, <2>1, <2>2 DEF FilesOnce, NoneTwice
  <2>4. HeldOnce(p)'
    BY <1>4 DEF HeldOnce
  <2> QED BY <2>3, <2>4
<1>11. ~overlap /\ ~killed' => \A r \in recorded' : Kept(p, r)'
  <2> SUFFICES ASSUME ~overlap, ~killed', NEW r \in recorded'
               PROVE  Kept(p, r)'
    OBVIOUS
  <2>1. still[p][r] > 0 \/ IsSettled(r, Days)
    BY <1>1, <1>5, MineBefore DEF Kept
  <2> QED BY <1>2, <1>3, <1>4, <2>1 DEF Kept
<1> QED BY <1>1, <1>6, <1>8, <1>9, <1>10, <1>11, OnlyMine DEF FileInv

LEMMA NextDayStep ==
  ASSUME FileInv, NextDay
  PROVE  FileInv'
<1>0. TypeOK
  BY Parts
<1>1. /\ \A p \in Processes : pc[p] = "idle"
      /\ day < LastDay /\ day' = day + 1 /\ runs' = 0
      /\ UNCHANGED <<pending, verified, pc, still, newly, recorded, overlap, killed>>
  BY DEF NextDay, local, past
<1>2. /\ Waiting' = Waiting /\ \A d : SettledOn(d)' = SettledOn(d)
      /\ \A r, D : IsSettled(r, D)' <=> IsSettled(r, D)
  BY <1>1, FilesSame
<1>3. day \in Nat /\ day' \in Days /\ runs' \in 0..MaxRuns
  BY <1>0, <1>1, TrackerAssumption DEF TypeOK, Days
<1>4. TypeOK'
  BY <1>0, <1>1, <1>3 DEF TypeOK
<1>5. ListInv' /\ RestInv' /\ AgeInv' /\ AloneInv'
  BY <1>1, <1>2, Parts DEF ListInv, RestInv, AgeInv, AloneInv
<1>6. DateInv'
  <2>1. \A p \in Processes, s \in Settled : newly'[p][s] = 0
    BY <1>1, Parts, EmptyList DEF RestInv
  <2>2. \A d \in Days, s \in Settled : SettledOn(d)'[s] > 0 => d <= day' /\ Due(d, s)
    BY <1>1, <1>2, <1>3, Parts DEF DateInv, Days
  <2> QED BY <2>1, <2>2 DEF DateInv, Due
<1>7. OnceInv'
  <2>1. ~overlap' => FilesOnce'
    BY <1>1, <1>2, Parts DEF OnceInv, FilesOnce, NoneTwice
  <2>2. \A p \in Processes : HeldOnce(p)'
    BY <1>1 DEF HeldOnce
  <2> QED BY <2>1, <2>2 DEF OnceInv
<1>8. KeptInv'
  BY <1>1, <1>2, Parts DEF KeptInv, Kept
<1> QED BY <1>4, <1>5, <1>6, <1>7, <1>8 DEF FileInv

(* A step that changes nothing *)
LEMMA StutterStep ==
  ASSUME FileInv, UNCHANGED vars
  PROVE  FileInv'
<1>1. UNCHANGED <<day, runs, pending, verified, pc, still, newly, recorded, overlap, killed>>
  BY DEF vars
<1>2. /\ Waiting' = Waiting /\ \A d : SettledOn(d)' = SettledOn(d)
      /\ \A r, D : IsSettled(r, D)' <=> IsSettled(r, D)
  BY <1>1, FilesSame
<1>3. TypeOK' /\ ListInv' /\ RestInv'
  BY <1>1, <1>2, Parts DEF TypeOK, ListInv, RestInv
<1>4. DateInv' /\ AgeInv' /\ AloneInv'
  BY <1>1, <1>2, Parts DEF DateInv, Due, AgeInv, Age, AloneInv
<1>5. OnceInv'
  <2>1. ~overlap' => FilesOnce'
    BY <1>1, <1>2, Parts DEF OnceInv, FilesOnce, NoneTwice
  <2>2. ~overlap' => \A p \in Processes : HeldOnce(p)'
    BY <1>1, <1>2, Parts DEF OnceInv, HeldOnce, NoneTwice
  <2> QED BY <2>1, <2>2 DEF OnceInv
<1>6. KeptInv'
  BY <1>1, <1>2, Parts, ZenonT(60) DEF KeptInv, Kept, Moving
<1> QED BY <1>3, <1>4, <1>5, <1>6 DEF FileInv

LEMMA FileInvariant == Spec => []FileInv
<1>1. FileInv /\ [Next]_vars => FileInv'
  <2> SUFFICES ASSUME FileInv, [Next]_vars
               PROVE  FileInv'
    OBVIOUS
  <2>1. CASE NextDay
    BY <2>1, NextDayStep
  <2>2. CASE UNCHANGED vars
    BY <2>2, StutterStep
  <2>3. ASSUME NEW p \in Processes,
               \/ Begin(p) \/ Crash(p)
               \/ VerifySkipped(p) \/ VerifyPending(p) \/ TruncatePending(p) \/ WritePending(p)
               \/ LoadVerified(p) \/ TruncateVerified(p) \/ WriteVerified(p)
               \/ RecordSkipped(p) \/ RecordTodaySignals(p) \/ TruncateForRecord(p) \/ WriteRecord(p)
        PROVE  FileInv'
    BY <2>3, BeginStep, VerifySkippedStep, VerifyPendingStep, TruncateStep, WritePendingStep,
       LoadVerifiedStep, TruncateVerifiedStep, WriteVerifiedStep, EndStep, RecordStep,
       WriteRecordStep
  <2> QED BY <2>1, <2>2, <2>3 DEF Next, Finished
<1> QED BY <1>1, InitFileInv, PTL DEF Spec

-----------------------------------------------------------------------------
(* The results *)

(* When the files hold no signal twice, a signal was settled once or never *)
LEMMA TimesIs ==
  ASSUME TypeOK, FilesOnce, NEW r \in Record
  PROVE  Times(r) = IF IsSettled(r, Days) THEN 1 ELSE 0
<1> DEFINE U == UNION {Copies(d, s) : d \in Days, s \in SettledAs(r)}
<1>0. Times(r) = Cardinality(U)
  BY DEF Times
<1>1. \A d \in Days, s \in Settled : SettledOn(d)[s] \in Nat /\ SettledOn(d)[s] <= 1
  BY ListTypes DEF FilesOnce, NoneTwice
<1>2. \A d \in Days, s \in Settled :
          Copies(d, s) = IF SettledOn(d)[s] > 0 THEN {<<d, s, 1>>} ELSE {}
  BY <1>1 DEF Copies
<1>3. CASE ~IsSettled(r, Days)
  <2>1. \A d \in Days, s \in SettledAs(r) : Copies(d, s) = {}
    BY <1>2, <1>3 DEF IsSettled, SettledAs
  <2>2. U = {}
    BY <2>1
  <2> QED BY <1>3, <2>2, FS_EmptySet DEF Times
<1>4. CASE IsSettled(r, Days)
  <2>1. PICK d \in Days, s \in Settled : SettledOn(d)[s] > 0 /\ Signal(s) = r
    BY <1>4 DEF IsSettled
  <2>2. \A e \in Days, t \in SettledAs(r) : SettledOn(e)[t] > 0 => e = d /\ t = s
    <3> SUFFICES ASSUME NEW e \in Days, NEW t \in SettledAs(r), SettledOn(e)[t] > 0
                 PROVE  e = d /\ t = s
      OBVIOUS
    <3>1. t \in Settled /\ Signal(t) = r
      BY DEF SettledAs
    <3>2. e = d
      BY <2>1, <3>1 DEF FilesOnce, IsSettled
    <3>3. t = s
      BY <2>1, <3>1, <3>2 DEF FilesOnce, NoneTwice
    <3> QED BY <3>2, <3>3
  <2>3. s \in SettledAs(r) /\ SettledAs(r) \subseteq Settled /\ Copies(d, s) = {<<d, s, 1>>}
    BY <1>2, <2>1 DEF SettledAs
  <2>4. \A e \in Days, t \in SettledAs(r) : Copies(e, t) \subseteq {<<d, s, 1>>}
    BY <1>2, <2>2, <2>3
  <2>5. U \subseteq {<<d, s, 1>>}
    BY <2>4
  <2>6. <<d, s, 1>> \in U
    BY <2>3
  <2>7. U = {<<d, s, 1>>}
    BY <2>5, <2>6
  <2>8. Cardinality({<<d, s, 1>>}) = 1
    BY FS_Singleton
  <2> HIDE DEF U
  <2> QED BY <1>0, <1>4, <2>7, <2>8
<1> QED BY <1>3, <1>4

(* verify_pending and record_today_signals, run one after the other to     *)
(* their end: between runs every recorded signal is waiting or was settled *)
(* once, and none was settled before it was due.                           *)
THEOREM NoSignalLost == Spec => []TrackerInv
<1>1. FileInv => TrackerInv
  <2> SUFFICES ASSUME FileInv
               PROVE  TrackerInv
    OBVIOUS
  <2>0. TypeOK
    BY Parts
  <2>1. NothingLost
    <3> SUFFICES ASSUME ~overlap, ~killed, \A p \in Processes : pc[p] = "idle", NEW r \in recorded
                 PROVE  Waiting[r] + Times(r) = 1
      BY DEF NothingLost
    <3>1. FilesOnce /\ r \in Record
      BY <2>0, Parts DEF OnceInv, TypeOK
    <3>2. Times(r) = IF IsSettled(r, Days) THEN 1 ELSE 0
      BY <2>0, <3>1, TimesIs
    <3>3. Waiting[r] \in Nat /\ Waiting[r] <= 1
      BY <2>0, <3>1, ListTypes, Parts DEF ListInv
    <3>4. IsSettled(r, Days) => Waiting[r] = 0
      BY <3>1 DEF FilesOnce, IsSettled
    <3>5. Waiting[r] > 0 \/ IsSettled(r, Days)
      BY Parts, TrackerAssumption DEF KeptInv, Kept
    <3> QED BY <3>2, <3>3, <3>4, <3>5
  <2>2. NeverEarly
    BY <2>0, Parts, LoadType DEF NeverEarly, Elements, DateInv, Due, List
  <2> QED BY <2>0, <2>1, <2>2 DEF TrackerInv
<1> QED BY <1>1, FileInvariant, PTL

(* _save_pending comes before _save_verified: runs that do not overlap     *)
(* settle no signal twice, also when they are killed in between.           *)
THEOREM NoneSettledTwice == Spec => []AtMostOnce
<1>1. FileInv => AtMostOnce
  <2> SUFFICES ASSUME FileInv, ~overlap, NEW r \in recorded
               PROVE  Times(r) <= 1
    BY DEF AtMostOnce
  <2>1. TypeOK /\ FilesOnce /\ r \in Record
    BY Parts DEF OnceInv, TypeOK
  <2>2. Times(r) = IF IsSettled(r, Days) THEN 1 ELSE 0
    BY <2>1, TimesIs
  <2> QED BY <2>2
<1> QED BY <1>1, FileInvariant, PTL

(* record_today_signals records the signals of a day once, whatever runs   *)
(* overlap and wherever they are killed.                                   *)
THEOREM NoneRecordedTwice == Spec => []RecordedOnce
<1>1. FileInv => RecordedOnce
  BY Parts DEF ListInv, RecordedOnce
<1> QED BY <1>1, FileInvariant, PTL

(* verify_pending never saves a signal as still pending that is older than *)
(* hold_days and the grace.                                                *)
THEOREM NoneLeftWaiting == Spec => SettledInTime
<1> DEFINE InTime == \A p \in Processes : pc[p] = "writeP" /\ pc'[p] \in {"record", "loadV"} =>
               \A r \in Elements(pending') : Age(r) < HoldDays + Grace
<1>1. FileInv /\ [Next]_vars => [InTime]_vars
  <2> SUFFICES ASSUME FileInv, Next, NEW p \in Processes,
                      pc[p] = "writeP", pc'[p] \in {"record", "loadV"},
                      NEW r \in Elements(pending')
               PROVE  Age(r) < HoldDays + Grace
    OBVIOUS
  <2>0. pc \in [Processes -> Points] /\ still[p] \in [Record -> Nat]
    BY Parts DEF TypeOK, List
  <2>1. WritePending(p)
    <3>1. ~NextDay /\ ~Finished
      BY DEF NextDay, Finished
    <3>2. PICK q \in Processes :
              \/ Begin(q) \/ Crash(q)
              \/ VerifySkipped(q) \/ VerifyPending(q) \/ TruncatePending(q) \/ WritePending(q)
              \/ LoadVerified(q) \/ TruncateVerified(q) \/ WriteVerified(q)
              \/ RecordSkipped(q) \/ RecordTodaySignals(q) \/ TruncateForRecord(q) \/ WriteRecord(q)
      BY <3>1 DEF Next
    <3>3. \E point : pc' = [pc EXCEPT ![q] = point]
      BY <3>2 DEF Begin, Crash, VerifySkipped, VerifyPending, Split, TruncatePending, WritePending,
           LoadVerified, TruncateVerified, WriteVerified, RecordSkipped, RecordTodaySignals,
           TruncateForRecord, WriteRecord, End, Goto
    <3>4. q = p
      BY <2>0, <3>3
    <3>5. ~Crash(p)
      BY <2>0 DEF Crash, End, Goto
    <3> QED BY <3>2, <3>4, <3>5 DEF Begin, VerifySkipped, VerifyPending, TruncatePending,
           LoadVerified, TruncateVerified, WriteVerified, RecordSkipped, RecordTodaySignals,
           TruncateForRecord, WriteRecord
  <2>2. pending' = still[p]
    BY <2>1 DEF WritePending
  <2>3. r \in Record /\ still[p][r] > 0
    BY <2>0, <2>2 DEF Elements
  <2> QED BY <2>3, Parts DEF AgeInv
<1> QED BY <1>1, FileInvariant, PTL DEF Spec, SettledInTime

=============================================================================
