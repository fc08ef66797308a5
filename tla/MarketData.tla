------------------------------ MODULE MarketData ------------------------------
(***************************************************************************)
(* The market data client of api.py: _api_request as the threads of the    *)
(* filter call it, with the free tokens and their daily limit in the       *)
(* module's dictionary _token_usage, which no lock protects. A counter is  *)
(* read and written in two steps; the day is compared and the dictionary   *)
(* replaced in two steps.                                                  *)
(***************************************************************************)
EXTENDS Naturals, Sequences, FiniteSets

CONSTANTS
    Threads,
    FreeTokens,    \* free_tokens, in the order they are tried
    Paid,          \* the paid token
    DailyLimit,    \* free_token_daily_limit
    MaxDays        \* bound: midnights that pass

Free   == {FreeTokens[i] : i \in DOMAIN FreeTokens}
Tokens == Free \cup {Paid}
MaxAttempts == Len(FreeTokens) + 2

ASSUME MarketAssumption ==
    /\ FreeTokens \in Seq(Tokens) /\ Paid \notin Free
    /\ DailyLimit \in Nat \ {0} /\ MaxDays \in Nat
    /\ IsFiniteSet(Threads) /\ Threads # {}

VARIABLES
    day,          \* date.today()
    usageDate,    \* _usage_date
    usage,        \* _token_usage of the free tokens, counted to the limit: only
                  \* "< limit" is asked of it, and nothing of the paid token's count
    asker,        \* each thread's request
    served,       \* answers with data by token since the counters were last
                  \* cleared, not counted on after an overlap: history
    gaveUp,       \* tokens marked as exhausted since then: history
    overlapped    \* a counter was written from a stale value or cleared under a request: history

marketVars == <<day, usageDate, usage, asker, served, gaveUp, overlapped>>

MaxServed == DailyLimit + Cardinality(Threads)     \* served counts no further

(* point of the request, attempts made, date seen, token in use, marks     *)
(* still to be made (0: the use is to be recorded), value read; and, as    *)
(* history, the answers 403 (up to two), whether the paid token was tried  *)
(* and whether the counters were cleared after the first token was chosen  *)
Idle == [point |-> "idle", attempt |-> 0, today |-> 0, token |-> Paid, marks |-> 0,
         read |-> 0, refusals |-> 0, paid |-> FALSE, cleared |-> FALSE]
InUse == {"asked", "count", "write"}

MarketInit ==
    /\ day = 1 /\ usageDate = 0
    /\ usage = [k \in Free |-> 0]
    /\ asker = [p \in Threads |-> Idle]
    /\ served = [k \in Free |-> 0]
    /\ gaveUp = {} /\ overlapped = FALSE

Update(p, r)     == asker' = [asker EXCEPT ![p] = r]
counterVars      == <<usageDate, usage>>
marketHistory    == <<served, gaveUp, overlapped>>

-----------------------------------------------------------------------------
(* _get_current_token *)

Ask(p) ==
    /\ asker[p].point \in {"idle", "failed"}
    /\ Update(p, [Idle EXCEPT !.point = "date"])
    /\ UNCHANGED <<day, counterVars, marketHistory>>

CompareDate(p) ==
    /\ asker[p].point = "date"
    /\ Update(p, IF usageDate # day THEN [asker[p] EXCEPT !.point = "stale", !.today = day]
                 ELSE [asker[p] EXCEPT !.point = "choose"])
    /\ UNCHANGED <<day, counterVars, marketHistory>>

ClearDateOnly(p) ==       \* mutant: the counters of yesterday are kept
    /\ asker[p].point = "stale"
    /\ usageDate' = asker[p].today
    /\ Update(p, [asker[p] EXCEPT !.point = "choose", !.today = 0])
    /\ served' = [k \in Free |-> 0] /\ gaveUp' = {}
    /\ UNCHANGED <<day, usage, overlapped>>

(* The dictionary and the date are replaced. Another thread may have done  *)
(* so since the date was compared, or may have a use to record.            *)
ClearUsage(p) ==
    /\ asker[p].point = "stale"
    /\ usage' = [k \in Free |-> 0]
    /\ usageDate' = asker[p].today
    /\ asker' = [q \in Threads |->
                    LET begun == asker[q].attempt > 0 \/ asker[q].point \in InUse
                        r     == [asker[q] EXCEPT !.cleared = @ \/ begun]
                    IN IF q = p THEN [r EXCEPT !.point = "choose", !.today = 0] ELSE r]
    /\ served' = [k \in Free |-> 0] /\ gaveUp' = {}
    /\ overlapped' = \/ overlapped
                     \/ usageDate = asker[p].today
                     \/ \E q \in Threads : asker[q].point \in {"count", "write"}
    /\ UNCHANGED day

Usable == {i \in DOMAIN FreeTokens : usage[FreeTokens[i]] < DailyLimit}

(* The first free token below its limit, else the paid one *)
CurrentToken ==
    IF Usable = {} THEN Paid
    ELSE FreeTokens[CHOOSE i \in Usable : \A j \in Usable : i <= j]

(* The paid token is configured: _api_request never finds the token empty, *)
(* the one other way in which it returns None                              *)
ChooseToken(p) ==
    /\ asker[p].point = "choose"
    /\ Update(p, [asker[p] EXCEPT !.point = "asked", !.token = CurrentToken,
                                  !.paid = @ \/ CurrentToken = Paid])
    /\ UNCHANGED <<day, counterVars, marketHistory>>

-----------------------------------------------------------------------------
(* The answers that _api_request tells apart *)

Retry(r) ==
    IF r.attempt + 1 < MaxAttempts
    THEN [r EXCEPT !.point = "date", !.attempt = @ + 1, !.token = Paid]
    ELSE [r EXCEPT !.point = "failed", !.attempt = 0, !.token = Paid]

Data(p) ==
    /\ asker[p].point = "asked"
    /\ Update(p, [asker[p] EXCEPT !.point = "count", !.marks = 0])
    /\ served' = [k \in Free |-> IF k = asker[p].token /\ served[k] < MaxServed /\ ~overlapped
                                THEN served[k] + 1 ELSE served[k]]
    /\ UNCHANGED <<day, counterVars, gaveUp, overlapped>>

UnknownStock(p) ==        \* None at once, and no token is to blame
    /\ asker[p].point = "asked"
    /\ Update(p, Idle)
    /\ UNCHANGED <<day, counterVars, marketHistory>>

Forbidden(p) ==           \* 403: the token is not marked
    /\ asker[p].point = "asked"
    /\ Update(p, Retry([asker[p] EXCEPT !.refusals = IF @ < 2 THEN @ + 1 ELSE 2]))
    /\ UNCHANGED <<day, counterVars, marketHistory>>

FailureUnmarked(p, marks) ==      \* mutant: the token is not marked
    /\ asker[p].point = "asked"
    /\ Update(p, Retry(asker[p]))
    /\ UNCHANGED <<day, counterVars, marketHistory>>

(* One mark for an error in the answer, a time-out or a broken connection, *)
(* two for 401 and 429: in the except clause and after it                  *)
Failure(p, marks) ==
    /\ asker[p].point = "asked"
    /\ Update(p, [asker[p] EXCEPT !.point = "count", !.marks = marks])
    /\ gaveUp' = gaveUp \cup ({asker[p].token} \cap Free)
    /\ UNCHANGED <<day, counterVars, served, overlapped>>

-----------------------------------------------------------------------------
(* _record_usage and _mark_token_exhausted *)

CountOf(k) == IF k \in Free THEN usage[k] ELSE 0

ReadUsage(p) ==
    /\ asker[p].point = "count"
    /\ Update(p, [asker[p] EXCEPT !.point = "write", !.read = CountOf(asker[p].token)])
    /\ UNCHANGED <<day, counterVars, marketHistory>>

CountedMarksOnly(n, marks) ==     \* mutant: an answer with data is not counted
    IF marks = 0 THEN n ELSE DailyLimit

Counted(n, marks) ==
    LET sum == n + (IF marks = 0 THEN 1 ELSE DailyLimit)
    IN IF sum < DailyLimit THEN sum ELSE DailyLimit

WriteUsage(p) ==
    LET r == asker[p] IN
    /\ r.point = "write"
    /\ usage' = [k \in Free |-> IF k = r.token THEN Counted(r.read, r.marks) ELSE usage[k]]
    /\ overlapped' = (overlapped \/ CountOf(r.token) # r.read)
    /\ Update(p, CASE r.marks = 0 -> Idle
                   [] r.marks = 1 -> Retry([r EXCEPT !.marks = 0, !.read = 0])
                   [] OTHER       -> [r EXCEPT !.point = "count", !.marks = @ - 1, !.read = 0])
    /\ UNCHANGED <<day, usageDate, served, gaveUp>>

Midnight ==
    /\ day <= MaxDays
    /\ day' = day + 1
    /\ UNCHANGED <<counterVars, asker, marketHistory>>

Request(p) ==
    \/ Ask(p) \/ CompareDate(p) \/ ClearUsage(p) \/ ChooseToken(p)
    \/ Data(p) \/ UnknownStock(p) \/ Forbidden(p) \/ \E marks \in 1 .. 2 : Failure(p, marks)
    \/ ReadUsage(p) \/ WriteUsage(p)

MarketNext == Midnight \/ \E p \in Threads : Request(p)

MarketSpec == MarketInit /\ [][MarketNext]_marketVars

-----------------------------------------------------------------------------
(* Properties *)

Asking == [point : {"idle", "date", "stale", "choose", "asked", "count", "write", "failed"},
           attempt : 0 .. MaxAttempts - 1, today : 0 .. MaxDays + 1, token : Tokens,
           marks : 0 .. 2, read : 0 .. DailyLimit, refusals : 0 .. 2,
           paid : BOOLEAN, cleared : BOOLEAN]

(* Types: no thread has more attempts than max_attempts, no counter is     *)
(* over the limit, and the paid token is only in use when it was chosen.   *)
MarketTypeOK ==
    /\ day \in 1 .. MaxDays + 1 /\ usageDate \in 0 .. MaxDays + 1
    /\ usage \in [Free -> 0 .. DailyLimit]
    /\ served \in [Free -> 0 .. MaxServed]
    /\ gaveUp \subseteq Free /\ overlapped \in BOOLEAN
    /\ asker \in [Threads -> Asking]

(* A free token answers at most once for each unit of its limit and once   *)
(* for each other thread that chose it before those answers were counted,  *)
(* since the counters were last cleared, unless counting overlapped.       *)
QuotaKept ==
    overlapped \/ \A k \in Free : served[k] < MaxServed

(* A thread goes on to the paid token only when every free token has used  *)
(* up its limit or has failed since the counters were last cleared, unless *)
(* counting overlapped: a token is not skipped for what it did yesterday.  *)
PaidOnlyWhenFreeUsedUp ==
    [][\A p \in Threads :
           (asker[p].point = "choose" /\ asker'[p].point = "asked" /\ asker'[p].token = Paid) =>
               overlapped \/ \A k \in Free : served[k] >= DailyLimit \/ k \in gaveUp]_marketVars

(* A request fails for good only after it has tried the paid token: the    *)
(* attempts suffice for every free token and one answer 403. Two such      *)
(* answers, counters cleared on the way or a mark overwritten by another   *)
(* thread are the ways to fail without it.                                 *)
FailedOnlyAfterPaid ==
    \A p \in Threads :
        asker[p].point = "failed" =>
            \/ asker[p].paid
            \/ asker[p].refusals = 2
            \/ asker[p].cleared \/ overlapped

(* The counters are in their range and a free token is not overdrawn *)
MarketInv == MarketTypeOK /\ QuotaKept

=============================================================================
