------------------------------ MODULE BarStore ------------------------------
(* The store of candles of one symbol and timeframe (core/db_ohlcv.py) and   *)
(* the fetches that fill it (core/ohlcv_fetcher.py fetch_and_store), which   *)
(* run for several requests at a time and may fail or die in any page.       *)
(*                                                                           *)
(* Time is counted in candles, whose prices are left out: at `now' the       *)
(* candle of that number is forming.  The symbol has traded since candle 1.  *)
EXTENDS Integers, FiniteSets, FiniteSetsExt

CONSTANTS
    Jobs,      \* requests that fetch at the same time
    Days,      \* values of since_days, in candles
    Page,      \* the adapter's ohlcv_limit
    MaxNow,    \* bound on time
    MaxTries   \* _MAX_RETRIES

VARIABLES
    now,
    stored,    \* ohlcv_cache: candles stored
    job        \* per job: state, range, next candle to ask for, retries

vars == <<now, stored, job>>

NoJob == [pc |-> "none", days |-> 0, from |-> 0, until |-> 0, since |-> 0, tries |-> 0]

TypeOK ==
    /\ now \in 1 .. MaxNow /\ stored \subseteq 1 .. now
    /\ \A j \in Jobs :
         /\ job[j].pc \in {"none", "fetch", "done", "failed"}
         /\ job[j].pc # "none" => job[j].from <= job[j].since /\ job[j].until <= now
         /\ job[j].tries \in 0 .. MaxTries

Init ==
    /\ now = 1 /\ stored = {}
    /\ job = [j \in Jobs |-> NoJob]

Passes == now < MaxNow /\ now' = now + 1 /\ UNCHANGED <<stored, job>>

\* get_ohlcv_range: with something older than the range stored, only what is
\* newer than two candles before the newest is fetched.
FetchSince(target) ==
    IF stored # {} /\ Min(stored) <= target
    THEN Max({target, Max(stored) - 2}) ELSE target

Starts(j, days) ==
    /\ job[j].pc # "fetch"
    /\ LET since == FetchSince(now - days)
       IN  job' = [job EXCEPT ![j] = [pc |-> "fetch", days |-> days, from |-> since,
                                      until |-> now, since |-> since, tries |-> 0]]
    /\ UNCHANGED <<now, stored>>

\* What the exchange answers: the first candles from since.
Answer(since) ==
    LET all == {c \in 1 .. now : c >= since}
    IN  {c \in all : Cardinality({b \in all : b < c}) < Page}

\* Whether the loop goes on after a page that ends at candle c.
GoesOn(j, page) ==
    /\ Max(page) > job[j].since /\ Cardinality(page) >= Page
    /\ Max(page) + 1 <= job[j].until

\* (Mutant: the next page starts one candle late.)
MutNextSince(page) == Max(page) + 2
NextSince(page) == Max(page) + 1

\* One page: upsert_ohlcv replaces what is stored.
Stores(j) ==
    /\ job[j].pc = "fetch"
    /\ LET page == Answer(job[j].since)
       IN  IF page = {} THEN /\ job' = [job EXCEPT ![j].pc = "done"]
                             /\ UNCHANGED stored
           ELSE /\ stored' = stored \cup page
                /\ job' = [job EXCEPT ![j].pc = IF GoesOn(j, page) THEN "fetch" ELSE "done",
                                      ![j].since = IF Max(page) > @ THEN NextSince(page) ELSE @,
                                      ![j].tries = 0]
    /\ UNCHANGED now

\* A connection error or a rate limit, up to the last retry.
Retries(j) ==
    /\ job[j].pc = "fetch" /\ job[j].tries < MaxTries
    /\ job' = [job EXCEPT ![j].tries = @ + 1]
    /\ UNCHANGED <<now, stored>>

\* Another error, one retry too many, or the end of the process.
Fails(j) ==
    /\ job[j].pc = "fetch"
    /\ job' = [job EXCEPT ![j].pc = "failed"]
    /\ UNCHANGED <<now, stored>>

Next ==
    \/ Passes
    \/ \E j \in Jobs : Stores(j) \/ Retries(j) \/ Fails(j) \/ \E d \in Days : Starts(j, d)

Spec == Init /\ [][Next]_vars

-----------------------------------------------------------------------------
(* Properties.                                                               *)

\* However pages and other fetches fall, the part of its range a fetch has
\* passed is stored, and all of it when it ends without an error.
RangeFetched ==
    \A j \in Jobs :
        LET passed == CASE job[j].pc = "fetch" -> job[j].since - 1
                        [] job[j].pc = "done" -> job[j].until
                        [] OTHER -> 0
        IN  {c \in 1 .. passed : job[j].from <= c /\ c <= job[j].until} \subseteq stored

\* ohlcv_fetcher.py: the range is chosen to "fill gaps on both ends": what a
\* fetch leaves out of the days it was asked for is stored already, as long as
\* no fetch has failed.
GapsFilled ==
    \A j \in Jobs : job[j].pc = "done" /\ (\A i \in Jobs : job[i].pc # "failed") =>
        {c \in 1 .. job[j].until : c >= job[j].until - job[j].days} \subseteq stored
=============================================================================
