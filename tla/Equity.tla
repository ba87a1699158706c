------------------------------- MODULE Equity -------------------------------
(* Equity before the engine's first snapshot, rebuilt from the exchange's    *)
(* income events (core/exchange_income.py fetch_income_for_backfill and      *)
(* build_equity_backfill, used by api/cache.py and api/routes_admin.py).     *)
(*                                                                           *)
(* An event is a time, a type ("pnl" for REALIZED_PNL and FUNDING_FEE,       *)
(* "transfer", "other") and an amount.  An input is the account's equity at  *)
(* the start, its events in order of time, the range asked for and the       *)
(* page's limit.  A day has Day instants.                                    *)
EXTENDS Integers, Sequences, FiniteSets, SequencesExt

Day == 4

\* Those of a sequence that are in a set, in their order.
Kept(s, S) == FoldLeft(LAMBDA got, x : IF x \in S THEN Append(got, x) ELSE got, <<>>, s)
\* The events of these times.
EventsOf(in, times) == Kept(in.events, {e \in Range(in.events) : e.time \in times})
Total(amounts) == FoldLeft(LAMBDA sum, x : sum + x, 0, amounts)

\* (Mutant: the next page starts at the last event.)
MutNextCursor(page) == Last(page).time
NextCursor(page) == Last(page).time + 1

\* One page of fetch_income_for_backfill.
PageOf(in, cursor) ==
    LET rest == EventsOf(in, cursor .. in.end)
    IN  SubSeq(rest, 1, IF Len(rest) < in.limit THEN Len(rest) ELSE in.limit)

\* The loop: at most one page for each event.
Fetched(in) ==
    LET Step(w, n) ==
          LET page == PageOf(in, w.cursor)
          IN  IF w.done \/ w.cursor >= in.end \/ page = <<>> THEN [w EXCEPT !.done = TRUE]
              ELSE [got |-> w.got \o page, done |-> Len(page) < in.limit,
                    cursor |-> NextCursor(page)]
    IN  FoldLeft(Step, [got |-> <<>>, cursor |-> in.start, done |-> FALSE],
                 [n \in 1 .. Len(in.events) + 1 |-> n]).got

\* (Mutant: only gains count.)
MutDrives(e) == IF e.type = "pnl" /\ e.amount > 0 THEN e.amount ELSE 0
\* REALIZED_PNL and FUNDING_FEE count, nothing else.
Drives(e) == IF e.type = "pnl" THEN e.amount ELSE 0
Result(events) == Total([i \in DOMAIN events |-> Drives(events[i])])

\* What the exchange says now: every event counts, transfers as well.
Current(in) == in.equity + Total([i \in DOMAIN in.events |-> in.events[i].amount])

\* (Mutant: the deduction also takes the transfers.)
MutRecords(in) ==
    LET got == Fetched(in)
        After(i) == Total([n \in 1 .. Len(got) + 1 - i |-> got[i + n - 1].amount])
    IN  [i \in DOMAIN got |-> [time |-> got[i].time, equity |-> Current(in) - After(i)]]
\* The walk back: an event's own amount is deducted before its equity is noted.
\* (Events of one instant keep the order in which they came, which reverses
\* their deductions; the rules take distinct times.)
Records(in) ==
    LET got == Fetched(in)
    IN  [i \in DOMAIN got |->
           [time |-> got[i].time, equity |-> Current(in) - Result(SubSeq(got, i, Len(got)))]]

\* The first records go until one reaches a fiftieth of the largest; if none does
\* all stay.
FromTheFirstBig(kept) ==
    LET Big(i) == \A j \in DOMAIN kept : 50 * kept[i].equity >= kept[j].equity
        first == {i \in DOMAIN kept : Big(i) /\ \A j \in 1 .. i - 1 : ~Big(j)}
    IN  IF first = {} THEN kept ELSE SubSeq(kept, CHOOSE i \in first : TRUE, Len(kept))
\* ... of those that are not negative.
Trimmed(in) == FromTheFirstBig(Kept(Records(in), {r \in Range(Records(in)) : r.equity >= 0}))

\* (Mutant: filled only while a whole day is left.)
MutIdleDays(from, to) ==
    {t \in from + Day .. to : (t - from) % Day = 0 /\ t < to - Day}
\* The days without a record between two of them.
IdleDays(from, to) ==
    {t \in from + Day .. to : (t - from) % Day = 0 /\ t < to - (Day \div 2)}

\* A record, and one for each idle day until the next.
Block(r, idle) == <<r>> \o [n \in 1 .. Cardinality(idle) |-> [r EXCEPT !.time = @ + n * Day]]
WithIdleDays(rs) ==
    FlattenSeq([i \in DOMAIN rs |->
        Block(rs[i], IF i < Len(rs) THEN IdleDays(rs[i].time, rs[i + 1].time) ELSE {})])
\* The times and equities of the backfill, in order.
Filled(in) == WithIdleDays(Trimmed(in))

\* detect_gaps.
Gaps(times, interval) ==
    {<<times[i - 1], times[i]>> : i \in {j \in 2 .. Len(times) :
                                          times[j] - times[j - 1] > 2 * interval}}

-----------------------------------------------------------------------------
(* Properties of an input.                                                   *)

Distinct(in) == \A i \in 2 .. Len(in.events) : in.events[i - 1].time < in.events[i].time
Wanted(in) == EventsOf(in, in.start .. in.end)

\* However the events fall on pages, each of the range is fetched once, if no
\* two share a millisecond; only the event at the very end of the range may be
\* left out, when it begins a page.
PagesComplete(in) ==
    Distinct(in) => LET got == Fetched(in)
                    IN  got = Wanted(in) \/
                        (got = Front(Wanted(in)) /\ Last(Wanted(in)).time = in.end)

\* Without transfers and with a range that ends now, the equity noted for an
\* event is the account's equity right before it.
EquityBefore(in) ==
    Distinct(in) /\ (\A i \in DOMAIN in.events : in.events[i].type = "pnl")
      /\ (\A i \in DOMAIN in.events : in.events[i].time < in.end) =>
        \A i \in DOMAIN Records(in) :
            Records(in)[i].equity =
                in.equity + Result(EventsOf(in, 0 .. Records(in)[i].time - 1))

\* A transfer moves the curve by nothing: the steps between records are the
\* results of trading alone.
StepsAreResults(in) ==
    LET rs == Records(in)
    IN  Distinct(in) => \A i \in 2 .. Len(rs) :
            rs[i].equity - rs[i - 1].equity =
                Result(EventsOf(in, {rs[i - 1].time}))

\* In order, and none of the gaps detect_gaps finds at this interval.
Dense(times) ==
    /\ \A i \in 2 .. Len(times) : times[i - 1] < times[i]
    /\ Gaps(times, (3 * Day) \div 4) = {}
Times(records) == [j \in DOMAIN records |-> records[j].time]

\* The curve never goes back in time and has no silence of more than a day and
\* a half, which the gap detector would report at half that interval.
NoLongSilence(in) == Distinct(in) => Dense(Times(Filled(in)))
=============================================================================
