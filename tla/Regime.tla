------------------------------- MODULE Regime -------------------------------
(* The macro regime: core/regime_classifier.py (the rules, and the value of  *)
(* a signal on a date) and the paging of core/regime_fetcher.py.             *)
(*                                                                           *)
(* Signals: vix, hy (the high-yield spread) and rvol (the volatility ratio)  *)
(* in tenths, oi (the change of open interest) and funding in percent; any   *)
(* of them may be Absent.                                                    *)
EXTENDS Integers, Sequences, FiniteSets, SequencesExt

\* A number no signal takes.
Absent == -99
Above(x, y) == x # Absent /\ x > y
AtLeast(x, y) == x # Absent /\ x >= y
Below(x, y) == x # Absent /\ x < y

\* Both crypto signals missing: macro_only.
Full(s) == s.oi # Absent \/ s.funding # Absent

-----------------------------------------------------------------------------
(* classify_regime, with the thresholds of config.py.                        *)

\* (Mutant: the spread's two branches of a high VIX change places.)
MutPanics(s) ==
    Above(s.vix, 300) /\ (~Above(s.hy, 45) \/ (Full(s) /\ Below(s.funding, -1)))
Panics(s) ==
    Above(s.vix, 300) /\ (Above(s.hy, 45) \/ (Full(s) /\ Below(s.funding, -1)))

Defends(s) == Above(s.vix, 250) \/ Above(s.hy, 45)

\* The spread caps the regime at neutral, and gates the risk-on ones.
Capped(s) == AtLeast(s.hy, 35)

Trends(s) ==
    /\ Below(s.vix, 200)
    /\ IF Full(s) THEN Above(s.oi, 0) /\ Above(s.funding, 0) ELSE Below(s.rvol, 12)

Chops(s) == Below(s.vix, 220) /\ Above(s.rvol, 13)

Label(s) ==
    CASE Panics(s) -> "risk_off_panic"
      [] ~Panics(s) /\ Defends(s) -> "risk_off_defensive"
      [] ~Defends(s) /\ ~Capped(s) /\ Trends(s) -> "risk_on_trending"
      [] ~Defends(s) /\ ~Capped(s) /\ ~Trends(s) /\ Chops(s) -> "risk_on_choppy"
      [] OTHER -> "neutral"

\* REGIME_MULTIPLIERS, in tenths.
Multiplier == [risk_on_trending |-> 12, risk_on_choppy |-> 10, neutral |-> 10,
               risk_off_defensive |-> 7, risk_off_panic |-> 4]

\* The label of a date decides the size of a trade: it never grows when a signal
\* gets worse, whichever others are missing (a higher VIX, spread or volatility
\* ratio; less open interest or funding), so no order of the rules lets a mild
\* one catch what a strict one is for.
NeverBolder(s) ==
    LET Size(t) == Multiplier[Label(t)] IN
    /\ \A v \in {150, 201, 221, 251, 301} : Below(s.vix, v) => Size([s EXCEPT !.vix = v]) <= Size(s)
    /\ \A h \in 30..52 : Below(s.hy, h) => Size([s EXCEPT !.hy = h]) <= Size(s)
    /\ \A r \in 10..15 : Below(s.rvol, r) => Size([s EXCEPT !.rvol = r]) <= Size(s)
    /\ \A o \in -1..1 : Above(s.oi, o) => Size([s EXCEPT !.oi = o]) <= Size(s)
    /\ \A f \in -3..1 : Above(s.funding, f) => Size([s EXCEPT !.funding = f]) <= Size(s)

-----------------------------------------------------------------------------
(* _lookup_nearest (and backtest_runner.py's _lookup_signal): the last value *)
(* at or before a date, in a series of dates in ascending order.             *)

\* (Mutant: dates equal to the wanted one count as later.)
MutHalf(series, date, at) ==
    LET mid == (at.lo + at.hi) \div 2
    IN  IF series[mid] < date THEN [lo |-> mid + 1, hi |-> at.hi, found |-> mid]
        ELSE [at EXCEPT !.hi = mid - 1]
\* One halving; found is the place of the last date that was early enough.
Half(series, date, at) ==
    LET mid == (at.lo + at.hi) \div 2
    IN  IF series[mid] <= date THEN [lo |-> mid + 1, hi |-> at.hi, found |-> mid]
        ELSE [at EXCEPT !.hi = mid - 1]

\* 0 when there is none.
LookupNearest(series, date) ==
    LET n == Len(series)
        search[at \in [lo : 1 .. n + 1, hi : 0 .. n, found : 0 .. n]] ==
          IF at.lo > at.hi THEN at.found ELSE search[Half(series, date, at)]
    IN  search[[lo |-> 1, hi |-> n, found |-> 0]]

(* Labels of dates. A store is, for every signal, the dates it has a value    *)
(* for (days) and the values on them (value).                                *)

Names == {"vix", "hy", "rvol", "oi", "funding"}
\* get_regime_signals: the dates from..to, in order.
Between(days, from, to) ==
    FoldLeft(LAMBDA got, d : IF d \in from .. to THEN Append(got, d) ELSE got, <<>>, days)

\* What a date's signals are: of each its last value so far. (_get_regime_label
\* does the same for a candle's date.)
SignalsOf(store, from, to, date) ==
    [n \in Names |->
        LET days == Between(store.days[n], from, to)
            i == LookupNearest(days, date)
        IN  IF i = 0 THEN Absent ELSE store.value[n][days[i]]]

\* classify_range: every date on which some signal has a value gets a label.
RangeLabels(store, from, to) ==
    [d \in (UNION {{store.days[n][i] : i \in DOMAIN store.days[n]} : n \in Names}) \cap from..to |->
        Label(SignalsOf(store, from, to, d))]

\* (Mutant: a signal's oldest value of the thirty days.)
MutLive(store, today) ==
    Label([n \in Names |-> LET days == Between(store.days[n], today - 30, today)
                           IN  IF days = <<>> THEN Absent ELSE store.value[n][days[1]]])
\* Without a recent label: the newest values of thirty days.
Live(store, today) ==
    Label([n \in Names |-> LET days == Between(store.days[n], today - 30, today)
                           IN  IF days = <<>> THEN Absent ELSE store.value[n][days[Len(days)]]])

\* compute_current_regime: the newest label, if it is of the last seven days.
Current(labels, store, today) ==
    LET newest == {d \in DOMAIN labels : (\A e \in DOMAIN labels : e <= d) /\ d >= today - 7}
    IN  IF newest = {} THEN Live(store, today) ELSE labels[CHOOSE d \in newest : TRUE]

\* A date's label and a back-test's filter use what was known that day: never a
\* later value, and none older than the last; so a label does not change when
\* the range is classified again after more days.
NeverFromTheFuture(in) ==
    /\ \A n \in Names :
          LET days == in.days[n]
              known == {i \in DOMAIN days : days[i] <= in.today}
              found == LookupNearest(days, in.today)
          IN  IF known = {} THEN found = 0
              ELSE found \in known /\ \A i \in known : i <= found
    /\ LET before == RangeLabels(in, 0, in.today)
           after == RangeLabels(in, 0, in.today + 30)
       IN  \A d \in DOMAIN before : after[d] = before[d]

\* The regime a trade is sized with is the same by its two ways, the stored
\* labels of a back-fill and the signals themselves, when the signals are not
\* older than the second looks back ("ensures the calculator badge always
\* agrees with the timeline chart", regime_classifier.py:260).
WaysAgree(in) ==
    (\A n \in Names : \A i \in DOMAIN in.days[n] : in.days[n][i] >= in.today - 30) =>
        Current(RangeLabels(in, 0, in.today), in, in.today) = Live(in, in.today)

-----------------------------------------------------------------------------
(* Paging. Days count from since_date.                                       *)

\* (Mutant: a window begins with the last day of the one before.)
MutNextWindow(start, until) == IF start + 29 <= until THEN start + 29 ELSE until
NextWindow(start, until) == (IF start + 29 <= until THEN start + 29 ELSE until) + 1

\* fetch_binance_oi: a symbol's windows of at most thirty days.
OiWindows(from, until) ==
    LET windows[start \in Nat] ==
          IF start >= until THEN <<>>
          ELSE LET end == IF start + 29 <= until THEN start + 29 ELSE until
               IN  <<[start |-> start, end |-> end]>> \o windows[NextWindow(start, until)]
    IN  windows[from]

\* The open interest of a day is added up once for a symbol, and no day is left
\* out: twice, or not at all, shows as a jump of the market's leverage. (The last
\* day is left out when the range is a multiple of thirty days.)
DaysOnce(days) ==
    \A d \in 0 .. days :
        LET windows == OiWindows(0, days)
            n == Cardinality({i \in DOMAIN windows : windows[i].start <= d /\ d <= windows[i].end})
        IN  n = 1 \/ (n = 0 /\ d = days)

\* (Mutant: the page after goes on from the last one's time.)
MutNextFunding(page, since) == page[Len(page)]
NextFunding(page, since) == page[Len(page)] + 1

\* fetch_binance_funding: pages of at most thirty days and limit rates, until one
\* is empty.
FundingPages(times, from, until, limit) ==
    LET pages[since \in Nat] ==
          LET last == IF since + 30 <= until THEN since + 30 ELSE until
              window == Between(times, since, last)
              page == SubSeq(window, 1, IF Len(window) <= limit THEN Len(window) ELSE limit)
          IN  IF since >= until \/ page = <<>> THEN <<>>
              ELSE IF page[Len(page)] <= since THEN page
              ELSE page \o pages[NextFunding(page, since)]
    IN  pages[from]

\* Every rate of the range counts once in its day's average.
RatesOnce(in) ==
    FundingPages(in.times, 0, in.until, in.limit) = Between(in.times, 0, in.until)
=============================================================================
