------------------------------- MODULE Sizing -------------------------------
(* The sizing of a trade: core/risk_engine.py (run_risk_calculator and what  *)
(* it calls) and core/contract_validation.py, with exact fractions for the   *)
(* program's floats and Decimals.                                            *)
(*                                                                           *)
(* An input is a record: ready and capable (the gates in front), atr14 and   *)
(* atr100 (0 when unknown), risk (risk per trade times equity, in USDT),     *)
(* equity, avg and sl prices, levels (the side of the book that the order    *)
(* would take: price and quantity pairs, best first), mult (the multiplier   *)
(* of a fresh regime, or 1), spec (the contract's lot, minQty, minNotional), *)
(* known (whether the exchange has a spec), and the portfolio: count and     *)
(* maxCount, notional and maxExposure (a multiple of equity), sector (net    *)
(* notional in the ticker's sector) and maxSector.                           *)
EXTENDS Fraction, Sequences, SequencesExt

Side(in) == IF in.sl > in.avg THEN "short" ELSE "long"
Distance(in) == Abs(in.sl - in.avg)

-----------------------------------------------------------------------------
(* Volatility.                                                               *)

\* calculate_atr_coefficient.
AtrKnown(in) == in.atr14 > 0 /\ in.atr100 > 0
AtrC(in) == Least(Over(in.atr100, in.atr14), One)
TooVolatile(in) == AtrKnown(in) /\ Less(AtrC(in), Over(1, 5))

-----------------------------------------------------------------------------
(* The book.                                                                 *)

\* (Mutant: the whole level is paid for.)
MutTakeLevel(walk, level) ==
    IF level.price <= 0 \/ level.qty <= 0 \/ AtMost(walk.left, Zero) THEN walk
    ELSE LET all == Whole(level.price * level.qty)
             usdt == Least(walk.left, all)
         IN  [left |-> walk.left -- usdt, cost |-> walk.cost ++ all,
              qty |-> walk.qty ++ (usdt // Whole(level.price))]
\* One level: skipped when invalid, taken up to the budget left.
TakeLevel(walk, level) ==
    IF level.price <= 0 \/ level.qty <= 0 \/ AtMost(walk.left, Zero) THEN walk
    ELSE LET usdt == Least(walk.left, Whole(level.price * level.qty))
         IN  [left |-> walk.left -- usdt, cost |-> walk.cost ++ usdt,
              qty |-> walk.qty ++ (usdt // Whole(level.price))]

\* estimate_vwap_fill: what the book cannot fill is left out of the average.
VwapFill(levels, budget, entry) ==
    LET walk == FoldLeft(TakeLevel, [left |-> budget, cost |-> Zero, qty |-> Zero], levels)
    IN  IF walk.qty = Zero THEN Whole(entry) ELSE walk.cost // walk.qty

\* calculate_slippage, against the first level.
FillPrice(in, budget) ==
    IF in.levels = <<>> \/ in.levels[1].price <= 0 THEN Whole(in.avg)
    ELSE VwapFill(in.levels, budget, in.avg)
Slippage(in, budget) ==
    IF in.levels = <<>> \/ in.levels[1].price <= 0 THEN Zero
    ELSE LET best == Whole(in.levels[1].price)
             fill == FillPrice(in, budget)
         IN  Greatest(Zero, (IF Side(in) = "long" THEN fill -- best ELSE best -- fill) // best)

-----------------------------------------------------------------------------
(* calculate_position_size.                                                  *)

Gated(in) == ~in.ready \/ ~in.capable \/ in.avg <= 0 \/ in.sl <= 0 \/ Distance(in) = 0

BaseSize(in) ==
    IF Gated(in) \/ TooVolatile(in) THEN Zero
    ELSE (IF AtrKnown(in) THEN AtrC(in) ELSE One) ** Over(in.risk * in.avg, Distance(in))

SizingEligible(in) == ~Gated(in) /\ ~TooVolatile(in)

\* (Mutant: slippage raises the size.)
MutSizeRaw(in) ==
    IF ~SizingEligible(in) THEN Zero
    ELSE (BaseSize(in) ** (One ++ Slippage(in, BaseSize(in)))) // Whole(in.avg)
\* The contracts before the regime.
SizeRaw(in) ==
    IF ~SizingEligible(in) THEN Zero
    ELSE (BaseSize(in) ** (One -- Slippage(in, BaseSize(in)))) // Whole(in.avg)

-----------------------------------------------------------------------------
(* validate_and_snap_size.                                                   *)

\* Decimal's // cuts towards zero.
Snap(size, lot) ==
    IF lot[1] = 0 THEN size
    ELSE IF size[1] < 0 THEN Whole(-Floor(Zero -- (size // lot))) ** lot
    ELSE Whole(Floor(size // lot)) ** lot

\* A limit of 0 is none.
TooFew(snapped, spec) == spec.minQty[1] > 0 /\ Less(snapped, spec.minQty)
TooSmall(snapped, spec, price) ==
    spec.minNotional[1] > 0 /\ Less(snapped ** price, spec.minNotional)

Valid(size, spec, price) ==
    LET snapped == Snap(size, spec.lot)
    IN  ~TooFew(snapped, spec) /\ ~TooSmall(snapped, spec, price)

\* (Mutant: rounded down to the lot.)
MutSuggested(size, spec, price) ==
    LET snapped == Snap(size, spec.lot)
    IN  IF TooFew(snapped, spec) THEN spec.minQty
        ELSE IF price[1] > 0 /\ spec.lot[1] > 0
             THEN Snap(spec.minNotional // price, spec.lot)
             ELSE spec.minQty
\* suggested_size of a size that is not valid.
Suggested(size, spec, price) ==
    LET snapped == Snap(size, spec.lot)
    IN  IF TooFew(snapped, spec) THEN spec.minQty
        ELSE IF price[1] > 0 /\ spec.lot[1] > 0
             THEN Snap(spec.minNotional // price, spec.lot) ++ spec.lot
             ELSE spec.minQty

-----------------------------------------------------------------------------
(* run_risk_calculator.                                                      *)

FillOf(in) == IF SizingEligible(in) THEN FillPrice(in, BaseSize(in)) ELSE Zero

\* A size that is not valid is kept as it is: the assignment that should make
\* it ineligible fails on an unknown name and is passed over.
Fitted(raw, in) ==
    IF in.known /\ Valid(raw, in.spec, FillOf(in)) THEN Snap(raw, in.spec.lot) ELSE raw
Size(in) == Fitted(SizeRaw(in) ** in.mult, in)

EstSize(in) == Size(in) ** Whole(in.avg)
\* est_exposure: all positions and this trade, per unit of equity.
Exposure(in) == (Whole(in.notional) ++ EstSize(in)) // Whole(in.equity)

\* (Mutant: the sector is judged by the trade alone.)
MutSectorAfter(in) == EstSize(in)
Signed(side, f) == IF side = "long" THEN f ELSE Zero -- f
Magnitude(f) == Over(Abs(f[1]), f[2])
\* check_correlated_limit: the net notional of the sector after the trade.
SectorAfter(in) == Magnitude(Whole(in.sector) ++ Signed(Side(in), EstSize(in)))

Eligible(in) ==
    /\ SizingEligible(in)
    /\ in.count < in.maxCount
    /\ AtMost(Exposure(in), in.maxExposure)
    /\ AtMost(SectorAfter(in), in.maxSector ** Whole(in.equity))

-----------------------------------------------------------------------------
(* Properties of an input.                                                   *)

\* What the stop loses on the size shown, before costs, is within the risk per
\* trade times the regime's multiplier, whatever the book, the volatility and
\* the contract's lot do to the size.
RiskBounded(in) ==
    AtMost(Size(in) ** Whole(Distance(in)), Whole(in.risk) ** in.mult)

\* Following the suggestion that comes with a size whose notional is too small
\* gives a size the exchange takes.
SuggestionTaken(in) ==
    LET raw == SizeRaw(in) ** in.mult
        price == FillOf(in)
    IN  in.known /\ price[1] > 0 /\ ~Valid(raw, in.spec, price)
          /\ ~TooFew(Snap(raw, in.spec.lot), in.spec)
        => Valid(Suggested(raw, in.spec, price), in.spec, price)

\* A larger order never gets a better average price from a book whose valid
\* levels are in order.
WorseFills(in) ==
    LET fill(b) == FillPrice(in, Whole(b))
        valid == {i \in DOMAIN in.levels : in.levels[i].price > 0 /\ in.levels[i].qty > 0}
    IN  Side(in) = "long" /\ (\A i, j \in valid : i < j => in.levels[i].price <= in.levels[j].price)
        => \A b \in {1, 5, 9, 10, 11, 20, 21, 22, 40} : AtMost(fill(b), fill(b + 1))

\* Taking an eligible trade never moves a sector's net notional beyond the
\* limit, also on the side of the positions already in it.
SectorHeld(in) ==
    Eligible(in) =>
        LET after(size) == Whole(in.sector) ++ (IF in.sl > in.avg THEN Zero -- size ELSE size)
            limit == in.maxSector ** Whole(in.equity)
            Inside(net) == AtMost(net, limit) /\ AtMost(Zero -- limit, net)
        IN  Inside(after(EstSize(in)))

\* risk_engine.py validates the size "against exchange contract constraints":
\* an eligible one is one the exchange takes.
TakenIfEligible(in) ==
    Eligible(in) => in.known /\ Valid(Size(in), in.spec, FillOf(in))
=============================================================================
