-------------------------------- MODULE Quoting --------------------------------
(***************************************************************************)
(* The passive quote of MakerStrategy (strategy.py): its price, its edge   *)
(* and the reasons to take it back.  Prices are in ticks; fair and         *)
(* reservation price in half ticks, since the mid may lie between two      *)
(* ticks.  `alpha' is the composite signal, in half ticks of fair value.   *)
(* A side is 1 (buy) or -1 (sell); prices times the side make one formula  *)
(* of the two mirrored ones in the code.                                   *)
(***************************************************************************)
EXTENDS Integers

CONSTANTS
  Retreat,        \* maker_retreat_ticks, or 0 with maker_join_best
  WideRetreat,    \* max_half_spread_ticks - min_half_spread_ticks
  ThinRetreat,    \* queue_retreat_ticks
  MaxShift,       \* max_fair_shift_ticks, in half ticks
  Skew,           \* inventory_skew_ticks for each lot held, in half ticks
  StrongAlpha,    \* strong_signal_threshold
  ExitAlpha,      \* alpha_exit_threshold
  DecayAlpha,     \* 0.6 * alpha_entry_threshold
  WideSpread,     \* spread_expanded_ticks
  MaxPending,     \* max_pending_ms
  MinAge,         \* min_order_age_ms
  FairDrift,      \* max_fair_drift_ticks, in half ticks
  QuoteDrift      \* max_quote_drift_ticks

ASSUME QuotingAssumption ==
  {Retreat, WideRetreat, ThinRetreat, MaxShift, Skew, StrongAlpha, ExitAlpha,
   DecayAlpha, WideSpread, MaxPending, MinAge, FairDrift, QuoteDrift} \subseteq Nat

Sides == {-1, 1}

AbsOf(x) == IF x < 0 THEN -x ELSE x

\* The touch an order of this side joins, and the one it must not reach.
OwnTouch(b, side) == IF side > 0 THEN b.bid ELSE b.ask

OtherTouch(b, side) == IF side > 0 THEN b.ask ELSE b.bid

Spread(b) == b.ask - b.bid

\* In half ticks.
Mid(b) == b.bid + b.ask

FairPrice(b) ==
  Mid(b) + (IF b.alpha > MaxShift THEN MaxShift
            ELSE IF b.alpha < -MaxShift THEN -MaxShift
            ELSE b.alpha)

\* The more is held, the lower the price at which more is wanted.
ReservationPrice(b, side, position) == FairPrice(b) - side * Skew * position

\* A volatile market and a thin queue each add to the distance from the touch.
ExtraRetreat(b) ==
  (IF b.volatile THEN WideRetreat ELSE 0) + (IF b.thin THEN ThinRetreat ELSE 0)

\* One tick better than the touch, if the spread and the fair price allow it.
CanImprove(b, side, reservation) ==
  /\ WideRetreat = 0 \/ ~b.volatile
  /\ side * b.alpha >= StrongAlpha
  /\ Spread(b) >= 2
  /\ side * (OwnTouch(b, side) + side) < side * OtherTouch(b, side)
  /\ side * reservation >= 2 * side * (OwnTouch(b, side) + side)

\* The nearer of two prices to the far side is left to the other one.
MorePassive(side, p, q) == IF side * p < side * q THEN p ELSE q

SelectQuotePrice(b, side, reservation) ==
  LET own  == OwnTouch(b, side)
      base == own - side * (Retreat + ExtraRetreat(b))
  IN  IF side * reservation <= 2 * side * (own - side)
      THEN MorePassive(side, base, own - side)
      ELSE IF CanImprove(b, side, reservation) THEN own + side
      ELSE MorePassive(side, base, OtherTouch(b, side) - side)

\* align_price: whole ticks already, but nothing below the first one.
AlignPrice(p) == IF p <= 0 THEN 0 ELSE p

QuotePrice(b, side, position) ==
  AlignPrice(SelectQuotePrice(b, side, ReservationPrice(b, side, position)))

\* In half ticks: what the quote gains against the reservation price.
QuoteEdge(b, side, position) ==
  LET p == QuotePrice(b, side, position)
      r == ReservationPrice(b, side, position)
  IN  IF p <= 0 \/ r <= 0 THEN 0 ELSE side * (r - 2 * p)

\* Why a working quote should be taken back, "" if it should stay.  `b.against'
\* holds the sides that tape, book or microprice have turned against.
CancelReason(b, side, working, desired, age, abnormal, stale) ==
  IF abnormal THEN "abnormal_market"
  ELSE IF stale THEN "stale_board"
  ELSE IF WideSpread > 0 /\ Spread(b) >= WideSpread THEN "spread_expanded"
  ELSE IF MaxPending > 0 /\ age >= MaxPending THEN "pending_timeout"
  ELSE IF MinAge > 0 /\ 0 < age /\ age < MinAge THEN ""
  ELSE IF side * b.alpha < -ExitAlpha THEN "alpha_flip"
  ELSE IF AbsOf(b.alpha) < DecayAlpha THEN "alpha_decay"
  ELSE IF side \in b.against THEN "flow_flip"
  ELSE IF working > 0 /\ FairDrift > 0 /\ AbsOf(FairPrice(b) - 2 * working) >= FairDrift
       THEN "fair_drift"
  ELSE IF desired > 0 /\ working > 0 /\ QuoteDrift > 0
          /\ AbsOf(desired - working) >= QuoteDrift
       THEN "quote_drift"
  ELSE ""

=============================================================================
