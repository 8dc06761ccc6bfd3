------------------------------ MODULE EntryPolicy ------------------------------
(***************************************************************************)
(* Whether to enter, and how: the market state, the scores of a direction, *)
(* the maker's and the taker's decision (strategy.py), the choice between  *)
(* them (combined.py), their confirmation and the jump filter (filters.py).*)
(* A board says of each direction which of the signals reach their         *)
(* thresholds; the statistics behind them are left out.                    *)
(***************************************************************************)
EXTENDS Quoting

CONSTANTS
  AllowShort,        \* allow_short
  Policy,            \* entry_selection_policy
  MakerScore,        \* maker_score_threshold
  TakerScore,        \* taker_score_threshold
  AggressiveScore,   \* aggressive_taker_entry_score
  MakerConfirm,      \* maker_confirm_ticks
  TakerConfirm,      \* taker_confirm_ticks
  StrongConfirm,     \* strong_signal_confirm with use_adaptive_confirm, or 0
  MinQuality,        \* exec_quality_min_score
  UrgencyScore,      \* adaptive_taker_urgency_score
  MakerMinEdge,      \* maker_min_edge_ticks, in half ticks
  AdaptiveMinEdge,   \* adaptive_maker_min_edge_ticks, in half ticks
  AbnormalSpread,    \* abnormal_spread_ticks
  QueueSpread,       \* queue_spread_max_ticks
  AbnormalJump,      \* abnormal_price_jump_ticks, in half ticks
  JumpTicks,         \* jump_mid_ticks, in half ticks
  JumpCooldown       \* jump_cooldown_ms

ASSUME PolicyAssumption ==
  /\ AllowShort \in BOOLEAN
  /\ Policy \in {"adaptive", "taker_priority", "maker_priority"}
  /\ {MakerScore, TakerScore, AggressiveScore, MakerConfirm, TakerConfirm,
      StrongConfirm, MinQuality, UrgencyScore, MakerMinEdge, AdaptiveMinEdge,
      AbnormalSpread, QueueSpread, AbnormalJump, JumpTicks, JumpCooldown} \subseteq Nat

AtLeast(x, y) == IF x > y THEN x ELSE y

-------------------------------------------------------------------------------
(***************************************************************************)
(* The market.  The detector and the jump filter each remember a mid: the  *)
(* detector's is the last positive one, the filter's that of the last      *)
(* board, 0 when it had no valid quote.                                    *)
(***************************************************************************)

NewFilter == [known |-> 0, mid |-> 0, jumpAt |-> 0]

JumpOf(f, b) == IF f.known > 0 /\ Mid(b) > 0 THEN AbsOf(Mid(b) - f.known) ELSE 0

MarketState(f, b) ==
  IF \/ ~b.valid \/ b.special \/ b.aged \/ b.burst
     \/ Spread(b) >= AbnormalSpread
     \/ JumpOf(f, b) >= AbnormalJump
  THEN "ABNORMAL"
  ELSE IF 0 < Spread(b) /\ Spread(b) <= QueueSpread THEN "QUEUE"
  ELSE "NORMAL"

\* What the detector and JumpFilter.on_board keep of a board.
AfterMid(f, b, now) ==
  [known  |-> IF Mid(b) > 0 THEN Mid(b) ELSE f.known,
   mid    |-> Mid(b),
   jumpAt |-> IF /\ f.mid > 0 /\ JumpTicks > 0 /\ JumpCooldown > 0
                 /\ AbsOf(Mid(b) - f.mid) > JumpTicks
              THEN now ELSE f.jumpAt]

JumpBlocked(f, now) ==
  JumpCooldown > 0 /\ f.jumpAt > 0 /\ now - f.jumpAt < JumpCooldown

-------------------------------------------------------------------------------
(***************************************************************************)
(* Scores of a direction, from the signals that point to it.               *)
(***************************************************************************)

Features ==
  {"book", "tilt", "streak", "lob", "tape", "momentum", "light", "integrated"}

Weight(f) ==
  CASE f = "tape" -> 3
    [] f \in {"book", "tilt", "lob", "momentum"} -> 2
    [] f \in {"streak", "light", "integrated"} -> 1

SignalsFor(b, side) == IF side > 0 THEN b.long ELSE b.short

EntryScore(F) ==
  LET W(f) == IF f \in F THEN Weight(f) ELSE 0
  IN  W("book") + W("tilt") + W("streak") + W("lob") + W("tape") + W("momentum")
      + W("light") + W("integrated")

PrimaryChecksPass(F) ==
  /\ "book" \in F \/ "tilt" \in F
  /\ "lob" \in F \/ "tape" \in F
  /\ "momentum" \in F

BestDirection(b) ==
  IF AllowShort /\ EntryScore(b.short) > EntryScore(b.long) THEN -1 ELSE 1

-------------------------------------------------------------------------------
(***************************************************************************)
(* Decisions.                                                              *)
(***************************************************************************)

Blocked(reason) ==
  [allow |-> FALSE, reason |-> reason, mode |-> "", side |-> 0, score |-> 0, confirm |-> 1]

Allowed(mode, b, confirm) ==
  [allow |-> TRUE, reason |-> "", mode |-> mode, side |-> BestDirection(b),
   score |-> EntryScore(SignalsFor(b, BestDirection(b))), confirm |-> confirm]

MakerDecision(b, market) ==
  LET F == SignalsFor(b, BestDirection(b))
  IN  IF market = "ABNORMAL" THEN Blocked("market_abnormal")
      ELSE IF ~PrimaryChecksPass(F) THEN Blocked("maker_primary")
      ELSE IF EntryScore(F) < MakerScore THEN Blocked("maker_score")
      ELSE Allowed("maker", b, AtLeast(MakerConfirm, 1))

\* A very high score needs no confirmation, a doubly directed one needs more.
TakerConfirmation(F) ==
  IF AggressiveScore > 0 /\ EntryScore(F) >= AggressiveScore THEN 1
  ELSE IF {"book", "tilt"} \subseteq F
       THEN AtLeast(AtLeast(TakerConfirm, 1), StrongConfirm)
  ELSE AtLeast(TakerConfirm, 1)

\* `b.trigger': the first of depth breakout, price breakout and volatility
\* expansion that is ready, "" if none is; `b.quality': the execution quality.
TakerDecision(b) ==
  LET F == SignalsFor(b, BestDirection(b))
  IN  IF b.expired THEN Blocked("signal_expired")
      ELSE IF ~PrimaryChecksPass(F) THEN Blocked("taker_primary")
      ELSE IF EntryScore(F) < TakerScore THEN Blocked("taker_score")
      ELSE IF MinQuality > 0 /\ b.quality < MinQuality THEN Blocked("exec_quality")
      ELSE IF b.trigger = "" THEN Blocked("taker_breakout")
      ELSE Allowed("taker", b, TakerConfirmation(F))

TakerUrgency(b, taker) ==
  IF ~taker.allow THEN 0
  ELSE (IF b.trigger # "" THEN 2 ELSE 0)
       + (IF b.quality >= AtLeast(MinQuality, 8) THEN 1 ELSE 0)
       + (IF AggressiveScore > 0
          THEN IF taker.score >= AggressiveScore THEN 1 ELSE 0
          ELSE IF taker.score >= TakerScore + 2 THEN 1 ELSE 0)

\* When neither may enter: the maker's reason (it always finds a direction).
BothBlocked(maker) == maker

Adaptive(b, maker, taker, edge) ==
  LET viable == maker.allow /\ edge >= AtLeast(MakerMinEdge, AdaptiveMinEdge)
      urgent == taker.allow /\ TakerUrgency(b, taker) >= AtLeast(UrgencyScore, 1)
  IN  IF viable /\ ~urgent THEN maker
      ELSE IF taker.allow THEN taker
      ELSE IF maker.allow
           THEN [maker EXCEPT !.allow = FALSE, !.reason = "maker_edge_too_low"]
      ELSE BothBlocked(maker)

\* _select_entry.
SelectEntry(b, market, position) ==
  LET maker == MakerDecision(b, market)
      taker == TakerDecision(b)
      edge  == IF maker.allow THEN QuoteEdge(b, maker.side, position) ELSE 0
  IN  CASE Policy = "taker_priority" ->
             IF taker.allow THEN taker
             ELSE IF maker.allow THEN maker ELSE BothBlocked(maker)
        [] Policy = "maker_priority" ->
             IF maker.allow THEN maker
             ELSE IF taker.allow THEN taker ELSE BothBlocked(maker)
        [] Policy = "adaptive" -> Adaptive(b, maker, taker, edge)

-------------------------------------------------------------------------------
(***************************************************************************)
(* ConfirmationTracker.                                                    *)
(***************************************************************************)

NewConfirmation == [mode |-> "", side |-> 0, count |-> 0]

\* Mutant: the side is no part of the key.
ObserveMode(c, d) ==
  IF ~d.allow THEN NewConfirmation
  ELSE [mode |-> d.mode, side |-> d.side,
        count |-> IF c.mode = d.mode THEN c.count + 1 ELSE 1]

Observe(c, d) ==
  IF ~d.allow THEN NewConfirmation
  ELSE [mode |-> d.mode, side |-> d.side,
        count |-> IF c.mode = d.mode /\ c.side = d.side THEN c.count + 1 ELSE 1]

=============================================================================
