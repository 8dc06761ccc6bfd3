---------------------------- MODULE EntryPathProofs ----------------------------
(***************************************************************************)
(* The way from a board to an entry and back, for all boards, thresholds,  *)
(* windows and policies.                                                   *)
(***************************************************************************)
EXTENDS EntryPath, SumTheorems, TLAPS

-------------------------------------------------------------------------------
(***************************************************************************)
(* The passive quote stays passive.                                        *)
(***************************************************************************)

\* A board the filters let through: both touches known and not crossed.
SoundBoard(b) ==
  /\ b.bid \in Nat /\ b.ask \in Nat /\ b.bid < b.ask
  /\ b.alpha \in Int

\* A quote retreats by a whole number of ticks (calc_extra_retreat).
LEMMA DistanceIsNatural ==
  ASSUME NEW b
  PROVE  Retreat + ExtraRetreat(b) \in Nat
BY QuotingAssumption DEF ExtraRetreat

\* Whatever the reservation price, the selected price is short of the far touch.
LEMMA SelectedIsPassive ==
  ASSUME NEW b, SoundBoard(b), NEW side \in Sides, NEW r \in Int
  PROVE  LET p == SelectQuotePrice(b, side, r)
         IN  p \in Int /\ side * p < side * OtherTouch(b, side)
<1> DEFINE d == Retreat + ExtraRetreat(b)
<1>1. d \in Nat
  BY DistanceIsNatural
<1>2. SelectQuotePrice(b, side, r) =
        LET own == OwnTouch(b, side)
        IN  IF side * r <= 2 * side * (own - side)
            THEN MorePassive(side, own - side * d, own - side)
            ELSE IF CanImprove(b, side, r) THEN own + side
            ELSE MorePassive(side, own - side * d, OtherTouch(b, side) - side)
  BY DEF SelectQuotePrice
<1> HIDE DEF d
<1>3. CASE side = 1
  BY <1>1, <1>2, <1>3 DEF SoundBoard, OwnTouch, OtherTouch, MorePassive, CanImprove
<1>4. CASE side = -1
  BY <1>1, <1>2, <1>4 DEF SoundBoard, OwnTouch, OtherTouch, MorePassive, CanImprove
<1> QED
  BY <1>3, <1>4 DEF Sides

\* For all distances, shifts and skews, signals and positions: a quote on a board that
\* is not crossed never reaches the other touch (_select_quote_price, align_price).
THEOREM QuoteIsPassive ==
  ASSUME NEW b, SoundBoard(b), NEW side \in Sides, NEW held \in Nat
  PROVE  side * QuotePrice(b, side, held) < side * OtherTouch(b, side)
<1> DEFINE r == ReservationPrice(b, side, held)
           p == SelectQuotePrice(b, side, r)
<1>1. r \in Int
  BY QuotingAssumption DEF ReservationPrice, FairPrice, Mid, SoundBoard, Sides
<1>2. p \in Int /\ side * p < side * OtherTouch(b, side)
  BY <1>1, SelectedIsPassive
<1>3. QuotePrice(b, side, held) = IF p <= 0 THEN 0 ELSE p
  BY DEF QuotePrice, AlignPrice
<1> HIDE DEF r, p
<1>4. CASE side = 1
  BY <1>2, <1>3, <1>4 DEF SoundBoard, OtherTouch
<1>5. CASE side = -1
  BY <1>2, <1>3, <1>5 DEF SoundBoard, OtherTouch
<1> QED
  BY <1>4, <1>5 DEF Sides

-------------------------------------------------------------------------------
(***************************************************************************)
(* The time of the last board: nothing but update_board_ts sets it.        *)
(***************************************************************************)

HasBoard(r, t) == "lastBoard" \in DOMAIN r /\ r.lastBoard = t

LEMMA BoardRecorded ==
  ASSUME NEW r, NEW v, NEW t, HasBoard(r, v)
  PROVE  HasBoard(UpdateBoardTs(r, t), t)
BY DEF HasBoard, UpdateBoardTs

LEMMA CancelKeepsBoard ==
  ASSUME NEW r, NEW v, NEW t, NEW reason, HasBoard(r, v)
  PROVE  /\ HasBoard(AfterCancelAsked(r, reason, t), v)
         /\ HasBoard(RecordCancelRequest(r, reason, t), v)
<1>1. ASSUME NEW q, HasBoard(q, v) PROVE HasBoard(AfterBudgetAsked(q, t), v)
  BY <1>1 DEF HasBoard, AfterBudgetAsked
<1>2. ASSUME NEW q, HasBoard(q, v) PROVE HasBoard(RecordRequote(q, t), v)
  BY <1>2 DEF HasBoard, RecordRequote
<1> DEFINE q == [r EXCEPT !.cancels = Trim(@, t)]
           u == [r EXCEPT !.cancels = Append(Trim(@, t), t)]
<1>3. HasBoard(q, v) /\ HasBoard(u, v)
  BY DEF HasBoard
<1>4. HasBoard(AfterCancelAsked(r, reason, t), v)
  <2>1. AfterCancelAsked(r, reason, t) \in {r, q, AfterBudgetAsked(r, t), AfterBudgetAsked(q, t)}
    BY DEF AfterCancelAsked
  <2> HIDE DEF q, u
  <2> QED
    BY <1>1, <1>3, <2>1
<1>5. RecordCancelRequest(r, reason, t) \in {r, RecordRequote(u, t)}
  BY DEF RecordCancelRequest
<1> HIDE DEF q, u
<1> QED
  BY <1>2, <1>3, <1>4, <1>5

LEMMA GateKeepsBoard ==
  ASSUME NEW r, NEW v, NEW t, NEW abnormal, NEW quote, NEW p, HasBoard(r, v)
  PROVE  HasBoard(CanEnter(r, t, abnormal, quote, p).risk, v)
<1> DEFINE dated  == EnsureDailyDate(r, t)
           api    == AfterApiTest(dated, t)
           tested == AfterLatencyTest(api, t)
           rated  == IF MaxEntriesPerMinute > 0
                     THEN [tested EXCEPT !.entries = Trim(@, t)] ELSE tested
           ready  == AfterCoolingTest(rated)
<1>1. HasBoard(dated, v)
  BY DEF HasBoard, EnsureDailyDate
<1>2. HasBoard(api, v)
  <2> HIDE DEF dated
  <2> QED
    BY <1>1 DEF HasBoard, AfterApiTest, RecordApiSuccess
<1>3. HasBoard(tested, v)
  <2> HIDE DEF api
  <2> QED
    BY <1>2 DEF HasBoard, AfterLatencyTest
<1>4. HasBoard(rated, v)
  <2> HIDE DEF tested
  <2> QED
    BY <1>3 DEF HasBoard
<1>5. HasBoard(ready, v)
  <2> HIDE DEF rated
  <2> QED
    BY <1>4 DEF HasBoard, AfterCoolingTest
<1>6. CanEnter(r, t, abnormal, quote, p).risk \in {r, dated, api, tested, rated, ready}
  BY DEF CanEnter, Gate
<1> HIDE DEF dated, api, tested, rated, ready
<1> QED
  BY <1>1, <1>2, <1>3, <1>4, <1>5, <1>6

\* While an entry works the risk manager knows the time of the last board.
BoardKnown ==
  /\ now \in Nat \ {0}
  /\ "lastBoard" \in DOMAIN risk
  /\ entry # NoEntry => risk.lastBoard = now

\* The ways out of on_board record the board.
LEMMA OnBoardRecords ==
  ASSUME NEW b, NEW t, OnBoard(b, t), "lastBoard" \in DOMAIN risk
  PROVE  now' = t /\ HasBoard(risk', t)
<1> DEFINE r == UpdateBoardTs(risk, t)
<1>1. HasBoard(r, t)
  BY BoardRecorded DEF HasBoard
<1>2. now' = t
  BY DEF OnBoard
<1>3. \/ WorkingBoard(b, t, r) \/ BusyBoard(r) \/ JumpBoard(b, t, r)
      \/ AccountBoard(b, t, r) \/ FlatBoard(b, t, r)
  BY DEF OnBoard
<1> HIDE DEF r
<1>4. CASE WorkingBoard(b, t, r)
  <2>1. \E reason : \/ risk' = r
                    \/ risk' = AfterCancelAsked(r, reason, t)
                    \/ risk' = RecordCancelRequest(AfterCancelAsked(r, reason, t), reason, t)
    BY <1>4 DEF WorkingBoard
  <2> QED
    BY <1>1, <1>2, <2>1, CancelKeepsBoard
<1>5. CASE BusyBoard(r) \/ JumpBoard(b, t, r) \/ AccountBoard(b, t, r)
  BY <1>1, <1>2, <1>5 DEF BusyBoard, JumpBoard, AccountBoard, Refuse
<1>6. CASE FlatBoard(b, t, r)
  <2>1. \E abnormal, quote :
          LET g == CanEnter(r, t, abnormal, quote, position).risk
          IN  risk' = r \/ risk' = g \/ risk' = RecordEntryOrder(g, t)
    BY <1>6 DEF FlatBoard, Refuse, PlaceEntry
  <2>2. PICK abnormal, quote :
          LET g == CanEnter(r, t, abnormal, quote, position).risk
          IN  risk' = r \/ risk' = g \/ risk' = RecordEntryOrder(g, t)
    BY <2>1
  <2> DEFINE g == CanEnter(r, t, abnormal, quote, position).risk
  <2>3. HasBoard(g, t)
    BY <1>1, GateKeepsBoard
  <2>4. risk' = r \/ risk' = g \/ risk' = RecordEntryOrder(g, t)
    BY <2>2
  <2> HIDE DEF g
  <2>5. HasBoard(RecordEntryOrder(g, t), t)
    BY <2>3 DEF HasBoard, RecordEntryOrder
  <2> QED
    BY <1>1, <1>2, <2>3, <2>4, <2>5
<1> QED
  BY <1>3, <1>4, <1>5, <1>6

LEMMA BoardKnownStep == BoardKnown /\ [Next]_vars => BoardKnown'
<1> SUFFICES ASSUME BoardKnown, [Next]_vars PROVE BoardKnown'
  OBVIOUS
<1>1. ASSUME NEW b \in Boards, NEW dt \in Delays, OnBoard(b, now + dt) PROVE BoardKnown'
  <2>1. now + dt \in Nat \ {0}
    BY EntryAssumption DEF BoardKnown
  <2>2. now' = now + dt /\ HasBoard(risk', now + dt)
    BY <1>1, OnBoardRecords DEF BoardKnown
  <2> QED
    BY <2>1, <2>2 DEF BoardKnown, HasBoard
<1>2. ASSUME NEW n \in 1 .. MaxInventory, EntryFill(n) \/ ExitFill(n) PROVE BoardKnown'
  <2>1. now' = now /\ risk' = risk
    BY <1>2 DEF EntryFill, ExitFill
  <2>2. entry = NoEntry => entry' = NoEntry
    <3>1. NoEntry.qty = 0 /\ ~(n <= 0)
      BY RiskAssumption DEF NoEntry
    <3>2. entry = NoEntry => ~EntryFill(n)
      BY <3>1 DEF EntryFill
    <3> QED
      BY <1>2, <3>2 DEF ExitFill
  <2> QED
    BY <2>1, <2>2 DEF BoardKnown
<1>3. CASE EntryEnds
  BY <1>3 DEF EntryEnds, BoardKnown
<1>4. CASE Restart
  BY <1>4 DEF Restart, NewRisk, BoardKnown
<1>5. CASE UNCHANGED vars
  BY <1>5 DEF vars, BoardKnown
<1> QED
  BY <1>1, <1>2, <1>3, <1>4, <1>5 DEF Next

\* For all boards, windows and budgets: the first board after a gap takes a working
\* quote back.
THEOREM GapsTakeQuotesBack == Spec => GapTakesQuoteBack
<1>1. Init => BoardKnown
  <2>1. "lastBoard" \in DOMAIN NewRisk
    BY DEF NewRisk
  <2>2. Init => now = 1 /\ risk = NewRisk /\ entry = NoEntry
    BY DEF Init
  <2> QED
    BY <2>1, <2>2 DEF BoardKnown
<1>2. BoardKnown /\ [Next]_vars =>
        [ StaleBoard > 0 /\ now' - now > StaleBoard /\ entry # NoEntry =>
            result'.signal # "" ]_vars
  <2> SUFFICES ASSUME BoardKnown, [Next]_vars, StaleBoard > 0, now' - now > StaleBoard,
                      entry # NoEntry
               PROVE  result'.signal # ""
    OBVIOUS
  <2>1. now' # now
    BY RiskAssumption DEF BoardKnown
  <2>2. PICK b \in Boards, dt \in Delays : OnBoard(b, now + dt)
    BY <2>1 DEF Next, EntryFill, ExitFill, EntryEnds, Restart, vars
  <2> DEFINE t == now + dt
             r == UpdateBoardTs(risk, t)
  <2>3. WorkingBoard(b, t, r) /\ now' = t
    BY <2>2 DEF OnBoard, BusyBoard, JumpBoard, AccountBoard, FlatBoard
  <2>4. BoardIsStale(t)
    BY <2>3 DEF BoardIsStale, IsStaleBoard, BoardKnown
  <2> HIDE DEF t, r
  <2>5. PICK reason : /\ reason \in {"abnormal_market", "stale_board"}
                      /\ result' = IF reason = "" THEN Result("", "", "working_entry")
                                   ELSE IF CancelHeld(r, reason, t) # ""
                                   THEN Result("", CancelHeld(r, reason, t), "working_entry")
                                   ELSE Result(reason, "", "working_entry")
    BY <2>3, <2>4 DEF WorkingBoard, CancelReason
  <2>6. CancelHeld(r, reason, t) = ""
    BY <2>5 DEF CancelHeld, UrgentReasons
  <2> QED
    BY <2>5, <2>6 DEF Result
<1> QED
  BY <1>1, <1>2, BoardKnownStep, PTL DEF Spec, GapTakesQuoteBack

-------------------------------------------------------------------------------
(***************************************************************************)
(* Confirmation: the count of the tracker is how many of the last choices  *)
(* agree with its key.                                                     *)
(***************************************************************************)

Modes == {"", "maker", "taker"}

Choices == Modes \X Int

IsDecision(d) ==
  /\ DOMAIN d = {"allow", "reason", "mode", "side", "score", "confirm"}
  /\ d.allow \in BOOLEAN /\ d.mode \in Modes /\ d.side \in Int
  /\ d.confirm \in 1 .. LongestConfirm

LEMMA LongestIsLongest ==
  /\ LongestConfirm \in Nat /\ LongestConfirm >= 1 /\ LongestConfirm >= MakerConfirm
  /\ LongestConfirm >= TakerConfirm /\ LongestConfirm >= StrongConfirm
  /\ MakerConfirm \in Nat /\ TakerConfirm \in Nat /\ StrongConfirm \in Nat
BY PolicyAssumption DEF LongestConfirm, AtLeast

LEMMA BlockedIsDecision ==
  ASSUME NEW reason
  PROVE  IsDecision(Blocked(reason))
<1> DEFINE d == Blocked(reason)
<1>1. DOMAIN d = {"allow", "reason", "mode", "side", "score", "confirm"}
  BY DEF Blocked
<1>2. d.allow = FALSE
  BY DEF Blocked
<1>3. d.mode = "" /\ d.side = 0 /\ d.confirm = 1
  BY DEF Blocked
<1> HIDE DEF d
<1>4. d.allow \in BOOLEAN
  BY <1>2
<1>5. d.mode \in Modes
  BY <1>3 DEF Modes
<1>6. d.side = 0 /\ d.confirm = 1
  BY <1>3
<1>7. d.side \in Int /\ d.confirm \in 1 .. LongestConfirm
  BY <1>6, LongestIsLongest
<1> QED
  BY <1>1, <1>4, <1>5, <1>7 DEF IsDecision, d

LEMMA AllowedIsDecision ==
  ASSUME NEW mode \in Modes, NEW b, NEW n \in 1 .. LongestConfirm
  PROVE  IsDecision(Allowed(mode, b, n))
<1>1. BestDirection(b) \in Int
  BY DEF BestDirection
<1> QED
  BY <1>1 DEF Allowed, IsDecision

LEMMA MakerIsDecision ==
  ASSUME NEW b, NEW market
  PROVE  IsDecision(MakerDecision(b, market))
<1>1. AtLeast(MakerConfirm, 1) \in 1 .. LongestConfirm
  BY LongestIsLongest DEF AtLeast
<1>2. \/ \E reason : MakerDecision(b, market) = Blocked(reason)
      \/ MakerDecision(b, market) = Allowed("maker", b, AtLeast(MakerConfirm, 1))
  BY DEF MakerDecision
<1>3. IsDecision(Allowed("maker", b, AtLeast(MakerConfirm, 1)))
  BY <1>1, AllowedIsDecision DEF Modes
<1>4. CASE \E reason : MakerDecision(b, market) = Blocked(reason)
  <2>1. PICK reason : MakerDecision(b, market) = Blocked(reason)
    BY <1>4
  <2> QED
    BY <2>1, BlockedIsDecision
<1> QED
  BY <1>2, <1>3, <1>4

LEMMA TakerIsDecision ==
  ASSUME NEW b
  PROVE  IsDecision(TakerDecision(b))
<1>1. ASSUME NEW F PROVE TakerConfirmation(F) \in 1 .. LongestConfirm
  BY LongestIsLongest DEF TakerConfirmation, AtLeast
<1>2. \/ \E reason : TakerDecision(b) = Blocked(reason)
      \/ \E F : TakerDecision(b) = Allowed("taker", b, TakerConfirmation(F))
  BY DEF TakerDecision
<1>3. CASE \E reason : TakerDecision(b) = Blocked(reason)
  <2>1. PICK reason : TakerDecision(b) = Blocked(reason)
    BY <1>3
  <2> QED
    BY <2>1, BlockedIsDecision
<1>4. CASE \E F : TakerDecision(b) = Allowed("taker", b, TakerConfirmation(F))
  <2>1. PICK F : TakerDecision(b) = Allowed("taker", b, TakerConfirmation(F))
    BY <1>4
  <2>2. IsDecision(Allowed("taker", b, TakerConfirmation(F)))
    BY <1>1, AllowedIsDecision DEF Modes
  <2> QED
    BY <2>1, <2>2
<1> QED
  BY <1>2, <1>3, <1>4

LEMMA SelectedIsDecision ==
  ASSUME NEW b, NEW market, NEW p
  PROVE  IsDecision(SelectEntry(b, market, p))
<1> DEFINE maker == MakerDecision(b, market)
           taker == TakerDecision(b)
           poor  == [maker EXCEPT !.allow = FALSE, !.reason = "maker_edge_too_low"]
<1>1. IsDecision(maker) /\ IsDecision(taker)
  BY MakerIsDecision, TakerIsDecision
<1>2. SelectEntry(b, market, p) \in {maker, taker, poor}
  BY PolicyAssumption DEF SelectEntry, Adaptive, BothBlocked
<1> HIDE DEF maker, taker
<1>3. IsDecision(poor)
  BY <1>1 DEF IsDecision
<1> HIDE DEF poor
<1> QED
  BY <1>1, <1>2, <1>3

\* The end of what is kept is the end of what was there.
LEMMA LatestKeepsEnd ==
  ASSUME NEW S, NEW s \in Seq(S), NEW n \in Nat, n >= 1
  PROVE  /\ Latest(n, s) \in Seq(S)
         /\ Len(Latest(n, s)) = IF Len(s) <= n THEN Len(s) ELSE n
         /\ \A k \in 1 .. Len(Latest(n, s)) :
              Latest(n, s)[Len(Latest(n, s)) - k + 1] = s[Len(s) - k + 1]
<1>1. CASE Len(s) <= n
  BY <1>1 DEF Latest
<1>2. CASE ~(Len(s) <= n)
  <2>1. Latest(n, s) = SubSeq(s, Len(s) - n + 1, Len(s))
    BY <1>2 DEF Latest
  <2>2. /\ Len(s) \in Nat /\ Len(s) > n
        /\ Len(s) - n + 1 \in 1 .. Len(s)
    BY <1>2
  <2>3. /\ Latest(n, s) \in Seq(S) /\ Len(Latest(n, s)) = n
        /\ \A i \in 1 .. n : Latest(n, s)[i] = s[Len(s) - n + i]
    BY <2>1, <2>2
  <2>4. ASSUME NEW k \in 1 .. n PROVE Latest(n, s)[n - k + 1] = s[Len(s) - k + 1]
    <3>1. n - k + 1 \in 1 .. n /\ Len(s) - n + (n - k + 1) = Len(s) - k + 1
      BY <2>2
    <3> QED
      BY <2>3, <3>1
  <2> QED
    BY <1>2, <2>3, <2>4
<1> QED
  BY <1>1, <1>2

\* The last choices, as far as they are kept and the tracker counts.
Row(c, s) ==
  \A k \in 1 .. LongestConfirm :
    k <= c.count => k <= Len(s) /\ s[Len(s) - k + 1] = <<c.mode, c.side>>

\* A tracker that starts again counts nothing.
LEMMA StartsTracked ==
  ASSUME NEW s
  PROVE  NewConfirmation.count = 0 /\ Row(NewConfirmation, s)
<1>1. NewConfirmation.count = 0
  BY DEF NewConfirmation
<1>2. \A k \in 1 .. LongestConfirm : ~(k <= 0)
  BY LongestIsLongest
<1> QED
  BY <1>1, <1>2 DEF Row

Choice(d) == IF d.allow THEN <<d.mode, d.side>> ELSE <<"", 0>>

LEMMA RowGrows ==
  ASSUME NEW c, c.count \in Nat, NEW s \in Seq(Choices), Row(c, s), NEW d, IsDecision(d)
  PROVE  LET z == Latest(LongestConfirm, Append(s, Choice(d)))
         IN  /\ z \in Seq(Choices)
             /\ Observe(c, d).count \in Nat
             /\ Row(Observe(c, d), z)
             /\ d.allow => Observe(c, d).mode = d.mode /\ Observe(c, d).side = d.side
<1> DEFINE a == Append(s, Choice(d))
           z == Latest(LongestConfirm, a)
<1>1. Choice(d) \in Choices
  <2>1. d.mode \in Modes /\ d.side \in Int
    BY DEF IsDecision
  <2>2. <<d.mode, d.side>> \in Choices
    BY <2>1 DEF Choices
  <2>3. "" \in Modes /\ 0 \in Int
    BY DEF Modes
  <2>4. <<"", 0>> \in Choices
    BY <2>3 DEF Choices
  <2> QED
    BY <2>2, <2>4 DEF Choice
<1>2. /\ a \in Seq(Choices) /\ Len(a) = Len(s) + 1 /\ a[Len(s) + 1] = Choice(d)
      /\ \A i \in 1 .. Len(s) : a[i] = s[i]
      /\ Len(s) \in Nat
  BY <1>1
<1> HIDE DEF a
<1>3. /\ z \in Seq(Choices)
      /\ Len(z) = IF Len(a) <= LongestConfirm THEN Len(a) ELSE LongestConfirm
      /\ \A k \in 1 .. Len(z) : z[Len(z) - k + 1] = a[Len(a) - k + 1]
  BY <1>2, LongestIsLongest, LatestKeepsEnd
<1> HIDE DEF z
<1>4. Observe(c, d).count \in Nat
  BY DEF Observe, NewConfirmation
<1>5. CASE ~d.allow
  <2>1. Observe(c, d) = NewConfirmation
    BY <1>5 DEF Observe
  <2> QED
    BY <1>3, <1>4, <1>5, <2>1, StartsTracked DEF z, a
<1>6. CASE d.allow
  <2> DEFINE o == Observe(c, d)
  <2>1. /\ o.mode = d.mode /\ o.side = d.side
        /\ o.count = IF c.mode = d.mode /\ c.side = d.side THEN c.count + 1 ELSE 1
    BY <1>6 DEF Observe
  <2>2. Choice(d) = <<d.mode, d.side>>
    BY <1>6 DEF Choice
  <2> HIDE DEF o
  <2>3. ASSUME NEW k \in 1 .. LongestConfirm, k <= o.count
        PROVE  k <= Len(z) /\ z[Len(z) - k + 1] = <<o.mode, o.side>>
    <3>1. CASE k = 1
      <4>1. 1 \in 1 .. Len(z)
        BY <1>2, <1>3, LongestIsLongest
      <4>2. z[Len(z) - 1 + 1] = a[Len(a) - 1 + 1]
        BY <1>3, <4>1
      <4>3. Len(a) - 1 + 1 = Len(s) + 1
        BY <1>2
      <4> QED
        BY <1>2, <2>1, <2>2, <3>1, <4>1, <4>2, <4>3
    <3>2. CASE k # 1
      <4>1. c.mode = d.mode /\ c.side = d.side /\ k - 1 <= c.count /\ k - 1 \in 1 .. LongestConfirm
        BY <2>1, <2>3, <3>2, LongestIsLongest
      <4>2. k - 1 <= Len(s) /\ s[Len(s) - (k - 1) + 1] = <<d.mode, d.side>>
        BY <4>1 DEF Row
      <4>3. k \in 1 .. Len(z)
        BY <1>2, <1>3, <4>2, LongestIsLongest
      <4>4. z[Len(z) - k + 1] = a[Len(a) - k + 1]
        BY <1>3, <4>3
      <4>5. /\ Len(a) - k + 1 = Len(s) - (k - 1) + 1
            /\ Len(a) - k + 1 \in 1 .. Len(s)
        BY <1>2, <3>2, <4>2
      <4> QED
        BY <1>2, <2>1, <4>2, <4>3, <4>4, <4>5
    <3> QED
      BY <3>1, <3>2
  <2> QED
    BY <1>3, <1>4, <2>1, <2>3 DEF Row, o, z, a
<1> QED
  BY <1>5, <1>6

\* The tracker and the history agree.
Tracked == confirm.count \in Nat /\ chosen \in Seq(Choices) /\ Row(confirm, chosen)

\* On a flat board the tracker observes the choice, or starts again.
LEMMA FlatBoardTracks ==
  ASSUME Tracked, NEW b, NEW t, NEW r, FlatBoard(b, t, r)
  PROVE  \E d : /\ IsDecision(d)
                /\ chosen' = Latest(LongestConfirm, Append(chosen, Choice(d)))
                /\ confirm' = Observe(confirm, d) \/ confirm' = NewConfirmation
                /\ entry' # entry =>
                     /\ d.allow /\ Observe(confirm, d).count >= d.confirm
                     /\ confirm' = Observe(confirm, d)
                     /\ entry'.mode = d.mode /\ entry'.side = d.side
                     /\ entry'.confirm = d.confirm
<1> DEFINE d == SelectEntry(b, MarketState(filter, b), position)
           c == Observe(confirm, d)
<1>1. IsDecision(d)
  BY SelectedIsDecision
<1>2. chosen' = Latest(LongestConfirm, Append(chosen, Choice(d)))
  BY DEF FlatBoard, Choice
<1>3. \/ confirm' = c /\ entry' = entry
      \/ confirm' = NewConfirmation /\ entry' = entry
      \/ /\ d.allow /\ ~(c.count < d.confirm)
         /\ \E qty, g : PlaceEntry(b, d, qty, t, g)
  BY DEF FlatBoard, Refuse
<1> HIDE DEF d
<1>4. ASSUME NEW qty, NEW g, PlaceEntry(b, d, qty, t, g)
      PROVE  /\ confirm' = c
             /\ entry'.mode = d.mode /\ entry'.side = d.side /\ entry'.confirm = d.confirm
  BY <1>4 DEF PlaceEntry
<1>5. c.count \in Nat /\ d.confirm \in Nat
  BY <1>1, LongestIsLongest DEF Tracked, Observe, NewConfirmation, IsDecision
<1> HIDE DEF c
<1>6. ~(c.count < d.confirm) => c.count >= d.confirm
  BY <1>5
<1> QED
  BY <1>1, <1>2, <1>3, <1>4, <1>6 DEF c

LEMMA TrackedStep == Tracked /\ [Next]_vars => Tracked'
<1> SUFFICES ASSUME Tracked, [Next]_vars PROVE Tracked'
  OBVIOUS
<1>1. ASSUME NEW b, NEW t, OnBoard(b, t) PROVE Tracked'
  <2> DEFINE r == UpdateBoardTs(risk, t)
  <2>1. \/ UNCHANGED <<confirm, chosen>>
        \/ confirm' = NewConfirmation /\ (chosen' = <<>> \/ chosen' = chosen)
        \/ FlatBoard(b, t, r)
    BY <1>1 DEF OnBoard, WorkingBoard, BusyBoard, JumpBoard, AccountBoard, Refuse
  <2>2. CASE FlatBoard(b, t, r)
    <3>1. PICK d : /\ IsDecision(d)
                   /\ chosen' = Latest(LongestConfirm, Append(chosen, Choice(d)))
                   /\ confirm' = Observe(confirm, d) \/ confirm' = NewConfirmation
      BY <2>2, FlatBoardTracks
    <3>2. /\ chosen' \in Seq(Choices) /\ Observe(confirm, d).count \in Nat
          /\ Row(Observe(confirm, d), chosen')
      BY <3>1, RowGrows DEF Tracked
    <3> QED
      BY <3>1, <3>2, StartsTracked DEF Tracked
  <2>3. CASE UNCHANGED <<confirm, chosen>>
    BY <2>3 DEF Tracked
  <2>4. CASE confirm' = NewConfirmation /\ (chosen' = <<>> \/ chosen' = chosen)
    <3>1. chosen \in Seq(Choices) /\ <<>> \in Seq(Choices)
      BY DEF Tracked
    <3>2. confirm'.count \in Nat /\ Row(confirm', chosen')
      BY <2>4, StartsTracked
    <3> QED
      BY <2>4, <3>1, <3>2 DEF Tracked
  <2> QED
    BY <2>1, <2>2, <2>3, <2>4
<1>2. CASE Restart
  <2>1. confirm' = NewConfirmation /\ chosen' = <<>>
    BY <1>2 DEF Restart
  <2>2. chosen' \in Seq(Choices)
    BY <2>1
  <2>3. confirm'.count \in Nat /\ Row(confirm', chosen')
    BY <2>1, StartsTracked
  <2> QED
    BY <2>2, <2>3 DEF Tracked, Row
<1>3. CASE UNCHANGED <<confirm, chosen>>
  BY <1>3 DEF Tracked
<1> QED
  BY <1>1, <1>2, <1>3 DEF Next, EntryFill, ExitFill, EntryEnds, vars

\* For all boards, thresholds and policies: an entry follows as many agreeing boards
\* in a row as its decision asks for.
THEOREM EntriesAreConfirmed == Spec => ConfirmedEntry
<1>1. Init => Tracked
  <2> SUFFICES ASSUME Init PROVE Tracked
    OBVIOUS
  <2>1. confirm = NewConfirmation /\ chosen = <<>>
    BY DEF Init
  <2>2. chosen \in Seq(Choices)
    BY <2>1
  <2> QED
    BY <2>1, <2>2, StartsTracked DEF Tracked
<1>2. Tracked /\ [Next]_vars =>
        [ entry = NoEntry /\ entry' # NoEntry =>
            /\ Len(chosen') >= entry'.confirm
            /\ \A i \in DOMAIN chosen' :
                 i > Len(chosen') - entry'.confirm =>
                   chosen'[i] = <<entry'.mode, entry'.side>> ]_vars
  <2> SUFFICES ASSUME Tracked, [Next]_vars, entry = NoEntry, entry' # NoEntry
               PROVE  /\ Len(chosen') >= entry'.confirm
                      /\ \A i \in DOMAIN chosen' :
                           i > Len(chosen') - entry'.confirm =>
                             chosen'[i] = <<entry'.mode, entry'.side>>
    OBVIOUS
  <2>1. NoEntry.qty = 0 /\ \A n \in 1 .. MaxInventory : ~(n <= 0)
    <3>1. NoEntry.qty = 0
      BY DEF NoEntry
    <3>2. \A n \in 1 .. MaxInventory : ~(n <= 0)
      BY RiskAssumption
    <3> QED
      BY <3>1, <3>2
  <2>2. PICK b, t, r : FlatBoard(b, t, r)
    BY <2>1 DEF Next, OnBoard, WorkingBoard, BusyBoard, JumpBoard, AccountBoard, Refuse,
                EntryFill, ExitFill, EntryEnds, Restart, vars
  <2>3. PICK d : /\ IsDecision(d)
                 /\ chosen' = Latest(LongestConfirm, Append(chosen, Choice(d)))
                 /\ d.allow /\ Observe(confirm, d).count >= d.confirm
                 /\ entry'.mode = d.mode /\ entry'.side = d.side
                 /\ entry'.confirm = d.confirm
    BY <2>2, FlatBoardTracks
  <2> DEFINE o == Observe(confirm, d)
  <2>4. /\ chosen' \in Seq(Choices) /\ o.count \in Nat /\ Row(o, chosen')
        /\ o.mode = d.mode /\ o.side = d.side /\ o.count >= d.confirm
    BY <2>3, RowGrows DEF Tracked
  <2> HIDE DEF o
  <2>5. d.confirm \in 1 .. LongestConfirm /\ Len(chosen') \in Nat /\ LongestConfirm \in Nat
    BY <2>3, <2>4, LongestIsLongest DEF IsDecision
  <2>6. \A k \in 1 .. LongestConfirm : k <= d.confirm =>
          k <= Len(chosen') /\ chosen'[Len(chosen') - k + 1] = <<d.mode, d.side>>
    BY <2>4, <2>5 DEF Row
  <2>7. Len(chosen') >= d.confirm
    BY <2>5, <2>6
  <2>8. ASSUME NEW i \in DOMAIN chosen', i > Len(chosen') - d.confirm
        PROVE  chosen'[i] = <<d.mode, d.side>>
    <3>1. i \in 1 .. Len(chosen')
      BY <2>4
    <3>2. /\ Len(chosen') - i + 1 \in 1 .. LongestConfirm
          /\ Len(chosen') - i + 1 <= d.confirm
          /\ Len(chosen') - (Len(chosen') - i + 1) + 1 = i
      BY <2>5, <2>8, <3>1
    <3> DEFINE k == Len(chosen') - i + 1
    <3>3. k \in 1 .. LongestConfirm /\ k <= d.confirm /\ Len(chosen') - k + 1 = i
      BY <3>2
    <3> HIDE DEF k
    <3> QED
      BY <2>6, <3>3
  <2> QED
    BY <2>3, <2>7, <2>8
<1> QED
  BY <1>1, <1>2, TrackedStep, PTL DEF Spec, ConfirmedEntry

-------------------------------------------------------------------------------
(***************************************************************************)
(* Rate windows.  A window is the end of a history: what it no longer      *)
(* holds is a minute old.                                                  *)
(***************************************************************************)

\* Times up to t, in order.
IsWindow(w, t) ==
  /\ w \in Seq(Nat)
  /\ \A i \in 1 .. Len(w) : w[i] \in 1 .. t
  /\ \A i, j \in 1 .. Len(w) : i < j => w[i] <= w[j]

\* At time t the window w is the end of the history h, and what is before it is old.
Covers(w, h, t) ==
  /\ Len(w) <= Len(h)
  /\ \A i \in 1 .. Len(w) : w[i] = h[Len(h) - Len(w) + i]
  /\ \A j \in 1 .. Len(h) - Len(w) : t - h[j] >= Minute

\* Trimming drops a beginning, and only what is a minute old (_trim_window).
LEMMA TrimIsEnd ==
  ASSUME NEW w \in Seq(Nat), NEW t \in Nat
  PROVE  \E k \in 0 .. Len(w) :
           /\ Trim(w, t) \in Seq(Nat) /\ Len(Trim(w, t)) = Len(w) - k
           /\ \A i \in 1 .. Len(w) - k : Trim(w, t)[i] = w[k + i]
           /\ \A i \in 1 .. k : t - w[i] >= Minute
<1> DEFINE Y == {i \in DOMAIN w : t - w[i] < Minute}
<1>0. Minute \in Nat
  BY RiskAssumption
<1>1. /\ Len(w) \in Nat /\ DOMAIN w = 1 .. Len(w)
      /\ \A i \in 1 .. Len(w) : w[i] \in Nat
  OBVIOUS
<1>2. \A i \in 1 .. Len(w) : i \notin Y => t - w[i] >= Minute
  BY <1>0, <1>1
<1>3. Y \subseteq 1 .. Len(w)
  BY <1>1
<1>4. Trim(w, t) = FromFirst(w, Y)
  BY DEF Trim
<1> HIDE DEF Y
<1>5. CASE Y = {}
  <2>1. Trim(w, t) = <<>>
    BY <1>4, <1>5 DEF FromFirst
  <2>2. Len(w) \in 0 .. Len(w) /\ Len(w) - Len(w) = 0
    BY <1>1
  <2> QED
    BY <1>2, <1>5, <2>1, <2>2
<1>6. CASE Y # {}
  <2>1. PICK n \in Y : \A m \in Y : n <= m
    <3>1. Y \subseteq Nat
      BY <1>1, <1>3
    <3> QED
      BY <1>6, <3>1, LeastNatural
  <2> DEFINE c == CHOOSE i \in Y : \A j \in Y : i <= j
  <2>2. c \in Y /\ \A j \in Y : c <= j
    BY <2>1
  <2>3. Trim(w, t) = SubSeq(w, c, Len(w))
    BY <1>4, <1>6 DEF FromFirst
  <2> HIDE DEF c
  <2>4. c \in 1 .. Len(w)
    BY <1>3, <2>2
  <2>5. /\ Trim(w, t) \in Seq(Nat) /\ Len(Trim(w, t)) = Len(w) - (c - 1)
        /\ \A i \in 1 .. Len(w) - (c - 1) : Trim(w, t)[i] = w[c - 1 + i]
    BY <1>1, <2>3, <2>4
  <2>6. ASSUME NEW i \in 1 .. c - 1 PROVE t - w[i] >= Minute
    <3>1. i \in 1 .. Len(w) /\ ~(c <= i)
      BY <1>1, <2>4
    <3> QED
      BY <1>2, <2>2, <3>1
  <2>7. c - 1 \in 0 .. Len(w)
    BY <1>1, <2>4
  <2> QED
    BY <2>5, <2>6, <2>7
<1> QED
  BY <1>5, <1>6

\* A window stays one when it is trimmed, and as time goes by.
LEMMA TrimmedWindow ==
  ASSUME NEW w, NEW t \in Nat, NEW u \in Nat, t <= u, IsWindow(w, t)
  PROVE  IsWindow(w, u) /\ IsWindow(Trim(w, u), u) /\ Len(Trim(w, u)) <= Len(w)
<1>1. w \in Seq(Nat) /\ Len(w) \in Nat
  BY DEF IsWindow
<1>2. IsWindow(w, u)
  BY <1>1 DEF IsWindow
<1>3. PICK k \in 0 .. Len(w) :
         /\ Trim(w, u) \in Seq(Nat) /\ Len(Trim(w, u)) = Len(w) - k
         /\ \A i \in 1 .. Len(w) - k : Trim(w, u)[i] = w[k + i]
  BY <1>1, TrimIsEnd
<1> DEFINE z == Trim(w, u)
<1> HIDE DEF z
<1>4. /\ z \in Seq(Nat) /\ Len(z) = Len(w) - k /\ \A i \in 1 .. Len(z) : z[i] = w[k + i]
      /\ \A i \in 1 .. Len(z) : k + i \in 1 .. Len(w)
  BY <1>1, <1>3 DEF z
<1>5. \A i \in 1 .. Len(z) : z[i] \in 1 .. u
  BY <1>2, <1>4 DEF IsWindow
<1>6. ASSUME NEW i \in 1 .. Len(z), NEW j \in 1 .. Len(z), i < j
      PROVE  z[i] <= z[j]
  <2>1. k + i < k + j /\ k + i \in 1 .. Len(w) /\ k + j \in 1 .. Len(w)
    BY <1>1, <1>4, <1>6
  <2>2. w[k + i] <= w[k + j]
    BY <2>1 DEF IsWindow
  <2> QED
    BY <1>4, <2>2
<1>7. IsWindow(z, u) /\ Len(z) <= Len(w)
  BY <1>1, <1>4, <1>5, <1>6 DEF IsWindow
<1> QED
  BY <1>2, <1>7 DEF z

\* The time of the moment may be put at the end.
LEMMA GrownWindow ==
  ASSUME NEW w, NEW t \in Nat \ {0}, IsWindow(w, t)
  PROVE  IsWindow(Append(w, t), t)
<1> DEFINE a == Append(w, t)
<1>1. w \in Seq(Nat) /\ Len(w) \in Nat
  BY DEF IsWindow
<1>2. /\ a \in Seq(Nat) /\ Len(a) = Len(w) + 1 /\ a[Len(w) + 1] = t
      /\ \A i \in 1 .. Len(w) : a[i] = w[i]
  BY <1>1
<1> HIDE DEF a
<1>3. \A i \in 1 .. Len(a) : a[i] \in 1 .. t
  BY <1>1, <1>2 DEF IsWindow
<1>4. ASSUME NEW i \in 1 .. Len(a), NEW j \in 1 .. Len(a), i < j
      PROVE  a[i] <= a[j]
  <2>1. i \in 1 .. Len(w) /\ a[i] = w[i]
    BY <1>1, <1>2, <1>4
  <2>2. CASE j = Len(w) + 1
    BY <1>2, <1>3, <2>2
  <2>3. CASE j # Len(w) + 1
    <3>1. j \in 1 .. Len(w) /\ a[j] = w[j]
      BY <1>1, <1>2, <2>3
    <3> QED
      BY <1>4, <2>1, <3>1 DEF IsWindow
  <2> QED
    BY <2>2, <2>3
<1>5. IsWindow(a, t)
  BY <1>2, <1>3, <1>4 DEF IsWindow
<1> QED
  BY <1>5 DEF a

\* What is kept of a history is a window.
LEMMA KeptWindow ==
  ASSUME NEW w, NEW t \in Nat, IsWindow(w, t), NEW n \in Nat, n >= 1
  PROVE  IsWindow(Latest(n, w), t)
<1> DEFINE z == Latest(n, w)
<1>1. w \in Seq(Nat) /\ Len(w) \in Nat
  BY DEF IsWindow
<1>2. /\ z \in Seq(Nat) /\ Len(z) = IF Len(w) <= n THEN Len(w) ELSE n
      /\ \A k \in 1 .. Len(z) : z[Len(z) - k + 1] = w[Len(w) - k + 1]
  BY <1>1, LatestKeepsEnd
<1> HIDE DEF z
<1>0. Len(z) \in Nat /\ Len(z) <= Len(w)
  BY <1>1, <1>2
<1>3. ASSUME NEW i \in 1 .. Len(z)
      PROVE  /\ Len(w) - Len(z) + i \in 1 .. Len(w)
             /\ z[i] = w[Len(w) - Len(z) + i]
  <2> DEFINE k == Len(z) - i + 1
  <2>1. /\ k \in 1 .. Len(z) /\ Len(z) - k + 1 = i
        /\ Len(w) - k + 1 = Len(w) - Len(z) + i
        /\ Len(w) - Len(z) + i \in 1 .. Len(w)
    BY <1>0, <1>1
  <2> HIDE DEF k
  <2>2. z[Len(z) - k + 1] = w[Len(w) - k + 1]
    BY <1>2, <2>1
  <2> QED
    BY <2>1, <2>2
<1>4. \A i \in 1 .. Len(z) : z[i] \in 1 .. t
  BY <1>3 DEF IsWindow
<1>5. ASSUME NEW i \in 1 .. Len(z), NEW j \in 1 .. Len(z), i < j
      PROVE  z[i] <= z[j]
  <2>1. /\ Len(w) - Len(z) + i \in 1 .. Len(w) /\ Len(w) - Len(z) + j \in 1 .. Len(w)
        /\ z[i] = w[Len(w) - Len(z) + i] /\ z[j] = w[Len(w) - Len(z) + j]
    BY <1>3
  <2>2. Len(w) - Len(z) + i < Len(w) - Len(z) + j
    BY <1>0, <1>1, <1>5
  <2> QED
    BY <2>1, <2>2 DEF IsWindow
<1>6. IsWindow(z, t)
  BY <1>2, <1>4, <1>5 DEF IsWindow
<1> QED
  BY <1>6 DEF z

\* Trimming leaves the end of the history, and time only makes the rest older.
LEMMA TrimmedCovers ==
  ASSUME NEW w \in Seq(Nat), NEW h \in Seq(Nat), NEW t \in Nat, NEW u \in Nat, t <= u,
         Covers(w, h, t)
  PROVE  Covers(w, h, u) /\ Covers(Trim(w, u), h, u)
<1>0. Minute \in Nat
  BY RiskAssumption
<1>1. Len(w) \in Nat /\ Len(h) \in Nat /\ \A j \in 1 .. Len(h) : h[j] \in Nat
  OBVIOUS
<1>2. \A j \in 1 .. Len(h) - Len(w) : j \in 1 .. Len(h) /\ u - h[j] >= Minute
  BY <1>0, <1>1 DEF Covers
<1>3. PICK k \in 0 .. Len(w) :
         /\ Trim(w, u) \in Seq(Nat) /\ Len(Trim(w, u)) = Len(w) - k
         /\ \A i \in 1 .. Len(w) - k : Trim(w, u)[i] = w[k + i]
         /\ \A i \in 1 .. k : u - w[i] >= Minute
  BY TrimIsEnd
<1> DEFINE z == Trim(w, u)
<1> HIDE DEF z
<1>4. Len(z) = Len(w) - k /\ \A i \in 1 .. Len(w) - k : z[i] = w[k + i]
  BY <1>3 DEF z
<1>5. ASSUME NEW i \in 1 .. Len(z) PROVE z[i] = h[Len(h) - Len(z) + i]
  <2>1. k + i \in 1 .. Len(w) /\ Len(h) - Len(w) + (k + i) = Len(h) - Len(z) + i
    BY <1>1, <1>4
  <2>2. w[k + i] = h[Len(h) - Len(w) + (k + i)]
    BY <2>1 DEF Covers
  <2> QED
    BY <1>4, <2>1, <2>2
<1>6. ASSUME NEW j \in 1 .. Len(h) - Len(z) PROVE u - h[j] >= Minute
  <2>1. CASE j \in 1 .. Len(h) - Len(w)
    BY <1>2, <2>1
  <2>2. CASE ~(j \in 1 .. Len(h) - Len(w))
    <3> DEFINE i == j - (Len(h) - Len(w))
    <3>1. i \in 1 .. k /\ i \in 1 .. Len(w) /\ Len(h) - Len(w) + i = j
      BY <1>1, <1>4, <2>2
    <3> HIDE DEF i
    <3>2. w[i] = h[Len(h) - Len(w) + i] /\ u - w[i] >= Minute
      BY <1>3, <3>1 DEF Covers
    <3> QED
      BY <3>1, <3>2
  <2> QED
    BY <2>1, <2>2
<1>7. Covers(z, h, u)
  <2>1. Len(z) <= Len(h)
    BY <1>1, <1>4 DEF Covers
  <2> QED
    BY <1>5, <1>6, <2>1 DEF Covers
<1> QED
  BY <1>2, <1>7 DEF Covers, z

\* A window shorter than its limit m grows together with a history of m + 1.
LEMMA GrownCovers ==
  ASSUME NEW w \in Seq(Nat), NEW h \in Seq(Nat), NEW t \in Nat, Covers(w, h, t),
         NEW m \in Nat, Len(w) < m
  PROVE  Covers(Append(w, t), Latest(m + 1, Append(h, t)), t)
<1> DEFINE a == Append(w, t)
           g == Append(h, t)
<1>0. PICK n \in Nat : n = m + 1 /\ n >= 1
  OBVIOUS
<1> DEFINE z == Latest(n, g)
<1>1. Len(w) \in Nat /\ Len(h) \in Nat /\ Len(w) <= Len(h)
  BY DEF Covers
<1>2. /\ a \in Seq(Nat) /\ Len(a) = Len(w) + 1 /\ a[Len(w) + 1] = t
      /\ \A i \in 1 .. Len(w) : a[i] = w[i]
  OBVIOUS
<1>3. /\ g \in Seq(Nat) /\ Len(g) = Len(h) + 1 /\ g[Len(h) + 1] = t
      /\ \A i \in 1 .. Len(h) : g[i] = h[i]
  OBVIOUS
<1> HIDE DEF a, g
<1>4. /\ z \in Seq(Nat) /\ Len(z) = IF Len(g) <= n THEN Len(g) ELSE n
      /\ \A k \in 1 .. Len(z) : z[Len(z) - k + 1] = g[Len(g) - k + 1]
  BY <1>0, <1>3, LatestKeepsEnd
<1> HIDE DEF z
<1>5. /\ Len(z) \in Nat /\ Len(a) \in Nat /\ Len(g) \in Nat
      /\ Len(a) <= Len(z) /\ Len(z) <= Len(g)
  <2>1. Len(a) <= Len(g) /\ Len(a) <= n /\ Len(a) \in Nat /\ Len(g) \in Nat
    BY <1>0, <1>1, <1>2, <1>3
  <2> QED
    BY <1>4, <2>1
<1>6. ASSUME NEW i \in 1 .. Len(z)
      PROVE  z[i] = g[Len(g) - Len(z) + i]
  <2> DEFINE k == Len(z) - i + 1
  <2>1. /\ k \in 1 .. Len(z) /\ Len(z) - k + 1 = i
        /\ Len(g) - k + 1 = Len(g) - Len(z) + i
    BY <1>5
  <2> HIDE DEF k
  <2>2. z[Len(z) - k + 1] = g[Len(g) - k + 1]
    BY <1>4, <2>1
  <2> QED
    BY <2>1, <2>2
<1>7. ASSUME NEW i \in 1 .. Len(a) PROVE a[i] = z[Len(z) - Len(a) + i]
  <2>1. /\ Len(z) - Len(a) + i \in 1 .. Len(z)
        /\ Len(g) - Len(z) + (Len(z) - Len(a) + i) = Len(h) - Len(w) + i
    BY <1>1, <1>2, <1>3, <1>5
  <2>2. z[Len(z) - Len(a) + i] = g[Len(h) - Len(w) + i]
    BY <1>6, <2>1
  <2>3. CASE i = Len(w) + 1
    <3>1. Len(h) - Len(w) + i = Len(h) + 1
      BY <1>1, <2>3
    <3> QED
      BY <1>2, <1>3, <2>2, <2>3, <3>1
  <2>4. CASE i # Len(w) + 1
    <3>1. i \in 1 .. Len(w) /\ Len(h) - Len(w) + i \in 1 .. Len(h)
      BY <1>1, <1>2, <2>4
    <3>2. w[i] = h[Len(h) - Len(w) + i]
      BY <3>1 DEF Covers
    <3> QED
      BY <1>2, <1>3, <2>2, <3>1, <3>2
  <2> QED
    BY <2>3, <2>4
<1>8. ASSUME NEW j \in 1 .. Len(z) - Len(a) PROVE t - z[j] >= Minute
  <2> DEFINE i == Len(g) - Len(z) + j
  <2>1. j \in Int /\ 1 <= j /\ j <= Len(z) - Len(a)
    BY <1>5
  <2>2. j \in 1 .. Len(z)
    BY <1>5, <2>1
  <2>3. i \in Int /\ 1 <= i /\ i <= Len(h) - Len(w)
    <3>1. Len(a) = Len(w) + 1 /\ Len(g) = Len(h) + 1
      BY <1>2, <1>3
    <3> HIDE DEF i
    <3>2. i = Len(g) - Len(z) + j
      BY DEF i
    <3> QED
      BY <1>1, <1>5, <2>1, <3>1, <3>2
  <2>4. i \in 1 .. Len(h) - Len(w) /\ i \in 1 .. Len(h)
    BY <1>1, <2>3
  <2>5. z[j] = g[i] /\ g[i] = h[i]
    BY <1>3, <1>6, <2>2, <2>4
  <2> HIDE DEF i
  <2> QED
    BY <2>4, <2>5 DEF Covers
<1>9. Covers(a, z, t)
  BY <1>5, <1>7, <1>8 DEF Covers
<1> QED
  BY <1>0, <1>9 DEF a, z, g

\* A window below its limit m lets no more than m of a minute into the history.
LEMMA GrownBound ==
  ASSUME NEW w \in Seq(Nat), NEW h \in Seq(Nat), NEW t \in Nat, Covers(w, h, t),
         NEW m \in Nat, Len(w) < m
  PROVE  LET z == Latest(m + 1, Append(h, t))
         IN  /\ z \in Seq(Nat) /\ Len(z) >= 1 /\ Len(z) <= m + 1 /\ z[Len(z)] = t
             /\ Len(z) > m => /\ Len(z) = m + 1 /\ Len(h) >= m /\ t - z[1] >= Minute
                              /\ z[1] = h[Len(h) - m + 1] /\ z[m] = h[Len(h)]
             /\ \A j \in 1 .. Len(z) - (Len(w) + 1) : t - z[j] >= Minute
<1> DEFINE a == Append(w, t)
           g == Append(h, t)
<1>0. PICK n \in Nat : n = m + 1 /\ n >= 1
  OBVIOUS
<1> DEFINE z == Latest(n, g)
<1>1. Len(w) \in Nat /\ Len(h) \in Nat
  OBVIOUS
<1>2. Covers(a, z, t)
  BY <1>0, GrownCovers
<1>3. Len(a) = Len(w) + 1
  OBVIOUS
<1>4. /\ g \in Seq(Nat) /\ Len(g) = Len(h) + 1 /\ g[Len(h) + 1] = t
      /\ \A i \in 1 .. Len(h) : g[i] = h[i]
  OBVIOUS
<1> HIDE DEF a, g
<1>5. /\ z \in Seq(Nat) /\ Len(z) = IF Len(g) <= n THEN Len(g) ELSE n
      /\ \A k \in 1 .. Len(z) : z[Len(z) - k + 1] = g[Len(g) - k + 1]
  BY <1>0, <1>4, LatestKeepsEnd
<1> HIDE DEF z
<1>6. Len(z) \in Nat /\ Len(z) >= 1 /\ Len(z) <= m + 1
  BY <1>0, <1>1, <1>4, <1>5
<1>7. z[Len(z)] = t
  <2>1. 1 \in 1 .. Len(z) /\ Len(z) - 1 + 1 = Len(z) /\ Len(g) - 1 + 1 = Len(h) + 1
    BY <1>1, <1>4, <1>6
  <2>2. z[Len(z) - 1 + 1] = g[Len(g) - 1 + 1]
    BY <1>5, <2>1
  <2> QED
    BY <1>4, <2>1, <2>2
<1>8. \A j \in 1 .. Len(z) - (Len(w) + 1) : t - z[j] >= Minute
  BY <1>2, <1>3 DEF Covers
<1>9. ASSUME Len(z) > m
      PROVE  /\ Len(z) = m + 1 /\ Len(h) >= m /\ t - z[1] >= Minute
             /\ z[1] = h[Len(h) - m + 1] /\ z[m] = h[Len(h)]
  <2>1. Len(z) = m + 1
    BY <1>6, <1>9
  <2>2. Len(h) >= m
    <3>1. Len(g) <= n => Len(z) = Len(h) + 1
      BY <1>4, <1>5
    <3>2. ~(Len(g) <= n) => Len(h) >= m
      BY <1>0, <1>1, <1>4
    <3> QED
      BY <1>1, <2>1, <3>1, <3>2
  <2>3. m >= 1 /\ 1 \in 1 .. Len(z) - (Len(w) + 1)
    BY <1>1, <2>1
  <2>4. t - z[1] >= Minute
    BY <1>8, <2>3
  <2>5. /\ m + 1 \in 1 .. Len(z) /\ Len(z) - (m + 1) + 1 = 1
        /\ Len(g) - (m + 1) + 1 = Len(h) - m + 1 /\ Len(h) - m + 1 \in 1 .. Len(h)
    BY <1>1, <1>4, <2>1, <2>2, <2>3
  <2>6. z[Len(z) - (m + 1) + 1] = g[Len(g) - (m + 1) + 1]
    BY <1>5, <2>5
  <2>7. z[1] = h[Len(h) - m + 1]
    BY <1>4, <2>5, <2>6
  <2>8. /\ 2 \in 1 .. Len(z) /\ Len(z) - 2 + 1 = m
        /\ Len(g) - 2 + 1 = Len(h) /\ Len(h) \in 1 .. Len(h)
    BY <1>1, <1>4, <2>1, <2>2, <2>3
  <2>9. z[Len(z) - 2 + 1] = g[Len(g) - 2 + 1]
    BY <1>5, <2>8
  <2>10. z[m] = h[Len(h)]
    BY <1>4, <2>8, <2>9
  <2> QED
    BY <2>1, <2>2, <2>4, <2>7, <2>10
<1>10. z = Latest(m + 1, Append(h, t))
  BY <1>0 DEF z, g
<1> QED
  BY <1>5, <1>6, <1>7, <1>8, <1>9, <1>10

-------------------------------------------------------------------------------
(***************************************************************************)
(* What the functions of the risk manager do to the windows.               *)
(***************************************************************************)

Windows == {"entries", "cancels", "requotes", "heldUntil"}

\* The windows of r are in order at time t.
RiskOk(r, t) ==
  /\ Windows \subseteq DOMAIN r
  /\ IsWindow(r.entries, t) /\ IsWindow(r.cancels, t) /\ IsWindow(r.requotes, t)
  /\ r.heldUntil \in Nat

\* The entries of r are what is young in the history p.
EntriesKept(r, p, t) == MaxEntriesPerMinute > 0 => Covers(r.entries, p, t)

\* The requotes of r are what is young in the history q; and once the budget is used
\* up, its cooldown is on or over.
RequotesKept(r, q, t) ==
  MaxRequotes > 0 =>
    /\ Covers(r.requotes, q, t)
    /\ Len(q) >= MaxRequotes /\ q[Len(q)] - q[Len(q) - MaxRequotes + 1] < Minute =>
         \/ r.heldUntil >= q[Len(q)] + RequoteCooldown
         \/ t >= q[Len(q)] + RequoteCooldown

\* Nothing but entries has been touched.
SameRest(r, q) ==
  /\ DOMAIN q = DOMAIN r
  /\ q.cancels = r.cancels /\ q.requotes = r.requotes /\ q.heldUntil = r.heldUntil

\* can_enter trims the entries at most, and lets an entry pass only below the limit.
LEMMA GateWindows ==
  ASSUME NEW r, Windows \subseteq DOMAIN r, NEW t, NEW abnormal, NEW quote, NEW p
  PROVE  LET g == CanEnter(r, t, abnormal, quote, p)
         IN  /\ SameRest(r, g.risk)
             /\ g.risk.entries \in {r.entries, Trim(r.entries, t)}
             /\ g.reason = "ok" /\ MaxEntriesPerMinute > 0 =>
                  /\ g.risk.entries = Trim(r.entries, t)
                  /\ ~(Len(Trim(r.entries, t)) >= MaxEntriesPerMinute)
<1> DEFINE dated  == EnsureDailyDate(r, t)
           api    == AfterApiTest(dated, t)
           tested == AfterLatencyTest(api, t)
           rated  == IF MaxEntriesPerMinute > 0
                     THEN [tested EXCEPT !.entries = Trim(@, t)] ELSE tested
           ready  == AfterCoolingTest(rated)
           g      == CanEnter(r, t, abnormal, quote, p)
<1>1. SameRest(r, dated) /\ dated.entries = r.entries
  BY DEF SameRest, EnsureDailyDate
<1>2. SameRest(r, api) /\ api.entries = r.entries
  <2> HIDE DEF dated
  <2> QED
    BY <1>1 DEF SameRest, AfterApiTest, RecordApiSuccess
<1>3. SameRest(r, tested) /\ tested.entries = r.entries
  <2> HIDE DEF api
  <2> QED
    BY <1>2 DEF SameRest, AfterLatencyTest
<1>4. /\ SameRest(r, rated) /\ rated.entries \in {r.entries, Trim(r.entries, t)}
      /\ MaxEntriesPerMinute > 0 => rated.entries = Trim(r.entries, t)
  <2> HIDE DEF tested
  <2> QED
    BY <1>3 DEF SameRest, Windows
<1>5. SameRest(r, ready) /\ ready.entries = rated.entries
  <2> HIDE DEF rated
  <2> QED
    BY <1>4 DEF SameRest, AfterCoolingTest
<1>6. \/ g.risk \in {r, dated, api, tested, rated} /\ g.reason # "ok"
      \/ g.risk = ready /\ ~(MaxEntriesPerMinute > 0 /\ Len(rated.entries) >= MaxEntriesPerMinute)
  BY DEF CanEnter, Gate
<1>7. SameRest(r, r)
  BY DEF SameRest
<1> HIDE DEF dated, api, tested, rated, ready, g
<1> QED
  BY <1>1, <1>2, <1>3, <1>4, <1>5, <1>6, <1>7 DEF g

\* The two bounds, of any history.
EntryBound(p) ==
  MaxEntriesPerMinute > 0 =>
    \A i \in DOMAIN p : i > MaxEntriesPerMinute => p[i] - p[i - MaxEntriesPerMinute] >= Minute

RequoteBound(q) ==
  MaxRequotes > 0 =>
    \A i \in DOMAIN q :
      i > MaxRequotes =>
        /\ q[i] - q[i - MaxRequotes] >= Minute
        /\ q[i - 1] - q[i - MaxRequotes] < Minute => q[i] - q[i - 1] >= RequoteCooldown

LEMMA LimitsAreNatural ==
  /\ MaxEntriesPerMinute \in Nat /\ MaxRequotes \in Nat /\ RequoteCooldown \in Nat
  /\ MaxInventory \in Nat /\ Minute \in Nat /\ Minute >= 1
<1>1. Minute \in Nat \ {0}
  BY RiskAssumption
<1>2. {MaxEntriesPerMinute, MaxRequotes, RequoteCooldown, MaxInventory} \subseteq Nat
  BY RiskAssumption
<1> QED
  BY <1>1, <1>2

\* The windows of a manager, and what they say of the two histories.
Kept(r, p, q, t) ==
  /\ RiskOk(r, t) /\ IsWindow(p, t) /\ IsWindow(q, t)
  /\ EntriesKept(r, p, t) /\ RequotesKept(r, q, t)

\* Time only makes what is no longer held older.
LEMMA KeptLater ==
  ASSUME NEW r, NEW p, NEW q, NEW t \in Nat, NEW u \in Nat, t <= u, Kept(r, p, q, t)
  PROVE  Kept(r, p, q, u)
<1>1. RiskOk(r, u) /\ IsWindow(p, u) /\ IsWindow(q, u)
  BY TrimmedWindow DEF Kept, RiskOk
<1>2. EntriesKept(r, p, u)
  <2> SUFFICES ASSUME MaxEntriesPerMinute > 0 PROVE Covers(r.entries, p, u)
    BY DEF EntriesKept
  <2>1. r.entries \in Seq(Nat) /\ p \in Seq(Nat) /\ Covers(r.entries, p, t)
    BY DEF Kept, RiskOk, IsWindow, EntriesKept
  <2> QED
    BY <2>1, TrimmedCovers
<1>3. RequotesKept(r, q, u)
  <2> SUFFICES ASSUME MaxRequotes > 0 PROVE RequotesKept(r, q, u)
    BY DEF RequotesKept
  <2>1. r.requotes \in Seq(Nat) /\ q \in Seq(Nat) /\ Covers(r.requotes, q, t)
    BY DEF Kept, RiskOk, IsWindow, RequotesKept
  <2>2. Covers(r.requotes, q, u)
    BY <2>1, TrimmedCovers
  <2>3. ASSUME Len(q) >= MaxRequotes, q[Len(q)] - q[Len(q) - MaxRequotes + 1] < Minute
        PROVE  \/ r.heldUntil >= q[Len(q)] + RequoteCooldown
               \/ u >= q[Len(q)] + RequoteCooldown
    <3>1. \/ r.heldUntil >= q[Len(q)] + RequoteCooldown
          \/ t >= q[Len(q)] + RequoteCooldown
      BY <2>3 DEF Kept, RequotesKept
    <3>2. q[Len(q)] \in Nat
      <4>1. Len(q) \in 1 .. Len(q)
        BY <2>1, <2>3, LimitsAreNatural
      <4> QED
        BY <2>1, <4>1
    <3> QED
      BY <3>1, <3>2, LimitsAreNatural
  <2> QED
    BY <2>2, <2>3 DEF RequotesKept
<1> QED
  BY <1>1, <1>2, <1>3 DEF Kept

\* The gate keeps the histories covered.
LEMMA GateKept ==
  ASSUME NEW r, NEW p, NEW q, NEW t \in Nat, Kept(r, p, q, t),
         NEW g, SameRest(r, g), g.entries \in {r.entries, Trim(r.entries, t)}
  PROVE  Kept(g, p, q, t)
<1>0. t <= t
  OBVIOUS
<1>1. RiskOk(g, t)
  BY <1>0, TrimmedWindow DEF Kept, RiskOk, SameRest
<1>2. EntriesKept(g, p, t)
  <2> SUFFICES ASSUME MaxEntriesPerMinute > 0 PROVE Covers(g.entries, p, t)
    BY DEF EntriesKept
  <2>1. r.entries \in Seq(Nat) /\ p \in Seq(Nat) /\ Covers(r.entries, p, t)
    BY DEF Kept, RiskOk, IsWindow, EntriesKept
  <2> QED
    BY <1>0, <2>1, TrimmedCovers
<1>3. RequotesKept(g, q, t)
  BY DEF Kept, RequotesKept, SameRest
<1> QED
  BY <1>1, <1>2, <1>3 DEF Kept

\* An entry the gate lets through keeps the bound (record_entry_order).
LEMMA EntryRecorded ==
  ASSUME NEW r, NEW p, NEW q, NEW t \in Nat \ {0}, Kept(r, p, q, t),
         MaxEntriesPerMinute > 0 => Len(r.entries) < MaxEntriesPerMinute
  PROVE  LET z == Latest(MaxEntriesPerMinute + 1, Append(p, t))
         IN  Kept(RecordEntryOrder(r, t), z, q, t) /\ EntryBound(z)
<1> DEFINE e == Trim(r.entries, t)
           x == RecordEntryOrder(r, t)
           z == Latest(MaxEntriesPerMinute + 1, Append(p, t))
<1>0. t <= t
  OBVIOUS
<1>1. /\ IsWindow(r.entries, t) /\ IsWindow(p, t)
      /\ IsWindow(e, t) /\ Len(e) <= Len(r.entries)
  BY <1>0, TrimmedWindow DEF Kept, RiskOk
<1>2. r.entries \in Seq(Nat) /\ p \in Seq(Nat) /\ e \in Seq(Nat)
  BY <1>1 DEF IsWindow
<1>3. SameRest(r, x) /\ x.entries = Append(e, t)
  BY DEF RecordEntryOrder, SameRest, Kept, RiskOk, Windows
<1> HIDE DEF e, x
<1>4. IsWindow(Append(e, t), t)
  BY <1>1, GrownWindow
<1>5. RiskOk(x, t)
  BY <1>3, <1>4 DEF Kept, RiskOk, SameRest
<1>6. IsWindow(z, t)
  <2>1. IsWindow(Append(p, t), t)
    BY <1>1, GrownWindow
  <2>2. MaxEntriesPerMinute + 1 \in Nat /\ MaxEntriesPerMinute + 1 >= 1
    BY LimitsAreNatural
  <2> QED
    BY <2>1, <2>2, KeptWindow
<1>7. RequotesKept(x, q, t)
  BY <1>3 DEF Kept, RequotesKept, SameRest
<1>8. ASSUME MaxEntriesPerMinute > 0
      PROVE  Covers(Append(e, t), z, t) /\ EntryBound(z)
  <2>1. Covers(e, p, t)
    <3>1. Covers(r.entries, p, t)
      BY <1>8 DEF Kept, EntriesKept
    <3> QED
      BY <1>0, <1>2, <3>1, TrimmedCovers DEF e
  <2>2. Len(e) < MaxEntriesPerMinute /\ MaxEntriesPerMinute \in Nat
    BY <1>1, <1>2, <1>8, LimitsAreNatural
  <2>3. Covers(Append(e, t), z, t)
    BY <1>2, <2>1, <2>2, GrownCovers
  <2>4. /\ z \in Seq(Nat) /\ Len(z) <= MaxEntriesPerMinute + 1 /\ z[Len(z)] = t
        /\ Len(z) > MaxEntriesPerMinute =>
             Len(z) = MaxEntriesPerMinute + 1 /\ t - z[1] >= Minute
    BY <1>2, <2>1, <2>2, GrownBound
  <2> HIDE DEF z
  <2>5. ASSUME NEW i \in DOMAIN z, i > MaxEntriesPerMinute
        PROVE  z[i] - z[i - MaxEntriesPerMinute] >= Minute
    <3>1. i \in 1 .. Len(z) /\ Len(z) \in Nat
      BY <2>4
    <3>2. Len(z) = MaxEntriesPerMinute + 1 /\ i = Len(z) /\ i - MaxEntriesPerMinute = 1
      BY <2>2, <2>4, <2>5, <3>1
    <3>3. z[i] = t /\ z[i - MaxEntriesPerMinute] = z[1]
      BY <2>4, <3>2
    <3>4. t - z[1] >= Minute
      BY <2>2, <2>4, <3>2
    <3> QED
      BY <3>3, <3>4
  <2> QED
    BY <2>3, <2>5 DEF EntryBound, z
<1>9. EntriesKept(x, z, t) /\ EntryBound(z)
  BY <1>3, <1>8 DEF EntriesKept, EntryBound
<1>10. Kept(x, z, q, t)
  BY <1>5, <1>6, <1>7, <1>9 DEF Kept
<1> QED
  BY <1>9, <1>10 DEF x

\* Asking for a cancel keeps the histories covered; the answer yes comes only below the
\* budget and after its cooldown (can_send_cancel_signal, RequoteBudget.is_blocked).
LEMMA CancelAsked ==
  ASSUME NEW r, NEW p, NEW q, NEW t \in Nat, Kept(r, p, q, t), NEW reason
  PROVE  LET a == AfterCancelAsked(r, reason, t)
         IN  /\ Kept(a, p, q, t)
             /\ /\ CancelHeld(r, reason, t) = "" /\ reason \notin UrgentReasons
                /\ MaxRequotes > 0
                => ~(t < r.heldUntil) /\ Len(a.requotes) < MaxRequotes
<1> DEFINE c == IF MaxCancelsPerMinute > 0 THEN [r EXCEPT !.cancels = Trim(@, t)] ELSE r
           d == [c EXCEPT !.heldUntil = 0, !.requotes = Trim(@, t)]
           a == AfterCancelAsked(r, reason, t)
<1>0. t <= t
  OBVIOUS
<1>1. /\ DOMAIN c = DOMAIN r /\ c.entries = r.entries /\ c.requotes = r.requotes
      /\ c.heldUntil = r.heldUntil /\ c.cancels \in {r.cancels, Trim(r.cancels, t)}
  BY DEF Kept, RiskOk, Windows
<1>2. Kept(c, p, q, t)
  <2> HIDE DEF c
  <2>1. RiskOk(c, t)
    BY <1>0, <1>1, TrimmedWindow DEF Kept, RiskOk
  <2> QED
    BY <1>1, <2>1 DEF Kept, EntriesKept, RequotesKept
<1>3. AfterBudgetAsked(c, t) = IF MaxRequotes = 0 \/ t < c.heldUntil THEN c ELSE d
  BY DEF AfterBudgetAsked
<1>4. a \in {r, c, AfterBudgetAsked(c, t)}
  BY DEF AfterCancelAsked
<1>5. CancelHeld(r, reason, t) = "" /\ reason \notin UrgentReasons =>
        a = AfterBudgetAsked(c, t) /\ ~BudgetBlocked(r, t)
  BY DEF AfterCancelAsked, CancelHeld
<1> HIDE DEF c, a
<1>6. /\ DOMAIN d = DOMAIN c /\ d.entries = c.entries /\ d.requotes = Trim(c.requotes, t)
      /\ d.heldUntil = 0 /\ d.cancels = c.cancels
  BY <1>2 DEF Kept, RiskOk, Windows
<1> HIDE DEF d
<1>7. ASSUME ~(t < c.heldUntil) PROVE Kept(d, p, q, t)
  <2>1. RiskOk(d, t)
    BY <1>0, <1>2, <1>6, TrimmedWindow DEF Kept, RiskOk
  <2>2. EntriesKept(d, p, t)
    BY <1>2, <1>6 DEF Kept, EntriesKept
  <2>3. ASSUME MaxRequotes > 0 PROVE RequotesKept(d, q, t)
    <3>1. c.requotes \in Seq(Nat) /\ q \in Seq(Nat) /\ Covers(c.requotes, q, t)
      BY <1>2, <2>3 DEF Kept, RiskOk, IsWindow, RequotesKept
    <3>2. Covers(d.requotes, q, t)
      BY <1>0, <1>6, <3>1, TrimmedCovers
    <3>3. ASSUME Len(q) >= MaxRequotes, q[Len(q)] - q[Len(q) - MaxRequotes + 1] < Minute
          PROVE  t >= q[Len(q)] + RequoteCooldown
      <4>1. \/ c.heldUntil >= q[Len(q)] + RequoteCooldown
            \/ t >= q[Len(q)] + RequoteCooldown
        BY <1>2, <2>3, <3>3 DEF Kept, RequotesKept
      <4>2. q[Len(q)] \in Nat
        <5>1. Len(q) \in 1 .. Len(q)
          BY <2>3, <3>1, <3>3, LimitsAreNatural
        <5> QED
          BY <3>1, <5>1
      <4>3. c.heldUntil \in Nat
        BY <1>2 DEF Kept, RiskOk
      <4> QED
        BY <1>7, <4>1, <4>2, <4>3, LimitsAreNatural
    <3> QED
      BY <3>2, <3>3 DEF RequotesKept
  <2>4. RequotesKept(d, q, t)
    BY <2>3 DEF RequotesKept
  <2> QED
    BY <1>2, <2>1, <2>2, <2>4 DEF Kept
<1>8. Kept(a, p, q, t)
  <2>1. Kept(AfterBudgetAsked(c, t), p, q, t)
    BY <1>2, <1>3, <1>7
  <2> QED
    BY <1>2, <1>4, <2>1
<1>9. ASSUME CancelHeld(r, reason, t) = "", reason \notin UrgentReasons, MaxRequotes > 0
      PROVE  ~(t < r.heldUntil) /\ Len(a.requotes) < MaxRequotes
  <2>1. ~(t < r.heldUntil) /\ ~(Len(Trim(r.requotes, t)) >= MaxRequotes)
    BY <1>5, <1>9 DEF BudgetBlocked
  <2>2. a = d /\ a.requotes = Trim(r.requotes, t)
    <3>0. MaxRequotes > 0 => MaxRequotes # 0
      OBVIOUS
    <3>1. MaxRequotes # 0
      BY <1>9, <3>0, Zenon
    <3>2. a = AfterBudgetAsked(c, t)
      BY <1>5, <1>9
    <3>3. ~(t < c.heldUntil)
      BY <1>1, <2>1
    <3> QED
      BY <1>1, <1>3, <1>6, <3>1, <3>2, <3>3
  <2>3. a.requotes \in Seq(Nat)
    BY <1>8 DEF Kept, RiskOk, IsWindow
  <2>4. Len(a.requotes) \in Nat
    BY <2>3
  <2> QED
    BY <2>1, <2>2, <2>4, LimitsAreNatural
<1> QED
  BY <1>8, <1>9 DEF a

\* A cancel that is sent keeps the bound (record_cancel_request).
LEMMA RequoteRecorded ==
  ASSUME NEW r, NEW p, NEW q, NEW t \in Nat \ {0}, Kept(r, p, q, t),
         NEW reason, reason \notin UrgentReasons,
         MaxRequotes > 0 => Len(r.requotes) < MaxRequotes,
         MaxRequotes > 0 /\ Len(q) >= MaxRequotes
           /\ q[Len(q)] - q[Len(q) - MaxRequotes + 1] < Minute =>
             t >= q[Len(q)] + RequoteCooldown
  PROVE  LET z == Latest(MaxRequotes + 1, Append(q, t))
         IN  Kept(RecordCancelRequest(r, reason, t), p, z, t) /\ RequoteBound(z)
<1> DEFINE c == [r EXCEPT !.cancels = Append(Trim(@, t), t)]
           e == Trim(r.requotes, t)
           x == RecordCancelRequest(r, reason, t)
           z == Latest(MaxRequotes + 1, Append(q, t))
<1>0. t <= t
  OBVIOUS
<1>1. /\ IsWindow(r.requotes, t) /\ IsWindow(q, t) /\ IsWindow(Trim(r.cancels, t), t)
      /\ IsWindow(e, t) /\ Len(e) <= Len(r.requotes)
  BY <1>0, TrimmedWindow DEF Kept, RiskOk
<1>2. r.requotes \in Seq(Nat) /\ q \in Seq(Nat) /\ e \in Seq(Nat)
  BY <1>1 DEF IsWindow
<1>3. /\ DOMAIN c = DOMAIN r /\ c.entries = r.entries /\ c.requotes = r.requotes
      /\ c.heldUntil = r.heldUntil /\ c.cancels = Append(Trim(r.cancels, t), t)
  BY DEF Kept, RiskOk, Windows
<1>4. x = RecordRequote(c, t)
  BY DEF RecordCancelRequest
<1> HIDE DEF c, x
<1>5. /\ DOMAIN x = DOMAIN r /\ x.entries = r.entries /\ x.cancels = c.cancels
      /\ MaxRequotes = 0 => x.requotes = r.requotes /\ x.heldUntil = r.heldUntil
      /\ MaxRequotes # 0 =>
           /\ x.requotes = Append(e, t)
           /\ x.heldUntil = IF Len(e) + 1 >= MaxRequotes /\ RequoteCooldown > 0
                            THEN t + RequoteCooldown ELSE r.heldUntil
  BY <1>3, <1>4 DEF RecordRequote, Kept, RiskOk, Windows
<1> HIDE DEF e
<1>6. IsWindow(x.cancels, t) /\ IsWindow(Append(e, t), t)
  BY <1>1, <1>3, <1>5, GrownWindow
<1>7. RiskOk(x, t)
  <2>1. x.heldUntil \in Nat
    BY <1>5, LimitsAreNatural DEF Kept, RiskOk
  <2> QED
    BY <1>1, <1>5, <1>6, <2>1 DEF Kept, RiskOk
<1>8. IsWindow(z, t)
  <2>1. IsWindow(Append(q, t), t)
    BY <1>1, GrownWindow
  <2>2. MaxRequotes + 1 \in Nat /\ MaxRequotes + 1 >= 1
    BY LimitsAreNatural
  <2> QED
    BY <2>1, <2>2, KeptWindow
<1>9. EntriesKept(x, p, t)
  BY <1>5 DEF Kept, EntriesKept
<1>10. ASSUME MaxRequotes > 0 PROVE RequotesKept(x, z, t) /\ RequoteBound(z)
  <2>1. Covers(e, q, t)
    <3>1. Covers(r.requotes, q, t)
      BY <1>10 DEF Kept, RequotesKept
    <3> QED
      BY <1>0, <1>2, <3>1, TrimmedCovers DEF e
  <2>2. Len(e) \in Nat /\ Len(e) < MaxRequotes /\ MaxRequotes \in Nat
    BY <1>1, <1>2, <1>10, LimitsAreNatural
  <2>3. Covers(Append(e, t), z, t)
    BY <1>2, <2>1, <2>2, GrownCovers
  <2>4. /\ z \in Seq(Nat) /\ Len(z) >= 1 /\ Len(z) <= MaxRequotes + 1 /\ z[Len(z)] = t
        /\ Len(z) > MaxRequotes =>
             /\ Len(z) = MaxRequotes + 1 /\ Len(q) >= MaxRequotes /\ t - z[1] >= Minute
             /\ z[1] = q[Len(q) - MaxRequotes + 1] /\ z[MaxRequotes] = q[Len(q)]
        /\ \A j \in 1 .. Len(z) - (Len(e) + 1) : t - z[j] >= Minute
    BY <1>2, <2>1, <2>2, GrownBound
  <2> HIDE DEF z
  <2>5. ASSUME NEW i \in DOMAIN z, i > MaxRequotes
        PROVE  /\ z[i] - z[i - MaxRequotes] >= Minute
               /\ z[i - 1] - z[i - MaxRequotes] < Minute =>
                    z[i] - z[i - 1] >= RequoteCooldown
    <3>1. i \in 1 .. Len(z) /\ Len(z) \in Nat
      BY <2>4
    <3>2. /\ Len(z) = MaxRequotes + 1 /\ i = Len(z)
          /\ i - MaxRequotes = 1 /\ i - 1 = MaxRequotes
      BY <2>2, <2>4, <2>5, <3>1
    <3>3. z[i] = t /\ z[i - MaxRequotes] = z[1] /\ z[i - 1] = z[MaxRequotes]
      BY <2>4, <3>2
    <3>4. t - z[1] >= Minute
      BY <2>4, <3>2
    <3>5. z[MaxRequotes] - z[1] < Minute => t - z[MaxRequotes] >= RequoteCooldown
      <4>1. /\ Len(q) >= MaxRequotes
            /\ z[1] = q[Len(q) - MaxRequotes + 1] /\ z[MaxRequotes] = q[Len(q)]
        BY <2>4, <3>2
      <4>2. z[MaxRequotes] - z[1] < Minute => t >= z[MaxRequotes] + RequoteCooldown
        BY <1>10, <4>1
      <4>3. z[MaxRequotes] \in Nat
        <5>1. MaxRequotes \in 1 .. Len(z)
          BY <1>10, <2>2, <3>2
        <5> QED
          BY <2>4, <5>1
      <4> QED
        BY <4>2, <4>3, LimitsAreNatural
    <3> QED
      BY <3>3, <3>4, <3>5
  <2>6. ASSUME Len(z) >= MaxRequotes, z[Len(z)] - z[Len(z) - MaxRequotes + 1] < Minute
        PROVE  \/ x.heldUntil >= z[Len(z)] + RequoteCooldown
               \/ t >= z[Len(z)] + RequoteCooldown
    <3> DEFINE j == Len(z) - MaxRequotes + 1
    <3>1. j \in 1 .. Len(z)
      BY <1>10, <2>2, <2>4, <2>6
    <3>2. ~(t - z[j] >= Minute)
      <4>1. z[j] \in Nat /\ t - z[j] < Minute
        BY <2>4, <2>6, <3>1
      <4> HIDE DEF j
      <4> QED
        BY <4>1, LimitsAreNatural
    <3>3. ~(j \in 1 .. Len(z) - (Len(e) + 1))
      <4> HIDE DEF j
      <4> QED
        BY <2>4, <3>2
    <3>4. Len(e) + 1 >= MaxRequotes
      BY <2>2, <2>4, <3>1, <3>3
    <3>5. CASE RequoteCooldown > 0
      BY <1>5, <1>10, <2>4, <3>4, <3>5, LimitsAreNatural
    <3>6. CASE ~(RequoteCooldown > 0)
      BY <2>4, <3>6, LimitsAreNatural
    <3> QED
      BY <3>5, <3>6
  <2>7. Covers(x.requotes, z, t)
    <3>1. MaxRequotes # 0
      BY <1>10
    <3>2. x.requotes = Append(e, t)
      BY <1>5, <3>1
    <3> QED
      BY <2>3, <3>2
  <2> QED
    BY <2>5, <2>6, <2>7 DEF RequotesKept, RequoteBound
<1>11. RequotesKept(x, z, t) /\ RequoteBound(z)
  BY <1>10 DEF RequotesKept, RequoteBound
<1>12. Kept(x, p, z, t)
  BY <1>7, <1>8, <1>9, <1>11 DEF Kept
<1> QED
  BY <1>11, <1>12 DEF x

\* The cooldown that was on is over when the budget is no longer held.
LEMMA CooldownOver ==
  ASSUME NEW q \in Seq(Nat), Len(q) >= MaxRequotes, MaxRequotes > 0,
         NEW held \in Nat, NEW t \in Nat, ~(t < held),
         \/ held >= q[Len(q)] + RequoteCooldown
         \/ t >= q[Len(q)] + RequoteCooldown
  PROVE  t >= q[Len(q)] + RequoteCooldown
<1>1. Len(q) \in 1 .. Len(q)
  BY LimitsAreNatural
<1>2. q[Len(q)] \in Nat
  BY <1>1
<1> QED
  BY <1>2, LimitsAreNatural

\* From the question to the cancel: both together keep the bound.
LEMMA CancelKept ==
  ASSUME NEW r, NEW p, NEW q, NEW t \in Nat \ {0}, Kept(r, p, q, t), RequoteBound(q),
         NEW reason, CancelHeld(r, reason, t) = ""
  PROVE  LET a == AfterCancelAsked(r, reason, t)
             z == IF reason \in UrgentReasons THEN q
                  ELSE Latest(MaxRequotes + 1, Append(q, t))
         IN  Kept(RecordCancelRequest(a, reason, t), p, z, t) /\ RequoteBound(z)
<1> DEFINE a == AfterCancelAsked(r, reason, t)
<1>1. /\ Kept(a, p, q, t)
      /\ reason \notin UrgentReasons /\ MaxRequotes > 0 =>
           ~(t < r.heldUntil) /\ Len(a.requotes) < MaxRequotes
  BY CancelAsked
<1>2. reason \in UrgentReasons => RecordCancelRequest(a, reason, t) = a
  BY DEF RecordCancelRequest
<1> HIDE DEF a
<1>3. ASSUME MaxRequotes > 0, reason \notin UrgentReasons, Len(q) >= MaxRequotes,
             q[Len(q)] - q[Len(q) - MaxRequotes + 1] < Minute
      PROVE  t >= q[Len(q)] + RequoteCooldown
  <2>1. \/ r.heldUntil >= q[Len(q)] + RequoteCooldown
        \/ t >= q[Len(q)] + RequoteCooldown
    BY <1>3 DEF Kept, RequotesKept
  <2>2. q \in Seq(Nat) /\ r.heldUntil \in Nat
    BY DEF Kept, IsWindow, RiskOk
  <2>3. ~(t < r.heldUntil)
    BY <1>1, <1>3
  <2> QED
    BY <1>3, <2>1, <2>2, <2>3, CooldownOver
<1>4. CASE reason \in UrgentReasons
  BY <1>1, <1>2, <1>4 DEF a
<1>5. CASE reason \notin UrgentReasons
  <2>1. MaxRequotes > 0 => Len(a.requotes) < MaxRequotes
    BY <1>1, <1>5
  <2>2. LET z == Latest(MaxRequotes + 1, Append(q, t))
        IN  Kept(RecordCancelRequest(a, reason, t), p, z, t) /\ RequoteBound(z)
    BY <1>1, <1>3, <1>5, <2>1, RequoteRecorded
  <2> QED
    BY <1>5, <2>2 DEF a
<1> QED
  BY <1>4, <1>5

-------------------------------------------------------------------------------
(***************************************************************************)
(* The invariant of the entry path.                                        *)
(***************************************************************************)

EntryFields == {"mode", "side", "qty", "price", "at", "confirm"}

\* The entry at work and the position fit into the inventory together.
RoomKept ==
  /\ DOMAIN entry = EntryFields
  /\ entry.side \in Sides \cup {0} /\ entry.qty \in 0 .. MaxInventory
  /\ position \in 0 .. MaxInventory
  /\ position + entry.qty <= MaxInventory

\* Both histories are in order and within their bounds, and the risk manager holds
\* what is young in them.
EntryInv ==
  /\ now \in 1 .. MaxTime
  /\ RoomKept
  /\ Kept(risk, placed, requoted, now)
  /\ EntryBound(placed) /\ RequoteBound(requoted)

\* The invariant gives what the runs check.
LEMMA EntryInvGives == EntryInv => TypeOK /\ EntriesBounded /\ RequotesBounded
<1> SUFFICES ASSUME EntryInv PROVE TypeOK /\ EntriesBounded /\ RequotesBounded
  OBVIOUS
<1>1. EntriesBounded /\ RequotesBounded
  BY DEF EntryInv, EntryBound, RequoteBound, EntriesBounded, RequotesBounded
<1>2. ASSUME NEW w \in {risk.entries, risk.cancels, risk.requotes, placed, requoted}
      PROVE  /\ \A i \in DOMAIN w : w[i] \in 1 .. now
             /\ \A i, j \in DOMAIN w : i < j => w[i] <= w[j]
  <2>1. IsWindow(w, now)
    BY <1>2 DEF EntryInv, Kept, RiskOk
  <2>2. DOMAIN w = 1 .. Len(w)
    BY <2>1 DEF IsWindow
  <2> QED
    BY <2>1, <2>2 DEF IsWindow
<1>3. TypeOK
  BY <1>2 DEF EntryInv, RoomKept, TypeOK
<1> QED
  BY <1>1, <1>3

\* A new process starts with empty windows and histories.
LEMMA StartsKept ==
  ASSUME NEW t \in Nat
  PROVE  /\ Kept(NewRisk, <<>>, <<>>, t) /\ EntryBound(<<>>) /\ RequoteBound(<<>>)
<1>1. IsWindow(<<>>, t)
  BY DEF IsWindow
<1>2. RiskOk(NewRisk, t)
  BY <1>1 DEF RiskOk, NewRisk, Windows
<1>3. NewRisk.entries = <<>> /\ NewRisk.requotes = <<>>
  BY DEF NewRisk
<1>4. Covers(<<>>, <<>>, t)
  BY DEF Covers
<1>5. RequotesKept(NewRisk, <<>>, t)
  <2>1. MaxRequotes > 0 => ~(Len(<<>>) >= MaxRequotes)
    BY LimitsAreNatural
  <2> QED
    BY <1>3, <1>4, <2>1 DEF RequotesKept
<1>6. EntriesKept(NewRisk, <<>>, t)
  BY <1>3, <1>4 DEF EntriesKept
<1>7. EntryBound(<<>>) /\ RequoteBound(<<>>)
  BY DEF EntryBound, RequoteBound
<1> QED
  BY <1>1, <1>2, <1>5, <1>6, <1>7 DEF Kept

\* The time of a board does not touch the windows.
LEMMA BoardKept ==
  ASSUME EntryInv, NEW t \in 1 .. MaxTime, now <= t
  PROVE  Kept(UpdateBoardTs(risk, t), placed, requoted, t)
<1> DEFINE r == UpdateBoardTs(risk, t)
<1>1. Kept(risk, placed, requoted, t)
  <2>1. now \in Nat /\ t \in Nat
    BY EntryAssumption DEF EntryInv
  <2> QED
    BY <2>1, KeptLater DEF EntryInv
<1>2. SameRest(risk, r) /\ r.entries = risk.entries
  BY DEF SameRest, UpdateBoardTs
<1> HIDE DEF r
<1>3. Kept(r, placed, requoted, t)
  BY <1>1, <1>2 DEF Kept, RiskOk, EntriesKept, RequotesKept, SameRest
<1> QED
  BY <1>3 DEF r

\* NoEntry is no order.
LEMMA NothingAtWork ==
  DOMAIN NoEntry = EntryFields /\ NoEntry.side = 0 /\ NoEntry.qty = 0
BY DEF NoEntry, EntryFields

\* What is decided to be entered has a side.
LEMMA DecisionHasSide ==
  ASSUME NEW b, NEW market, NEW p, SelectEntry(b, market, p).allow
  PROVE  SelectEntry(b, market, p).side \in Sides
<1> DEFINE maker == MakerDecision(b, market)
           taker == TakerDecision(b)
           poor  == [maker EXCEPT !.allow = FALSE, !.reason = "maker_edge_too_low"]
           Sided(d) == d.allow => d.side \in Sides
<1>1. ASSUME NEW reason PROVE Sided(Blocked(reason))
  BY DEF Blocked
<1>2. ASSUME NEW mode, NEW n PROVE Sided(Allowed(mode, b, n))
  BY DEF Allowed, BestDirection, Sides
<1>3. Sided(maker)
  <2>1. \/ \E reason : maker = Blocked(reason)
        \/ \E mode, n : maker = Allowed(mode, b, n)
    BY DEF MakerDecision
  <2> HIDE DEF maker, Sided
  <2> QED
    BY <1>1, <1>2, <2>1
<1>4. Sided(taker)
  <2>1. \/ \E reason : taker = Blocked(reason)
        \/ \E mode, n : taker = Allowed(mode, b, n)
    BY DEF TakerDecision
  <2> HIDE DEF taker, Sided
  <2> QED
    BY <1>1, <1>2, <2>1
<1>5. SelectEntry(b, market, p) \in {maker, taker, poor}
  BY PolicyAssumption DEF SelectEntry, Adaptive, BothBlocked
<1>6. ~poor.allow
  BY MakerIsDecision DEF IsDecision
<1> HIDE DEF maker, taker, poor
<1> QED
  BY <1>3, <1>4, <1>5, <1>6

\* No order is for more than the room that is left (order_qty).
LEMMA QtyHasRoom ==
  ASSUME NEW b \in Boards, NEW d, NEW p \in 0 .. MaxInventory,
         ~(OrderQty(BaseQty(b, d), p, b.affordable) <= 0)
  PROVE  /\ OrderQty(BaseQty(b, d), p, b.affordable) \in 0 .. MaxInventory
         /\ p + OrderQty(BaseQty(b, d), p, b.affordable) <= MaxInventory
<1> DEFINE calm == CalmQty(b)
           base == BaseQty(b, d)
<1>1. /\ TradeQty \in Nat /\ ScaleBy \in Nat
  BY EntryAssumption
<1>2. b.affordable \in Int
  BY EntryAssumption
<1>3. calm \in Nat
  BY <1>1 DEF CalmQty, AtLeast
<1> HIDE DEF calm
<1>4. base \in Nat
  <2>1. calm * ScaleBy \in Nat
    BY <1>1, <1>3
  <2> QED
    BY <1>3, <2>1 DEF BaseQty, calm
<1> HIDE DEF base
<1>5. PICK qty : qty = OrderQty(base, p, b.affordable)
  OBVIOUS
<1>6. qty \in Int /\ p + qty <= MaxInventory
  BY <1>2, <1>4, <1>5, LimitsAreNatural DEF OrderQty
<1>7. ~(qty <= 0)
  BY <1>5 DEF base
<1>8. qty \in 0 .. MaxInventory
  BY <1>6, <1>7, LimitsAreNatural
<1> QED
  BY <1>5, <1>6, <1>8 DEF base

\* A board while an entry works.
LEMMA WorkingBoardInv ==
  ASSUME EntryInv, NEW b, NEW t \in 1 .. MaxTime, now <= t, now' = t, position' = position,
         WorkingBoard(b, t, UpdateBoardTs(risk, t))
  PROVE  EntryInv'
<1> DEFINE r == UpdateBoardTs(risk, t)
<1>1. Kept(r, placed, requoted, t)
  BY BoardKept
<1>2. t \in Nat \ {0}
  BY EntryAssumption
<1> HIDE DEF r
<1>3. entry' = entry /\ placed' = placed
  BY DEF WorkingBoard
<1>4. PICK reason :
        \/ risk' = r /\ requoted' = requoted
        \/ risk' = AfterCancelAsked(r, reason, t) /\ requoted' = requoted
        \/ /\ CancelHeld(r, reason, t) = ""
           /\ risk' = RecordCancelRequest(AfterCancelAsked(r, reason, t), reason, t)
           /\ requoted' = IF reason \in UrgentReasons THEN requoted
                          ELSE Latest(MaxRequotes + 1, Append(requoted, t))
  BY DEF WorkingBoard, r
<1>5. Kept(risk', placed, requoted', t) /\ RequoteBound(requoted')
  <2>1. RequoteBound(requoted)
    BY DEF EntryInv
  <2>2. CASE risk' = r /\ requoted' = requoted
    BY <1>1, <2>1, <2>2
  <2>3. CASE risk' = AfterCancelAsked(r, reason, t) /\ requoted' = requoted
    BY <1>1, <1>2, <2>1, <2>3, CancelAsked
  <2>4. CASE /\ CancelHeld(r, reason, t) = ""
             /\ risk' = RecordCancelRequest(AfterCancelAsked(r, reason, t), reason, t)
             /\ requoted' = IF reason \in UrgentReasons THEN requoted
                            ELSE Latest(MaxRequotes + 1, Append(requoted, t))
    <3>1. LET a == AfterCancelAsked(r, reason, t)
              z == IF reason \in UrgentReasons THEN requoted
                   ELSE Latest(MaxRequotes + 1, Append(requoted, t))
          IN  Kept(RecordCancelRequest(a, reason, t), placed, z, t) /\ RequoteBound(z)
      BY <1>1, <1>2, <2>1, <2>4, CancelKept
    <3> QED
      BY <2>4, <3>1
  <2> QED
    BY <1>4, <2>2, <2>3, <2>4
<1>6. RoomKept'
  BY <1>3 DEF EntryInv, RoomKept
<1> QED
  BY <1>3, <1>5, <1>6 DEF EntryInv

\* A board without an entry at work.
LEMMA FlatBoardInv ==
  ASSUME EntryInv, NEW b \in Boards, NEW t \in 1 .. MaxTime, now <= t, now' = t,
         position' = position, FlatBoard(b, t, UpdateBoardTs(risk, t))
  PROVE  EntryInv'
<1> DEFINE r    == UpdateBoardTs(risk, t)
           d    == SelectEntry(b, MarketState(filter, b), position)
           qty  == OrderQty(BaseQty(b, d), position, b.affordable)
           gate == CanEnter(r, t, MarketState(filter, b) = "ABNORMAL", QuoteFault(b), position)
<1>1. Kept(r, placed, requoted, t)
  BY BoardKept
<1>2. t \in Nat \ {0}
  BY EntryAssumption
<1> HIDE DEF r
<1>3. /\ requoted' = requoted
      /\ \/ risk' \in {r, gate.risk} /\ entry' = entry /\ placed' = placed
         \/ d.allow /\ ~(qty <= 0) /\ gate.reason = "ok" /\ PlaceEntry(b, d, qty, t, gate.risk)
  BY DEF FlatBoard, Refuse, PlaceEntry, r
<1>4. Windows \subseteq DOMAIN r
  BY <1>1 DEF Kept, RiskOk
<1>5. /\ SameRest(r, gate.risk)
      /\ gate.risk.entries \in {r.entries, Trim(r.entries, t)}
      /\ gate.reason = "ok" /\ MaxEntriesPerMinute > 0 =>
           /\ gate.risk.entries = Trim(r.entries, t)
           /\ ~(Len(Trim(r.entries, t)) >= MaxEntriesPerMinute)
  BY <1>4, GateWindows
<1>6. d.allow => d.side \in Sides
  BY DecisionHasSide
<1>7. ~(qty <= 0) => qty \in 0 .. MaxInventory /\ position + qty <= MaxInventory
  BY QtyHasRoom DEF EntryInv, RoomKept
<1> HIDE DEF d, qty, gate
<1> DEFINE g == gate.risk
<1>8. Kept(g, placed, requoted, t)
  BY <1>1, <1>2, <1>5, GateKept
<1>9. ASSUME risk' \in {r, g}, entry' = entry, placed' = placed
      PROVE  EntryInv'
  <2>1. Kept(risk', placed', requoted', now')
    BY <1>1, <1>3, <1>8, <1>9
  <2>2. RoomKept'
    BY <1>9 DEF EntryInv, RoomKept
  <2> QED
    BY <1>3, <1>9, <2>1, <2>2 DEF EntryInv
<1>10. ASSUME d.allow, ~(qty <= 0), gate.reason = "ok", PlaceEntry(b, d, qty, t, g)
       PROVE  EntryInv'
  <2>1. /\ risk' = RecordEntryOrder(g, t)
        /\ placed' = Latest(MaxEntriesPerMinute + 1, Append(placed, t))
        /\ DOMAIN entry' = EntryFields /\ entry'.side = d.side /\ entry'.qty = qty
    BY <1>10 DEF PlaceEntry, EntryFields
  <2>2. MaxEntriesPerMinute > 0 => Len(g.entries) < MaxEntriesPerMinute
    <3>1. g.entries \in Seq(Nat)
      BY <1>8 DEF Kept, RiskOk, IsWindow
    <3>2. Len(g.entries) \in Nat
      BY <3>1
    <3>3. MaxEntriesPerMinute > 0 => ~(Len(g.entries) >= MaxEntriesPerMinute)
      BY <1>5, <1>10
    <3> QED
      BY <3>2, <3>3, LimitsAreNatural
  <2> HIDE DEF g
  <2>3. LET z == Latest(MaxEntriesPerMinute + 1, Append(placed, t))
        IN  Kept(RecordEntryOrder(g, t), z, requoted, t) /\ EntryBound(z)
    BY <1>2, <1>8, <2>2, EntryRecorded
  <2>4. Kept(risk', placed', requoted', now') /\ EntryBound(placed')
    BY <1>3, <2>1, <2>3
  <2>5. RoomKept'
    BY <1>6, <1>7, <1>10, <2>1 DEF EntryInv, RoomKept
  <2> QED
    BY <1>3, <2>4, <2>5 DEF EntryInv
<1> QED
  BY <1>3, <1>9, <1>10

LEMMA OnBoardInv ==
  ASSUME EntryInv, NEW b \in Boards, NEW t \in 1 .. MaxTime, now <= t, OnBoard(b, t)
  PROVE  EntryInv'
<1> DEFINE r == UpdateBoardTs(risk, t)
<1>1. now' = t /\ position' = position
  BY DEF OnBoard
<1>2. Kept(r, placed, requoted, t)
  BY BoardKept
<1>3. \/ WorkingBoard(b, t, r)
      \/ FlatBoard(b, t, r)
      \/ risk' = r /\ UNCHANGED <<entry, placed, requoted>>
  BY DEF OnBoard, BusyBoard, JumpBoard, AccountBoard, Refuse
<1>4. CASE risk' = r /\ UNCHANGED <<entry, placed, requoted>>
  <2> HIDE DEF r
  <2>1. RoomKept'
    BY <1>1, <1>4 DEF EntryInv, RoomKept
  <2> QED
    BY <1>1, <1>2, <1>4, <2>1 DEF EntryInv
<1> QED
  BY <1>1, <1>3, <1>4, WorkingBoardInv, FlatBoardInv

\* The broker's answers move lots between the entry and the position.
LEMMA FillsInv ==
  ASSUME EntryInv,
         \/ \E n \in 1 .. MaxInventory : EntryFill(n) \/ ExitFill(n)
         \/ EntryEnds
  PROVE  EntryInv'
<1>1. /\ now' = now /\ risk' = risk /\ placed' = placed /\ requoted' = requoted
  BY DEF EntryFill, ExitFill, EntryEnds
<1>2. RoomKept'
  <2>1. ASSUME NEW n \in 1 .. MaxInventory, EntryFill(n) PROVE RoomKept'
    <3>1. CASE n = entry.qty
      BY <2>1, <3>1, NothingAtWork, LimitsAreNatural DEF EntryFill, EntryInv, RoomKept
    <3>2. CASE n # entry.qty
      <4>1. /\ DOMAIN entry' = DOMAIN entry /\ entry'.side = entry.side
            /\ entry'.qty = entry.qty - n /\ position' = position + n /\ n <= entry.qty
        BY <2>1, <3>2 DEF EntryFill, EntryInv, RoomKept, EntryFields
      <4> QED
        BY <4>1, LimitsAreNatural DEF EntryInv, RoomKept
    <3> QED
      BY <3>1, <3>2
  <2>2. ASSUME NEW n \in 1 .. MaxInventory, ExitFill(n) PROVE RoomKept'
    BY <2>2, LimitsAreNatural DEF ExitFill, EntryInv, RoomKept
  <2>3. CASE EntryEnds
    BY <2>3, NothingAtWork, LimitsAreNatural DEF EntryEnds, EntryInv, RoomKept
  <2> QED
    BY <2>1, <2>2, <2>3
<1> QED
  BY <1>1, <1>2 DEF EntryInv

LEMMA EntryInvStep == EntryInv /\ [Next]_vars => EntryInv'
<1> SUFFICES ASSUME EntryInv, [Next]_vars PROVE EntryInv'
  OBVIOUS
<1>1. ASSUME NEW b \in Boards, NEW dt \in Delays, now + dt <= MaxTime, OnBoard(b, now + dt)
      PROVE  EntryInv'
  <2>1. now + dt \in 1 .. MaxTime /\ now <= now + dt
    BY <1>1, EntryAssumption DEF EntryInv
  <2> QED
    BY <1>1, <2>1, OnBoardInv
<1>2. CASE Restart
  <2>1. RoomKept'
    <3>1. /\ DOMAIN entry' = EntryFields /\ entry'.side = 0 /\ entry'.qty = 0
          /\ position' = position
      BY <1>2, NothingAtWork DEF Restart
    <3>2. /\ 0 \in 0 .. MaxInventory /\ position \in 0 .. MaxInventory
          /\ position + 0 <= MaxInventory
      BY LimitsAreNatural DEF EntryInv, RoomKept
    <3> QED
      BY <3>1, <3>2 DEF RoomKept
  <2>2. now \in Nat
    BY DEF EntryInv
  <2> QED
    BY <1>2, <2>1, <2>2, StartsKept DEF Restart, EntryInv
<1>3. CASE UNCHANGED vars
  BY <1>3 DEF vars, EntryInv, RoomKept
<1> QED
  BY <1>1, <1>2, <1>3, FillsInv DEF Next

LEMMA EntryInvAlways == Spec => []EntryInv
<1>1. Init => EntryInv
  <2> SUFFICES ASSUME Init PROVE EntryInv
    OBVIOUS
  <2>1. RoomKept
    <3>1. DOMAIN entry = EntryFields /\ entry.side = 0 /\ entry.qty = 0 /\ position = 0
      BY NothingAtWork DEF Init
    <3>2. 0 \in 0 .. MaxInventory /\ 0 + 0 <= MaxInventory
      BY LimitsAreNatural
    <3> QED
      BY <3>1, <3>2 DEF RoomKept
  <2>2. 1 \in Nat /\ 1 \in 1 .. MaxTime
    BY EntryAssumption
  <2> QED
    BY <2>1, <2>2, StartsKept DEF Init, EntryInv
<1> QED
  BY <1>1, EntryInvStep, PTL DEF Spec

\* For all boards, windows and policies: position and entry fit into the inventory, and
\* no window is out of order.
THEOREM EntryPathTyped == Spec => []TypeOK
BY EntryInvAlways, EntryInvGives, PTL

\* For all boards, windows and policies: no minute sees more entry orders than its limit.
THEOREM EntriesStayBounded == Spec => []EntriesBounded
BY EntryInvAlways, EntryInvGives, PTL

\* For all boards, windows and policies: no minute sees more requotes than the budget, and
\* the cooldown follows a budget used up.
THEOREM RequotesStayBounded == Spec => []RequotesBounded
BY EntryInvAlways, EntryInvGives, PTL

===============================================================================
