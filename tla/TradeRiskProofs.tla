--------------------------- MODULE TradeRiskProofs ---------------------------
(***************************************************************************)
(* What holds of a worker's loss accounting for all limits, costs, gains   *)
(* and lengths of a day.                                                   *)
(***************************************************************************)
EXTENDS TradeRisk, TLAPS

-------------------------------------------------------------------------------
(***************************************************************************)
(* The risk manager's operations.  What the rate windows hold does not     *)
(* matter here: W is any set that has them.                                *)
(***************************************************************************)

RiskWith(W) ==
  [streak : Nat, coolUntil : Int, pnl : Int, date : Int,
   entries : W, cancels : W, requotes : W, heldUntil : Int,
   apiErrors : Nat, apiUntil : Nat, breaches : [RequestKinds -> Nat],
   latencyUntil : Nat, softKill : BOOLEAN, lastBoard : Int]

IsRisk(r) == \E W : r \in RiskWith(W)

\* The day's result as it counts on the day d.
PnlOn(r, d) == IF r.date = d THEN r.pnl ELSE 0

\* Two risk managers whose circuits agree.
SameCircuits(r, q) ==
  /\ q.apiErrors = r.apiErrors /\ q.apiUntil = r.apiUntil
  /\ q.breaches = r.breaches /\ q.latencyUntil = r.latencyUntil

\* Days do not run backwards.
LEMMA DateMonotone ==
  ASSUME NEW a \in Nat, NEW b \in Nat, a <= b
  PROVE  Date(a) \in Int /\ Date(a) <= Date(b)
BY RiskAssumption DEF Date

\* A new process knows nothing.
LEMMA NewRiskEffect == IsRisk(NewRisk)
<1>1. NewRisk \in RiskWith({<<>>})
  BY DEF NewRisk, RiskWith, RequestKinds
<1> QED
  BY <1>1 DEF IsRisk

\* _ensure_daily_date begins the day and touches nothing else.
LEMMA DailyDateEffect ==
  ASSUME NEW r, IsRisk(r), NEW t \in Nat
  PROVE  /\ IsRisk(EnsureDailyDate(r, t))
         /\ EnsureDailyDate(r, t).date = Date(t)
         /\ EnsureDailyDate(r, t).pnl = PnlOn(r, Date(t))
         /\ EnsureDailyDate(r, t).streak = r.streak
         /\ EnsureDailyDate(r, t).coolUntil = r.coolUntil
         /\ SameCircuits(r, EnsureDailyDate(r, t))
<1> DEFINE d == Date(t)
<1>1. d \in Int
  BY DateMonotone
<1>2. EnsureDailyDate(r, t) = IF r.date = d THEN r ELSE [r EXCEPT !.date = d, !.pnl = 0]
  BY DEF EnsureDailyDate, Date
<1> HIDE DEF d
<1>3. PICK W : r \in RiskWith(W)
  BY DEF IsRisk
<1>4. [r EXCEPT !.date = d, !.pnl = 0] \in RiskWith(W)
  <2> DEFINE u == [r EXCEPT !.date = d]
  <2>1. u \in RiskWith(W)
    BY <1>1, <1>3 DEF RiskWith
  <2> HIDE DEF u
  <2>2. [u EXCEPT !.pnl = 0] \in RiskWith(W)
    BY <2>1 DEF RiskWith
  <2> QED
    BY <2>2 DEF u
<1>5. /\ [r EXCEPT !.date = d, !.pnl = 0].date = d
      /\ [r EXCEPT !.date = d, !.pnl = 0].pnl = 0
      /\ [r EXCEPT !.date = d, !.pnl = 0].streak = r.streak
      /\ [r EXCEPT !.date = d, !.pnl = 0].coolUntil = r.coolUntil
      /\ SameCircuits(r, [r EXCEPT !.date = d, !.pnl = 0])
  BY <1>1, <1>3 DEF RiskWith, SameCircuits
<1>6. SameCircuits(r, r)
  BY DEF SameCircuits
<1>7. CASE r.date = d
  BY <1>2, <1>6, <1>7 DEF d, PnlOn
<1>8. CASE r.date # d
  <2>1. EnsureDailyDate(r, t) = [r EXCEPT !.date = d, !.pnl = 0]
    BY <1>2, <1>8
  <2>2. IsRisk([r EXCEPT !.date = d, !.pnl = 0])
    BY <1>4 DEF IsRisk
  <2>3. PnlOn(r, d) = 0
    BY <1>8 DEF PnlOn
  <2> QED
    BY <1>5, <2>1, <2>2, <2>3 DEF d
<1> QED
  BY <1>7, <1>8

\* Booking a result adds it to the day it falls on.
LEMMA BookEffect ==
  ASSUME NEW r, IsRisk(r), NEW t \in Nat, NEW g \in Int, NEW n \in Nat
  PROVE  /\ IsRisk(BookPnl(r, g, n, t))
         /\ BookPnl(r, g, n, t).date = Date(t)
         /\ BookPnl(r, g, n, t).pnl = PnlOn(r, Date(t)) + NetPnl(g, n)
         /\ NetPnl(g, n) \in Int
         /\ BookPnl(r, g, n, t).streak = r.streak
         /\ BookPnl(r, g, n, t).coolUntil = r.coolUntil
         /\ SameCircuits(r, BookPnl(r, g, n, t))
<1> DEFINE e == EnsureDailyDate(r, t)
           x == NetPnl(g, n)
<1>1. x \in Int
  BY RiskAssumption DEF NetPnl
<1>2. /\ IsRisk(e) /\ e.date = Date(t) /\ e.pnl = PnlOn(r, Date(t))
      /\ e.streak = r.streak /\ e.coolUntil = r.coolUntil /\ SameCircuits(r, e)
  BY DailyDateEffect
<1>3. BookPnl(r, g, n, t) = [e EXCEPT !.pnl = @ + x]
  BY DEF BookPnl
<1> HIDE DEF e, x
<1>4. PICK W : e \in RiskWith(W)
  BY <1>2 DEF IsRisk
<1>5. [e EXCEPT !.pnl = @ + x] \in RiskWith(W)
  <2>1. e.pnl + x \in Int
    BY <1>1, <1>4 DEF RiskWith
  <2> QED
    BY <1>4, <2>1 DEF RiskWith
<1>6. /\ [e EXCEPT !.pnl = @ + x].pnl = e.pnl + x
      /\ [e EXCEPT !.pnl = @ + x].date = e.date
      /\ [e EXCEPT !.pnl = @ + x].streak = e.streak
      /\ [e EXCEPT !.pnl = @ + x].coolUntil = e.coolUntil
      /\ SameCircuits(e, [e EXCEPT !.pnl = @ + x])
  BY <1>4 DEF RiskWith, SameCircuits
<1>7. IsRisk([e EXCEPT !.pnl = @ + x])
  BY <1>5 DEF IsRisk
<1>8. SameCircuits(r, [e EXCEPT !.pnl = @ + x])
  BY <1>2, <1>6 DEF SameCircuits
<1> QED
  BY <1>1, <1>2, <1>3, <1>6, <1>7, <1>8 DEF x

\* A loss adds one to the streak, and at the limit starts the cooling; a win ends it.
LEMMA OutcomeEffect ==
  ASSUME NEW r, IsRisk(r), NEW t \in Nat, NEW won \in BOOLEAN
  PROVE  LET q == RecordLossOutcome(r, won, t)
         IN  /\ IsRisk(q)
             /\ q.date = r.date /\ q.pnl = r.pnl
             /\ SameCircuits(r, q)
             /\ q.streak = IF won THEN 0 ELSE r.streak + 1
             /\ q.coolUntil = IF ~won /\ LossLimit > 0 /\ q.streak >= LossLimit
                              THEN t + Cooling ELSE r.coolUntil
<1>1. PICK W : r \in RiskWith(W)
  BY DEF IsRisk
<1>2. CASE won
  <2>1. RecordLossOutcome(r, won, t) = [r EXCEPT !.streak = 0]
    BY <1>2 DEF RecordLossOutcome
  <2>2. [r EXCEPT !.streak = 0] \in RiskWith(W)
    BY <1>1 DEF RiskWith
  <2>3. IsRisk([r EXCEPT !.streak = 0])
    BY <2>2 DEF IsRisk
  <2>4. /\ [r EXCEPT !.streak = 0].date = r.date
        /\ [r EXCEPT !.streak = 0].pnl = r.pnl
        /\ [r EXCEPT !.streak = 0].streak = 0
        /\ [r EXCEPT !.streak = 0].coolUntil = r.coolUntil
        /\ SameCircuits(r, [r EXCEPT !.streak = 0])
    BY <1>1 DEF RiskWith, SameCircuits
  <2> QED
    BY <1>2, <2>1, <2>3, <2>4
<1>3. CASE ~won
  <2> DEFINE s == r.streak + 1
             c == IF LossLimit > 0 /\ s >= LossLimit THEN t + Cooling ELSE r.coolUntil
             u == [r EXCEPT !.streak = s]
             q == [u EXCEPT !.coolUntil = c]
  <2>1. s \in Nat /\ c \in Int
    BY <1>1, RiskAssumption DEF RiskWith
  <2>2. RecordLossOutcome(r, won, t) = q
    <3>1. u.coolUntil = r.coolUntil
      BY <1>1 DEF RiskWith
    <3> QED
      BY <1>3, <3>1 DEF RecordLossOutcome
  <2> HIDE DEF s, c
  <2>3. u \in RiskWith(W)
    BY <1>1, <2>1 DEF RiskWith
  <2>4. q \in RiskWith(W)
    <3> HIDE DEF u
    <3> QED
      BY <2>1, <2>3 DEF RiskWith
  <2>5. /\ q.date = r.date /\ q.pnl = r.pnl /\ q.streak = s /\ q.coolUntil = c
        /\ SameCircuits(r, q)
    BY <1>1 DEF RiskWith, SameCircuits
  <2> HIDE DEF q
  <2>6. IsRisk(q)
    BY <2>4 DEF IsRisk
  <2> QED
    BY <1>3, <2>2, <2>5, <2>6 DEF s, c
<1> QED
  BY <1>2, <1>3

\* What a partial exit does to the books and to the streak (record_partial_pnl).
LEMMA PartialEffect ==
  ASSUME NEW r, IsRisk(r), NEW t \in Nat, NEW g \in Int, NEW n \in Nat, NEW c \in BOOLEAN
  PROVE  LET q == RecordPartialPnl(r, g, n, t, c)
             counts == c /\ NetPnl(g, n) < 0
         IN  /\ IsRisk(q) /\ SameCircuits(r, q)
             /\ q.date = Date(t) /\ q.pnl = PnlOn(r, Date(t)) + NetPnl(g, n)
             /\ q.streak = IF counts THEN r.streak + 1 ELSE r.streak
             /\ q.coolUntil = IF counts /\ LossLimit > 0 /\ q.streak >= LossLimit
                              THEN t + Cooling ELSE r.coolUntil
<1> DEFINE b == BookPnl(r, g, n, t)
<1>1. /\ IsRisk(b) /\ SameCircuits(r, b)
      /\ b.date = Date(t) /\ b.pnl = PnlOn(r, Date(t)) + NetPnl(g, n)
      /\ b.streak = r.streak /\ b.coolUntil = r.coolUntil
  BY BookEffect
<1>2. RecordPartialPnl(r, g, n, t, c) =
        IF c /\ NetPnl(g, n) < 0 THEN RecordLossOutcome(b, FALSE, t) ELSE b
  BY DEF RecordPartialPnl
<1> HIDE DEF b
<1>3. LET q == RecordLossOutcome(b, FALSE, t)
      IN  /\ IsRisk(q) /\ q.date = b.date /\ q.pnl = b.pnl /\ SameCircuits(b, q)
          /\ q.streak = b.streak + 1
          /\ q.coolUntil = IF LossLimit > 0 /\ q.streak >= LossLimit
                           THEN t + Cooling ELSE b.coolUntil
  BY <1>1, OutcomeEffect
<1>4. SameCircuits(r, RecordLossOutcome(b, FALSE, t))
  BY <1>1, <1>3 DEF SameCircuits
<1>5. CASE c /\ NetPnl(g, n) < 0
  BY <1>1, <1>2, <1>3, <1>4, <1>5
<1>6. CASE ~(c /\ NetPnl(g, n) < 0)
  BY <1>1, <1>2, <1>6
<1> QED
  BY <1>5, <1>6

\* What the exit that closes a trade does (record_trade_result).
LEMMA ResultEffect ==
  ASSUME NEW r, IsRisk(r), NEW t \in Nat, NEW g \in Int, NEW n \in Nat,
         NEW total \in Int, NEW u \in BOOLEAN
  PROVE  LET q == RecordTradeResult(r, g, n, t, total, u)
         IN  /\ IsRisk(q) /\ SameCircuits(r, q)
             /\ q.date = Date(t) /\ q.pnl = PnlOn(r, Date(t)) + NetPnl(g, n)
             /\ q.streak = IF ~u THEN r.streak ELSE IF total > 0 THEN 0 ELSE r.streak + 1
             /\ q.coolUntil = IF u /\ ~(total > 0) /\ LossLimit > 0 /\ q.streak >= LossLimit
                              THEN t + Cooling ELSE r.coolUntil
<1> DEFINE b == BookPnl(r, g, n, t)
           won == total > 0
<1>1. /\ IsRisk(b) /\ SameCircuits(r, b)
      /\ b.date = Date(t) /\ b.pnl = PnlOn(r, Date(t)) + NetPnl(g, n)
      /\ b.streak = r.streak /\ b.coolUntil = r.coolUntil
  BY BookEffect
<1>2. RecordTradeResult(r, g, n, t, total, u) =
        IF u THEN RecordLossOutcome(b, won, t) ELSE b
  BY DEF RecordTradeResult
<1>3. won \in BOOLEAN
  OBVIOUS
<1> HIDE DEF b, won
<1>4. LET q == RecordLossOutcome(b, won, t)
      IN  /\ IsRisk(q) /\ q.date = b.date /\ q.pnl = b.pnl /\ SameCircuits(b, q)
          /\ q.streak = IF won THEN 0 ELSE b.streak + 1
          /\ q.coolUntil = IF ~won /\ LossLimit > 0 /\ q.streak >= LossLimit
                           THEN t + Cooling ELSE b.coolUntil
  BY <1>1, <1>3, OutcomeEffect
<1>5. SameCircuits(r, RecordLossOutcome(b, won, t))
  BY <1>1, <1>4 DEF SameCircuits
<1>6. CASE u
  BY <1>1, <1>2, <1>4, <1>5, <1>6 DEF won
<1>7. CASE ~u
  BY <1>1, <1>2, <1>7
<1> QED
  BY <1>6, <1>7

\* The snapshot's daily result replaces the day's (restore_daily_pnl).
LEMMA RestoreEffect ==
  ASSUME NEW r, IsRisk(r), NEW t \in Nat
  PROVE  LET q == RestoreDailyPnl(r, 0, t)
         IN  /\ IsRisk(q) /\ SameCircuits(r, q)
             /\ q.date = Date(t) /\ q.pnl = 0
             /\ q.streak = r.streak /\ q.coolUntil = r.coolUntil
<1> DEFINE e == EnsureDailyDate(r, t)
<1>1. /\ IsRisk(e) /\ e.date = Date(t) /\ e.streak = r.streak
      /\ e.coolUntil = r.coolUntil /\ SameCircuits(r, e)
  BY DailyDateEffect
<1>2. RestoreDailyPnl(r, 0, t) = [e EXCEPT !.pnl = 0]
  BY DEF RestoreDailyPnl
<1> HIDE DEF e
<1>3. PICK W : e \in RiskWith(W)
  BY <1>1 DEF IsRisk
<1>4. [e EXCEPT !.pnl = 0] \in RiskWith(W)
  BY <1>3 DEF RiskWith
<1>5. IsRisk([e EXCEPT !.pnl = 0])
  BY <1>4 DEF IsRisk
<1>6. /\ [e EXCEPT !.pnl = 0].date = e.date /\ [e EXCEPT !.pnl = 0].pnl = 0
      /\ [e EXCEPT !.pnl = 0].streak = e.streak
      /\ [e EXCEPT !.pnl = 0].coolUntil = e.coolUntil
      /\ SameCircuits(e, [e EXCEPT !.pnl = 0])
  BY <1>3 DEF RiskWith, SameCircuits
<1>7. SameCircuits(r, [e EXCEPT !.pnl = 0])
  BY <1>1, <1>6 DEF SameCircuits
<1> QED
  BY <1>1, <1>2, <1>5, <1>6, <1>7

\* What asking for an entry leaves of the books: the day may begin.
SameBooks(r, q, t) ==
  \/ q.date = r.date /\ q.pnl = r.pnl
  \/ q.date = Date(t) /\ q.pnl = PnlOn(r, Date(t))

\* The gate on a quote nothing is wrong with.
Asked(r, t, p) == CanEnter(r, t, FALSE, "", p)

\* The books and the streak are untouched.
SameTally(r, q) ==
  /\ q.pnl = r.pnl /\ q.date = r.date
  /\ q.streak = r.streak /\ q.coolUntil = r.coolUntil

\* Asking at t closes no circuit before its time.
CircuitsTested(r, q, t) ==
  /\ q.apiUntil = r.apiUntil \/ t >= r.apiUntil
  /\ \/ q.latencyUntil = r.latencyUntil /\ q.breaches = r.breaches
     \/ /\ t >= r.latencyUntil
        /\ q.latencyUntil = 0 /\ q.breaches = [k \in RequestKinds |-> 0]

\* A circuit is tested once or not at all.
LEMMA TestedAgain ==
  ASSUME NEW r, NEW q, NEW u, NEW t, CircuitsTested(r, q, t), SameCircuits(q, u)
  PROVE  CircuitsTested(r, u, t)
BY DEF CircuitsTested, SameCircuits

\* The tests of the two circuits (_api_circuit_open, _latency_circuit_open).
LEMMA TestsEffect ==
  ASSUME NEW r, IsRisk(r), NEW t \in Nat
  PROVE  LET a == AfterApiTest(r, t)
             q == AfterLatencyTest(a, t)
         IN  /\ IsRisk(a) /\ SameTally(r, a) /\ CircuitsTested(r, a, t)
             /\ a.latencyUntil = r.latencyUntil /\ a.breaches = r.breaches
             /\ IsRisk(q) /\ SameTally(r, q) /\ CircuitsTested(r, q, t)
<1> DEFINE a == AfterApiTest(r, t)
           q == AfterLatencyTest(a, t)
           none == [k \in RequestKinds |-> 0]
<1>1. PICK W : r \in RiskWith(W)
  BY DEF IsRisk
<1>2. /\ a \in RiskWith(W) /\ SameTally(r, a)
      /\ a.apiUntil = r.apiUntil \/ t >= r.apiUntil
      /\ a.latencyUntil = r.latencyUntil /\ a.breaches = r.breaches
  <2>1. CASE ApiErrorLimit > 0 /\ r.apiUntil > 0 /\ t >= r.apiUntil
    <3> DEFINE u == [r EXCEPT !.apiErrors = 0]
               v == [u EXCEPT !.apiUntil = 0]
    <3>1. a = v
      BY <2>1 DEF AfterApiTest, RecordApiSuccess
    <3>2. u \in RiskWith(W)
      BY <1>1 DEF RiskWith
    <3>3. /\ v.pnl = r.pnl /\ v.date = r.date /\ v.streak = r.streak
          /\ v.coolUntil = r.coolUntil /\ v.latencyUntil = r.latencyUntil
          /\ v.breaches = r.breaches
      BY <1>1 DEF RiskWith
    <3> HIDE DEF u
    <3>4. v \in RiskWith(W)
      BY <3>2 DEF RiskWith
    <3> QED
      BY <2>1, <3>1, <3>3, <3>4 DEF SameTally
  <2>2. CASE ~(ApiErrorLimit > 0 /\ r.apiUntil > 0 /\ t >= r.apiUntil)
    <3>1. a = r
      BY <2>2 DEF AfterApiTest
    <3> QED
      BY <1>1, <3>1 DEF SameTally
  <2> QED
    BY <2>1, <2>2
<1> HIDE DEF a
<1>3. /\ q \in RiskWith(W) /\ SameTally(a, q) /\ q.apiUntil = a.apiUntil
      /\ \/ q.latencyUntil = a.latencyUntil /\ q.breaches = a.breaches
         \/ t >= a.latencyUntil /\ q.latencyUntil = 0 /\ q.breaches = none
  <2>1. CASE LatencyBreachLimit > 0 /\ a.latencyUntil > 0 /\ t >= a.latencyUntil
    <3> DEFINE u == [a EXCEPT !.latencyUntil = 0]
               v == [u EXCEPT !.breaches = none]
    <3>1. q = v
      BY <2>1 DEF AfterLatencyTest
    <3>2. u \in RiskWith(W) /\ none \in [RequestKinds -> Nat]
      BY <1>2 DEF RiskWith
    <3> HIDE DEF none
    <3>3. /\ v.pnl = a.pnl /\ v.date = a.date /\ v.streak = a.streak
          /\ v.coolUntil = a.coolUntil /\ v.latencyUntil = 0 /\ v.apiUntil = a.apiUntil
          /\ v.breaches = none
      BY <1>2 DEF RiskWith
    <3> HIDE DEF u
    <3>4. v \in RiskWith(W)
      BY <3>2 DEF RiskWith
    <3> QED
      BY <2>1, <3>1, <3>3, <3>4 DEF SameTally
  <2>2. CASE ~(LatencyBreachLimit > 0 /\ a.latencyUntil > 0 /\ t >= a.latencyUntil)
    <3>1. q = a
      BY <2>2 DEF AfterLatencyTest
    <3> QED
      BY <1>2, <3>1 DEF SameTally
  <2> QED
    BY <2>1, <2>2
<1> HIDE DEF q
<1>4. IsRisk(a) /\ IsRisk(q) /\ SameTally(r, q)
  BY <1>2, <1>3 DEF IsRisk, SameTally
<1>5. CircuitsTested(r, a, t)
  BY <1>2 DEF CircuitsTested
<1>6. CircuitsTested(r, q, t)
  BY <1>2, <1>3 DEF CircuitsTested, none
<1> QED
  BY <1>2, <1>4, <1>5, <1>6 DEF a, q

\* Asking for an entry may begin the day, close a circuit whose time is over, trim the
\* window and end a streak whose cooling is over; it is refused while a circuit is open,
\* while the day's loss is beyond its limit or a streak cools (can_enter).
LEMMA CanEnterEffect ==
  ASSUME NEW r, IsRisk(r), NEW t \in Nat, NEW p \in Nat
  PROVE  LET gate == Asked(r, t, p)
             q == gate.risk
         IN  /\ IsRisk(q) /\ CircuitsTested(r, q, t) /\ SameBooks(r, q, t)
             /\ q.coolUntil = r.coolUntil
             /\ \/ q.streak = r.streak
                \/ /\ q.streak = 0
                   /\ LossLimit > 0 /\ r.streak >= LossLimit /\ t >= r.coolUntil
             /\ gate.reason = "ok" =>
                  /\ ~ApiCircuitOpen(r, t) /\ ~LatencyCircuitOpen(r, t)
                  /\ DailyLossLimit > 0 => PnlOn(r, Date(t)) > -DailyLossLimit
                  /\ LossLimit > 0 /\ r.streak >= LossLimit => t >= r.coolUntil
<1> DEFINE d == EnsureDailyDate(r, t)
           a == AfterApiTest(d, t)
           l == AfterLatencyTest(a, t)
           w == IF MaxEntriesPerMinute > 0 THEN [l EXCEPT !.entries = Trim(@, t)] ELSE l
           z == AfterCoolingTest(w)
           cools == LossLimit > 0 /\ w.streak >= LossLimit
           apiOpen == ApiCircuitOpen(d, t)
           slowOpen == LatencyCircuitOpen(a, t)
<1>1. /\ IsRisk(d) /\ d.date = Date(t) /\ d.pnl = PnlOn(r, Date(t))
      /\ d.streak = r.streak /\ d.coolUntil = r.coolUntil /\ SameCircuits(r, d)
  BY DailyDateEffect
<1> HIDE DEF d
<1>2. /\ IsRisk(a) /\ SameTally(d, a) /\ CircuitsTested(d, a, t)
      /\ a.latencyUntil = d.latencyUntil /\ a.breaches = d.breaches
      /\ IsRisk(l) /\ SameTally(d, l) /\ CircuitsTested(d, l, t)
  BY <1>1, TestsEffect
<1>3. /\ apiOpen <=> ApiCircuitOpen(r, t)
      /\ slowOpen <=> LatencyCircuitOpen(r, t)
  BY <1>1, <1>2 DEF SameCircuits, ApiCircuitOpen, LatencyCircuitOpen
<1> HIDE DEF a, l, apiOpen, slowOpen
<1>4. /\ IsRisk(w) /\ SameTally(l, w) /\ SameCircuits(l, w)
  <2>1. CASE MaxEntriesPerMinute > 0
    <3> DEFINE s == Trim(l.entries, t)
    <3>1. w = [l EXCEPT !.entries = s]
      BY <2>1
    <3> HIDE DEF s, w
    <3>2. PICK W : l \in RiskWith(W)
      BY <1>2 DEF IsRisk
    <3>3. [l EXCEPT !.entries = s] \in RiskWith(W \cup {s})
      BY <3>2 DEF RiskWith
    <3>4. IsRisk(w)
      BY <3>1, <3>3 DEF IsRisk
    <3> QED
      BY <3>1, <3>2, <3>4 DEF RiskWith, SameCircuits, SameTally
  <2>2. CASE ~(MaxEntriesPerMinute > 0)
    BY <1>2, <2>2 DEF SameCircuits, SameTally
  <2> QED
    BY <2>1, <2>2
<1>5. /\ IsRisk(z) /\ z.date = w.date /\ z.pnl = w.pnl
      /\ z.streak = (IF cools THEN 0 ELSE w.streak)
      /\ z.coolUntil = w.coolUntil /\ SameCircuits(w, z)
  <2> HIDE DEF w
  <2>1. PICK W : w \in RiskWith(W)
    BY <1>4 DEF IsRisk
  <2>2. CASE cools
    <3>1. z = [w EXCEPT !.streak = 0]
      BY <2>2 DEF AfterCoolingTest
    <3> HIDE DEF z
    <3>2. z \in RiskWith(W)
      BY <2>1, <3>1 DEF RiskWith
    <3>3. IsRisk(z)
      BY <3>2 DEF IsRisk
    <3> QED
      BY <2>1, <2>2, <3>1, <3>3 DEF RiskWith, SameCircuits
  <2>3. CASE ~cools
    <3>1. z = w
      BY <2>3 DEF AfterCoolingTest
    <3> QED
      BY <1>4, <2>3, <3>1 DEF SameCircuits
  <2> QED
    BY <2>2, <2>3
<1>6. Asked(r, t, p) =
        IF r.softKill THEN Gate(r, "kill_switch_soft")
        ELSE IF IsStaleBoard(r, t) THEN Gate(r, "stale_board")
        ELSE IF apiOpen THEN Gate(d, "api_circuit_open")
        ELSE IF slowOpen THEN Gate(a, "latency_circuit_open")
        ELSE IF DailyLossLimit > 0 /\ l.pnl <= -DailyLossLimit
             THEN Gate(l, "daily_loss_limit")
        ELSE IF MaxEntriesPerMinute > 0 /\ Len(w.entries) >= MaxEntriesPerMinute
             THEN Gate(w, "order_rate_limit")
        ELSE IF cools /\ t < w.coolUntil THEN Gate(w, "consecutive_loss_cooling")
        ELSE IF p >= MaxInventory THEN Gate(z, "inventory_limit")
        ELSE Gate(z, "ok")
  BY DEF Asked, CanEnter, d, a, l, apiOpen, slowOpen
<1> HIDE DEF w, z
<1> DEFINE gate == Asked(r, t, p)
<1> HIDE DEF gate
<1>7. \/ gate.risk \in {r, d, a, l, w} /\ gate.reason # "ok"
      \/ /\ gate.risk = z
         /\ ~apiOpen /\ ~slowOpen
         /\ ~(DailyLossLimit > 0 /\ l.pnl <= -DailyLossLimit)
         /\ ~(cools /\ t < w.coolUntil)
  <2> DEFINE refuses == \E x \in {r, d, a, l, w} : gate \in {Gate(x, "kill_switch_soft"),
               Gate(x, "stale_board"), Gate(x, "api_circuit_open"),
               Gate(x, "latency_circuit_open"), Gate(x, "daily_loss_limit"),
               Gate(x, "order_rate_limit"), Gate(x, "consecutive_loss_cooling")}
  <2>1. \/ refuses
        \/ /\ \E y : gate = Gate(z, y)
           /\ ~apiOpen /\ ~slowOpen
           /\ ~(DailyLossLimit > 0 /\ l.pnl <= -DailyLossLimit)
           /\ ~(cools /\ t < w.coolUntil)
    BY <1>6, Zenon DEF gate
  <2>2. CASE refuses
    <3>1. PICK x \in {r, d, a, l, w} :
             \/ gate = Gate(x, "kill_switch_soft")
             \/ gate = Gate(x, "stale_board")
             \/ gate = Gate(x, "api_circuit_open")
             \/ gate = Gate(x, "latency_circuit_open")
             \/ gate = Gate(x, "daily_loss_limit")
             \/ gate = Gate(x, "order_rate_limit")
             \/ gate = Gate(x, "consecutive_loss_cooling")
      BY <2>2
    <3>2. gate.risk = x /\ gate.reason # "ok"
      BY <3>1 DEF Gate
    <3> QED
      BY <3>2
  <2>3. (\E y : gate = Gate(z, y)) => gate.risk = z
    BY DEF Gate
  <2> QED
    BY <2>1, <2>2, <2>3
<1> HIDE DEF cools
<1>8. /\ CircuitsTested(r, r, t) /\ CircuitsTested(r, d, t) /\ CircuitsTested(r, a, t)
      /\ CircuitsTested(r, l, t) /\ CircuitsTested(r, w, t) /\ CircuitsTested(r, z, t)
  <2>1. CircuitsTested(r, r, t) /\ CircuitsTested(r, d, t)
    BY <1>1 DEF CircuitsTested, SameCircuits
  <2>2. CircuitsTested(r, a, t) /\ CircuitsTested(r, l, t)
    BY <1>1, <1>2 DEF CircuitsTested, SameCircuits
  <2>3. CircuitsTested(r, w, t)
    BY <1>4, <2>2, TestedAgain
  <2>4. CircuitsTested(r, z, t)
    BY <1>5, <2>3, TestedAgain
  <2> QED
    BY <2>1, <2>2, <2>3, <2>4
<1>9. /\ SameBooks(r, r, t) /\ SameBooks(r, d, t) /\ SameBooks(r, a, t)
      /\ SameBooks(r, l, t) /\ SameBooks(r, w, t) /\ SameBooks(r, z, t)
  BY <1>1, <1>2, <1>4, <1>5 DEF SameBooks, SameTally
<1>10. /\ r.streak \in Nat /\ r.coolUntil \in Int /\ d.pnl \in Int /\ d.date \in Int
       /\ DailyLossLimit \in Nat /\ LossLimit \in Nat
  BY <1>1, RiskAssumption DEF IsRisk, RiskWith
<1>11. /\ d.streak = r.streak /\ a.streak = r.streak /\ l.streak = r.streak
       /\ w.streak = r.streak /\ d.coolUntil = r.coolUntil /\ a.coolUntil = r.coolUntil
       /\ l.coolUntil = r.coolUntil /\ w.coolUntil = r.coolUntil /\ z.coolUntil = r.coolUntil
       /\ l.pnl = d.pnl
  BY <1>1, <1>2, <1>4, <1>5 DEF SameTally
<1>12. CASE gate.risk \in {r, d, a, l, w} /\ gate.reason # "ok"
  <2>1. /\ gate.risk.streak = r.streak /\ gate.risk.coolUntil = r.coolUntil
        /\ IsRisk(gate.risk)
    BY <1>1, <1>2, <1>4, <1>11, <1>12
  <2>2. CircuitsTested(r, gate.risk, t) /\ SameBooks(r, gate.risk, t)
    BY <1>8, <1>9, <1>12
  <2> QED
    BY <1>12, <2>1, <2>2 DEF gate
<1>13. CASE /\ gate.risk = z
            /\ ~apiOpen /\ ~slowOpen
            /\ ~(DailyLossLimit > 0 /\ l.pnl <= -DailyLossLimit)
            /\ ~(cools /\ t < w.coolUntil)
  <2>1. z.streak = r.streak \/ (z.streak = 0 /\ cools)
    BY <1>5, <1>11
  <2>2. LossLimit > 0 /\ r.streak >= LossLimit => t >= r.coolUntil
    BY <1>10, <1>11, <1>13 DEF cools
  <2>3. DailyLossLimit > 0 => PnlOn(r, Date(t)) > -DailyLossLimit
    BY <1>1, <1>10, <1>11, <1>13
  <2>4. cools => LossLimit > 0 /\ r.streak >= LossLimit
    BY <1>11 DEF cools
  <2>5. IsRisk(z) /\ z.coolUntil = r.coolUntil
    BY <1>5, <1>11
  <2>6. ~ApiCircuitOpen(r, t) /\ ~LatencyCircuitOpen(r, t)
    BY <1>3, <1>13
  <2>7. CircuitsTested(r, z, t) /\ SameBooks(r, z, t)
    BY <1>8, <1>9
  <2> QED
    BY <1>13, <2>1, <2>2, <2>3, <2>4, <2>5, <2>6, <2>7 DEF gate
<1> QED
  BY <1>7, <1>12, <1>13 DEF gate

-------------------------------------------------------------------------------
(***************************************************************************)
(* Answers of the REST API.                                                *)
(***************************************************************************)

\* A count reaches its limit only with the circuit opened, and no limit counts nothing.
LatencyCounts(r) ==
  /\ \A k \in RequestKinds : r.breaches[k] <= LatencyBreachLimit
  /\ r.latencyUntil = 0 /\ LatencyBreachLimit > 0 =>
       \A k \in RequestKinds : r.breaches[k] < LatencyBreachLimit

\* What agrees about the latency circuit, or has reset it, counts as well.
LEMMA CountsTested ==
  ASSUME NEW r, NEW q, NEW t, CircuitsTested(r, q, t), LatencyCounts(r)
  PROVE  LatencyCounts(q)
BY RiskAssumption DEF CircuitsTested, LatencyCounts

\* A success closes the API circuit (record_api_success).
LEMMA SuccessEffect ==
  ASSUME NEW r, IsRisk(r)
  PROVE  LET q == RecordApiSuccess(r)
         IN  /\ IsRisk(q) /\ SameTally(r, q)
             /\ q.breaches = r.breaches /\ q.latencyUntil = r.latencyUntil
<1> DEFINE u == [r EXCEPT !.apiErrors = 0]
           q == [u EXCEPT !.apiUntil = 0]
<1>1. PICK W : r \in RiskWith(W)
  BY DEF IsRisk
<1>2. u \in RiskWith(W)
  BY <1>1 DEF RiskWith
<1>3. q \in RiskWith(W)
  <2> HIDE DEF u
  <2> QED
    BY <1>2 DEF RiskWith
<1>4. /\ q.pnl = r.pnl /\ q.date = r.date /\ q.streak = r.streak
      /\ q.coolUntil = r.coolUntil
      /\ q.breaches = r.breaches /\ q.latencyUntil = r.latencyUntil
  BY <1>1 DEF RiskWith
<1>5. RecordApiSuccess(r) = q
  BY DEF RecordApiSuccess
<1> HIDE DEF q
<1>6. IsRisk(q) /\ SameTally(r, q)
  BY <1>3, <1>4 DEF IsRisk, SameTally
<1> QED
  BY <1>4, <1>5, <1>6

\* An error counts; from the limit on, each opens the circuit (record_api_error).
LEMMA ErrorEffect ==
  ASSUME NEW r, IsRisk(r), NEW t \in Nat
  PROVE  LET q == RecordApiError(r, t)
         IN  /\ IsRisk(q) /\ SameTally(r, q)
             /\ q.breaches = r.breaches /\ q.latencyUntil = r.latencyUntil
             /\ q.apiUntil = IF OpensApi(r, TRUE) THEN t + ApiCooling ELSE r.apiUntil
<1> DEFINE n == r.apiErrors + 1
           c == IF n >= ApiErrorLimit THEN t + ApiCooling ELSE r.apiUntil
           u == [r EXCEPT !.apiErrors = n]
           q == [u EXCEPT !.apiUntil = c]
<1>1. PICK W : r \in RiskWith(W)
  BY DEF IsRisk
<1>2. n \in Nat /\ c \in Nat /\ ApiErrorLimit \in Nat
  BY <1>1, RiskAssumption DEF RiskWith
<1>3. RecordApiError(r, t) = IF ApiErrorLimit = 0 THEN r ELSE q
  <2>1. u.apiUntil = r.apiUntil
    BY <1>1 DEF RiskWith
  <2> QED
    BY <2>1 DEF RecordApiError
<1>4. CASE ApiErrorLimit = 0
  BY <1>3, <1>4 DEF SameTally, OpensApi
<1>5. CASE ApiErrorLimit # 0
  <2>1. c = IF OpensApi(r, TRUE) THEN t + ApiCooling ELSE r.apiUntil
    BY <1>2, <1>5 DEF OpensApi
  <2> HIDE DEF n, c
  <2>2. u \in RiskWith(W)
    BY <1>1, <1>2 DEF RiskWith
  <2>3. q \in RiskWith(W)
    <3> HIDE DEF u
    <3> QED
      BY <1>2, <2>2 DEF RiskWith
  <2>4. /\ q.pnl = r.pnl /\ q.date = r.date /\ q.streak = r.streak
        /\ q.coolUntil = r.coolUntil /\ q.apiUntil = c
        /\ q.breaches = r.breaches /\ q.latencyUntil = r.latencyUntil
    BY <1>1 DEF RiskWith
  <2> HIDE DEF q
  <2>5. IsRisk(q) /\ SameTally(r, q)
    BY <2>3, <2>4 DEF IsRisk, SameTally
  <2> QED
    BY <1>3, <1>5, <2>1, <2>4, <2>5
<1> QED
  BY <1>4, <1>5

\* p is r with the count of k set to n and the circuit open until c.
CountedAs(r, p, k, n, c) == p = [r EXCEPT !.breaches[k] = n, !.latencyUntil = c]

\* Counting a slow answer, or clearing the kind of a fast one (record_latency).
LEMMA CountEffect ==
  ASSUME NEW r, IsRisk(r), NEW k \in RequestKinds, NEW n \in Nat, NEW c \in Nat, NEW p,
         CountedAs(r, p, k, n, c)
  PROVE  /\ IsRisk(p) /\ SameTally(r, p) /\ p.apiUntil = r.apiUntil
         /\ p.breaches = [r.breaches EXCEPT ![k] = n] /\ p.latencyUntil = c
<1> DEFINE b == [r.breaches EXCEPT ![k] = n]
           u == [r EXCEPT !.breaches = b]
           q == [u EXCEPT !.latencyUntil = c]
<1>1. PICK W : r \in RiskWith(W)
  BY DEF IsRisk
<1>2. b \in [RequestKinds -> Nat]
  BY <1>1 DEF RiskWith
<1>3. p = q
  BY DEF CountedAs
<1> HIDE DEF b
<1>4. u \in RiskWith(W)
  BY <1>1, <1>2 DEF RiskWith
<1>5. q \in RiskWith(W)
  <2> HIDE DEF u
  <2> QED
    BY <1>4 DEF RiskWith
<1>6. /\ q.pnl = r.pnl /\ q.date = r.date /\ q.streak = r.streak
      /\ q.coolUntil = r.coolUntil /\ q.apiUntil = r.apiUntil
      /\ q.breaches = b /\ q.latencyUntil = c
  BY <1>1 DEF RiskWith
<1> HIDE DEF q
<1> QED
  BY <1>3, <1>5, <1>6 DEF IsRisk, SameTally, b

\* The answer that opens the latency circuit opens it for ApiCooling, and until then
\* nothing closes it (record_latency).
LEMMA LatencyEffect ==
  ASSUME NEW r, IsRisk(r), LatencyCounts(r), NEW k \in RequestKinds, NEW slow \in BOOLEAN,
         now \in Nat, now > 0
  PROVE  LET q == RecordLatency(r, k, slow, now)
         IN  /\ IsRisk(q) /\ SameTally(r, q) /\ q.apiUntil = r.apiUntil
             /\ LatencyCounts(q)
             /\ IF OpensLatency(r, slow, k) THEN q.latencyUntil = now + ApiCooling
                ELSE q.latencyUntil = r.latencyUntil \/ now >= r.latencyUntil
<1> DEFINE a == AfterLatencyTest(r, now)
           m == a.breaches[k] + 1
           opens == m >= LatencyBreachLimit
           n == IF slow THEN m ELSE 0
           c == IF slow /\ opens THEN now + ApiCooling ELSE a.latencyUntil
           q == [a EXCEPT !.breaches[k] = n, !.latencyUntil = c]
<1>1. /\ LatencyBreachLimit \in Nat /\ ApiCooling \in Nat
  BY RiskAssumption
<1>2. CASE LatencyBreachLimit = 0 \/ LatencyCircuitOpen(r, now)
  <2>1. RecordLatency(r, k, slow, now) = r /\ ~OpensLatency(r, slow, k)
    BY <1>1, <1>2 DEF RecordLatency, OpensLatency
  <2> QED
    BY <2>1 DEF SameTally
<1>3. CASE ~(LatencyBreachLimit = 0 \/ LatencyCircuitOpen(r, now))
  <2>1. /\ IsRisk(a) /\ SameTally(r, a) /\ a.apiUntil = r.apiUntil
        /\ CircuitsTested(r, a, now) /\ a.latencyUntil = 0
    <3>1. PICK W : r \in RiskWith(W)
      BY DEF IsRisk
    <3>2. r.latencyUntil \in Nat
      BY <3>1 DEF RiskWith
    <3>3. CASE r.latencyUntil = 0
      <4>1. a = r
        BY <3>3 DEF AfterLatencyTest
      <4> QED
        BY <3>3, <4>1 DEF SameTally, CircuitsTested
    <3>4. CASE r.latencyUntil # 0
      <4> DEFINE none == [j \in RequestKinds |-> 0]
                 u == [r EXCEPT !.latencyUntil = 0]
                 v == [u EXCEPT !.breaches = none]
      <4>1. now >= r.latencyUntil
        BY <1>1, <1>3, <3>2, <3>4 DEF LatencyCircuitOpen
      <4>2. a = v
        BY <1>1, <1>3, <3>2, <3>4, <4>1 DEF AfterLatencyTest
      <4>3. u \in RiskWith(W) /\ none \in [RequestKinds -> Nat]
        BY <3>1 DEF RiskWith
      <4> HIDE DEF none
      <4>4. /\ v.pnl = r.pnl /\ v.date = r.date /\ v.streak = r.streak
            /\ v.coolUntil = r.coolUntil /\ v.apiUntil = r.apiUntil
            /\ v.latencyUntil = 0 /\ v.breaches = none
        BY <3>1 DEF RiskWith
      <4> HIDE DEF u
      <4>5. v \in RiskWith(W)
        BY <4>3 DEF RiskWith
      <4> HIDE DEF v
      <4>6. CircuitsTested(r, v, now)
        BY <4>1, <4>4 DEF CircuitsTested, none
      <4> QED
        BY <4>2, <4>4, <4>5, <4>6 DEF IsRisk, SameTally
    <3> QED
      BY <3>3, <3>4
  <2>2. LatencyCounts(a)
    BY <2>1, CountsTested
  <2>3. a.breaches \in [RequestKinds -> Nat]
    BY <2>1 DEF IsRisk, RiskWith
  <2>4. RecordLatency(r, k, slow, now) = q
    <3>1. CASE slow
      <4>1. [a EXCEPT !.breaches[k] = m].latencyUntil = a.latencyUntil
        BY <2>1 DEF IsRisk, RiskWith
      <4> QED
        BY <1>3, <3>1, <4>1 DEF RecordLatency
    <3>2. CASE ~slow
      <4>1. RecordLatency(r, k, slow, now) = [a EXCEPT !.breaches[k] = 0]
        BY <1>3, <3>2 DEF RecordLatency
      <4> DEFINE u == [a EXCEPT !.breaches[k] = 0]
      <4>2. PICK W : a \in RiskWith(W)
        BY <2>1 DEF IsRisk
      <4>3. u.latencyUntil = a.latencyUntil /\ u \in RiskWith(W)
        <5>1. [a.breaches EXCEPT ![k] = 0] \in [RequestKinds -> Nat]
          BY <2>3
        <5> QED
          BY <4>2, <5>1 DEF RiskWith
      <4>4. u = [u EXCEPT !.latencyUntil = u.latencyUntil]
        <5> HIDE DEF u
        <5> QED
          BY <4>3 DEF RiskWith
      <4> QED
        BY <3>2, <4>1, <4>3, <4>4
    <3> QED
      BY <3>1, <3>2
  <2>5. OpensLatency(r, slow, k) <=> slow /\ opens
    BY <1>1, <1>3 DEF OpensLatency
  <2> HIDE DEF a
  <2>6. m \in Nat /\ n \in Nat /\ c \in Nat
    BY <1>1, <2>1, <2>3
  <2>7. a.breaches[k] < LatencyBreachLimit
    BY <1>1, <1>3, <2>1, <2>2 DEF LatencyCounts
  <2>8. n <= LatencyBreachLimit /\ (c = 0 => n < LatencyBreachLimit)
    BY <1>1, <1>3, <2>3, <2>6, <2>7
  <2>9. c = (IF slow /\ opens THEN now + ApiCooling ELSE 0)
    BY <2>1
  <2> HIDE DEF m, n, c, opens
  <2>10. /\ IsRisk(q) /\ SameTally(a, q) /\ q.apiUntil = a.apiUntil
         /\ q.breaches = [a.breaches EXCEPT ![k] = n] /\ q.latencyUntil = c
    <3>1. CountedAs(a, q, k, n, c)
      BY DEF CountedAs
    <3>2. IsRisk(a)
      BY <2>1
    <3> HIDE DEF q
    <3> QED
      BY <2>6, <3>1, <3>2, CountEffect
  <2> HIDE DEF q
  <2>11. LatencyCounts(q)
    <3>1. \A j \in RequestKinds : q.breaches[j] = IF j = k THEN n ELSE a.breaches[j]
      BY <2>3, <2>10
    <3>2. \A j \in RequestKinds : a.breaches[j] < LatencyBreachLimit
      BY <1>1, <1>3, <2>1, <2>2 DEF LatencyCounts
    <3>3. \A j \in RequestKinds : a.breaches[j] \in Nat
      BY <2>3
    <3> QED
      BY <1>1, <2>6, <2>8, <2>10, <3>1, <3>2, <3>3 DEF LatencyCounts
  <2>12. IF slow /\ opens THEN q.latencyUntil = now + ApiCooling
         ELSE q.latencyUntil = r.latencyUntil \/ now >= r.latencyUntil
    <3>1. a.latencyUntil = r.latencyUntil \/ now >= r.latencyUntil
      BY <2>1 DEF CircuitsTested
    <3> QED
      BY <2>1, <2>9, <2>10, <3>1
  <2> QED
    BY <2>1, <2>4, <2>5, <2>10, <2>11, <2>12 DEF SameTally
<1> QED
  BY <1>2, <1>3

-------------------------------------------------------------------------------
(***************************************************************************)
(* The types, and the circuits: what is open stays open for its time.      *)
(***************************************************************************)

SeenType ==
  [adds : Nat, charges : Nat, total : Int, turnedAt : Nat, row : Nat, lostAt : Nat,
   date : Int, earned : Int]

Typed ==
  /\ now \in 1 .. MaxTime
  /\ IsRisk(risk)
  /\ position \in Nat /\ entering \in Nat /\ position + entering <= MaxInventory
  /\ realized \in Int
  /\ counted \in BOOLEAN /\ halted \in BOOLEAN
  /\ position = 0 => realized = 0 /\ ~counted
  /\ apiAt \in Nat /\ apiAt <= now /\ slowAt \in Nat /\ slowAt <= now
  /\ seen \in SeenType

\* At the time t, a circuit that opened at `at' is open for ApiCooling or has been.
Kept(until, at, t) ==
  at > 0 => until >= at + ApiCooling \/ t >= at + ApiCooling

CircuitsKept(r, aat, sat, t) ==
  /\ Kept(r.apiUntil, aat, t)
  /\ aat > 0 => ApiErrorLimit > 0
  /\ Kept(r.latencyUntil, sat, t)
  /\ sat > 0 => LatencyBreachLimit > 0
  /\ LatencyCounts(r)

Circuits == CircuitsKept(risk, apiAt, slowAt, now)

Base == Typed /\ Circuits

\* What closes no circuit before its time keeps them.
LEMMA TestedKept ==
  ASSUME NEW r, NEW q, NEW aat \in Nat, NEW sat \in Nat, NEW s \in Nat, NEW t \in Nat,
         IsRisk(r), IsRisk(q), s <= t,
         CircuitsKept(r, aat, sat, s), CircuitsTested(r, q, t)
  PROVE  CircuitsKept(q, aat, sat, t)
<1>1. LatencyCounts(q)
  BY CountsTested DEF CircuitsKept
<1>2. /\ r.apiUntil \in Nat /\ r.latencyUntil \in Nat /\ q.apiUntil \in Nat
      /\ q.latencyUntil \in Nat /\ ApiCooling \in Nat
  BY RiskAssumption DEF IsRisk, RiskWith
<1>3. q.apiUntil = r.apiUntil \/ t >= r.apiUntil
  BY DEF CircuitsTested
<1>4. q.latencyUntil = r.latencyUntil \/ t >= r.latencyUntil
  BY DEF CircuitsTested
<1>5. /\ Kept(r.apiUntil, aat, s) /\ Kept(r.latencyUntil, sat, s)
      /\ aat > 0 => ApiErrorLimit > 0
      /\ sat > 0 => LatencyBreachLimit > 0
  BY DEF CircuitsKept
<1>6. Kept(q.apiUntil, aat, t)
  BY <1>2, <1>3, <1>5 DEF Kept
<1>7. Kept(q.latencyUntil, sat, t)
  BY <1>2, <1>4, <1>5 DEF Kept
<1> QED
  BY <1>1, <1>5, <1>6, <1>7 DEF CircuitsKept

\* Risk managers with the same circuits keep the same.
LEMMA SameKept ==
  ASSUME NEW r, NEW q, NEW aat, NEW sat, NEW t,
         SameCircuits(r, q), CircuitsKept(r, aat, sat, t)
  PROVE  CircuitsKept(q, aat, sat, t)
BY DEF SameCircuits, CircuitsKept, LatencyCounts

\* What TryEnter does, by CanEnterEffect.
LEMMA TryEnterEffect ==
  ASSUME Base, NEW base \in Nat, NEW softKill \in BOOLEAN, NEW t \in Nat,
         TryEnter(base, softKill, t)
  PROVE  /\ IsRisk(risk') /\ CircuitsTested(risk, risk', t) /\ SameBooks(risk, risk', t)
         /\ risk'.coolUntil = risk.coolUntil
         /\ \/ risk'.streak = risk.streak
            \/ /\ risk'.streak = 0
               /\ LossLimit > 0 /\ risk.streak >= LossLimit /\ t >= risk.coolUntil
         /\ entering' \in 0 .. MaxInventory
         /\ entering' > 0 =>
              /\ ~ApiCircuitOpen(risk, t) /\ ~LatencyCircuitOpen(risk, t)
              /\ DailyLossLimit > 0 => PnlOn(risk, Date(t)) > -DailyLossLimit
              /\ LossLimit > 0 /\ risk.streak >= LossLimit => t >= risk.coolUntil
              /\ seen' = IF t >= seen.lostAt + Cooling THEN [seen EXCEPT !.row = 0] ELSE seen
         /\ seen' = seen \/ (seen' = [seen EXCEPT !.row = 0] /\ t >= seen.lostAt + Cooling)
<1> DEFINE killed == [risk EXCEPT !.softKill = softKill]
           gate == Asked(killed, t, position)
<1>1. IsRisk(killed) /\ SameTally(risk, killed) /\ SameCircuits(risk, killed)
  <2>1. PICK W : risk \in RiskWith(W)
    BY DEF Base, Typed, IsRisk
  <2>2. killed \in RiskWith(W)
    BY <2>1 DEF RiskWith
  <2>3. IsRisk(killed)
    BY <2>2 DEF IsRisk
  <2> QED
    BY <2>1, <2>3 DEF RiskWith, SameTally, SameCircuits
<1>2. /\ ApiCircuitOpen(killed, t) <=> ApiCircuitOpen(risk, t)
      /\ LatencyCircuitOpen(killed, t) <=> LatencyCircuitOpen(risk, t)
  BY <1>1 DEF SameCircuits, ApiCircuitOpen, LatencyCircuitOpen
<1>3. position \in Nat
  BY DEF Base, Typed
<1>4. /\ risk' = gate.risk
      /\ entering' = IF gate.reason = "ok" THEN OrderQty(base, position, base) ELSE 0
      /\ seen' = IF gate.reason = "ok" /\ t >= seen.lostAt + Cooling
                 THEN [seen EXCEPT !.row = 0] ELSE seen
  BY DEF TryEnter, Asked
<1>5. OrderQty(base, position, base) \in 0 .. MaxInventory
  BY <1>3, RiskAssumption DEF OrderQty
<1> HIDE DEF killed
<1>6. /\ IsRisk(gate.risk) /\ CircuitsTested(killed, gate.risk, t)
      /\ SameBooks(killed, gate.risk, t)
      /\ gate.risk.coolUntil = killed.coolUntil
      /\ \/ gate.risk.streak = killed.streak
         \/ /\ gate.risk.streak = 0
            /\ LossLimit > 0 /\ killed.streak >= LossLimit /\ t >= killed.coolUntil
      /\ gate.reason = "ok" =>
           /\ ~ApiCircuitOpen(killed, t) /\ ~LatencyCircuitOpen(killed, t)
           /\ DailyLossLimit > 0 => PnlOn(killed, Date(t)) > -DailyLossLimit
           /\ LossLimit > 0 /\ killed.streak >= LossLimit => t >= killed.coolUntil
  BY <1>1, <1>3, CanEnterEffect
<1> HIDE DEF gate
<1>7. CircuitsTested(risk, risk', t)
  BY <1>1, <1>4, <1>6 DEF SameCircuits, CircuitsTested
<1>8. SameBooks(risk, risk', t) /\ PnlOn(killed, Date(t)) = PnlOn(risk, Date(t))
  BY <1>1, <1>4, <1>6 DEF SameBooks, SameTally, PnlOn
<1>9. MaxInventory \in Nat
  BY RiskAssumption
<1>10. gate.reason # "ok" => entering' = 0 /\ seen' = seen
  BY <1>4
<1>11. CASE gate.reason = "ok"
  BY <1>1, <1>2, <1>4, <1>5, <1>6, <1>7, <1>8, <1>11 DEF SameTally
<1>12. CASE gate.reason # "ok"
  BY <1>1, <1>4, <1>6, <1>7, <1>8, <1>9, <1>10, <1>12 DEF SameTally
<1> QED
  BY <1>11, <1>12

\* What an exit adds to the history of its position.
LEMMA BookedEffect ==
  ASSUME Typed, NEW n \in Nat, NEW g \in Int
  PROVE  /\ NetPnl(g * n, n) \in Int
         /\ Booked(n, g) \in SeenType
         /\ Booked(n, g).date = Date(now)
         /\ Booked(n, g).earned =
              (IF seen.date = Date(now) THEN seen.earned ELSE 0) + NetPnl(g * n, n)
         /\ Booked(n, g).total = seen.total + NetPnl(g * n, n)
         /\ Booked(n, g).turnedAt = IF seen.turnedAt = 0 /\ NetPnl(g * n, n) < 0
                                    THEN now ELSE seen.turnedAt
         /\ Booked(n, g).adds = seen.adds /\ Booked(n, g).charges = seen.charges
         /\ Booked(n, g).row = seen.row /\ Booked(n, g).lostAt = seen.lostAt
<1> DEFINE x == NetPnl(g * n, n)
           d == Date(now)
           e == (IF seen.date = d THEN seen.earned ELSE 0) + x
           s1 == [seen EXCEPT !.date = d]
           s2 == [s1 EXCEPT !.earned = (IF seen.date = d THEN @ ELSE 0) + x]
           s3 == [s2 EXCEPT !.total = @ + x]
           s4 == [s3 EXCEPT !.turnedAt = IF @ = 0 /\ x < 0 THEN now ELSE @]
<1>1. now \in Nat /\ d \in Int /\ seen \in SeenType
  BY DateMonotone DEF Typed
<1>2. x \in Int
  <2>1. g * n \in Int
    OBVIOUS
  <2> QED
    BY <2>1, RiskAssumption DEF NetPnl
<1>3. Booked(n, g) = s4
  BY DEF Booked
<1> HIDE DEF x, d
<1>4. /\ s1 \in SeenType /\ s1.date = d /\ s1.earned = seen.earned
      /\ s1.total = seen.total /\ s1.turnedAt = seen.turnedAt /\ s1.adds = seen.adds
      /\ s1.charges = seen.charges /\ s1.row = seen.row /\ s1.lostAt = seen.lostAt
  BY <1>1 DEF SeenType
<1> HIDE DEF s1
<1>5. /\ s2 \in SeenType /\ s2.date = d /\ s2.earned = e
      /\ s2.total = seen.total /\ s2.turnedAt = seen.turnedAt /\ s2.adds = seen.adds
      /\ s2.charges = seen.charges /\ s2.row = seen.row /\ s2.lostAt = seen.lostAt
  BY <1>1, <1>2, <1>4 DEF SeenType
<1> HIDE DEF s2
<1>6. /\ s3 \in SeenType /\ s3.date = d /\ s3.earned = e
      /\ s3.total = seen.total + x /\ s3.turnedAt = seen.turnedAt /\ s3.adds = seen.adds
      /\ s3.charges = seen.charges /\ s3.row = seen.row /\ s3.lostAt = seen.lostAt
  BY <1>2, <1>5 DEF SeenType
<1> HIDE DEF s3
<1>7. /\ s4 \in SeenType /\ s4.date = d /\ s4.earned = e
      /\ s4.total = seen.total + x /\ s4.adds = seen.adds
      /\ s4.turnedAt = (IF seen.turnedAt = 0 /\ x < 0 THEN now ELSE seen.turnedAt)
      /\ s4.charges = seen.charges /\ s4.row = seen.row /\ s4.lostAt = seen.lostAt
  BY <1>1, <1>2, <1>6 DEF SeenType
<1> HIDE DEF s4
<1> QED
  BY <1>2, <1>3, <1>7 DEF x, d

\* What a partial exit does, by PartialEffect and BookedEffect.
LEMMA PartialExitEffect ==
  ASSUME Typed, NEW n \in Nat, NEW g \in Int, PartialExit(n, g)
  PROVE  LET x == NetPnl(g * n, n)
             counts == ~counted /\ x < 0
         IN  /\ x \in Int
             /\ IsRisk(risk') /\ SameCircuits(risk, risk')
             /\ risk'.date = Date(now) /\ risk'.pnl = PnlOn(risk, Date(now)) + x
             /\ risk'.streak = IF counts THEN risk.streak + 1 ELSE risk.streak
             /\ risk'.coolUntil = IF counts /\ LossLimit > 0 /\ risk'.streak >= LossLimit
                                  THEN now + Cooling ELSE risk.coolUntil
             /\ seen' \in SeenType
             /\ seen'.date = Date(now)
             /\ seen'.earned = (IF seen.date = Date(now) THEN seen.earned ELSE 0) + x
             /\ seen'.total = seen.total + x
             /\ seen'.turnedAt = IF seen.turnedAt = 0 /\ x < 0 THEN now ELSE seen.turnedAt
             /\ seen'.adds = seen.adds
             /\ seen'.charges = seen.charges + (IF counts THEN 1 ELSE 0)
             /\ seen'.row = seen.row /\ seen'.lostAt = seen.lostAt
<1> DEFINE x == NetPnl(g * n, n)
           c == ~counted
           next == RecordPartialPnl(risk, g * n, n, now, c)
           s == Booked(n, g)
           k == Charges(next)
<1>1. g * n \in Int /\ now \in Nat /\ c \in BOOLEAN /\ IsRisk(risk)
  BY DEF Typed
<1>2. risk' = next /\ seen' = [s EXCEPT !.charges = @ + k]
  BY DEF PartialExit
<1> HIDE DEF c
<1>4. /\ IsRisk(next) /\ SameCircuits(risk, next)
      /\ next.date = Date(now) /\ next.pnl = PnlOn(risk, Date(now)) + x
      /\ next.streak = (IF c /\ x < 0 THEN risk.streak + 1 ELSE risk.streak)
      /\ next.coolUntil = IF c /\ x < 0 /\ LossLimit > 0 /\ next.streak >= LossLimit
                          THEN now + Cooling ELSE risk.coolUntil
  BY <1>1, PartialEffect
<1>3. /\ x \in Int /\ s \in SeenType /\ s.date = Date(now)
      /\ s.earned = (IF seen.date = Date(now) THEN seen.earned ELSE 0) + x
      /\ s.total = seen.total + x
      /\ s.turnedAt = (IF seen.turnedAt = 0 /\ x < 0 THEN now ELSE seen.turnedAt)
      /\ s.adds = seen.adds /\ s.charges = seen.charges
      /\ s.row = seen.row /\ s.lostAt = seen.lostAt
  BY BookedEffect
<1> HIDE DEF x, next, s
<1>5. risk.streak \in Nat
  BY <1>1 DEF IsRisk, RiskWith
<1>6. k = IF c /\ x < 0 THEN 1 ELSE 0
  BY <1>4, <1>5 DEF Charges
<1> HIDE DEF k
<1>7. k \in Nat
  BY <1>6
<1>8. /\ seen' \in SeenType /\ seen'.date = s.date /\ seen'.earned = s.earned
      /\ seen'.total = s.total /\ seen'.turnedAt = s.turnedAt /\ seen'.adds = s.adds
      /\ seen'.charges = s.charges + k /\ seen'.row = s.row /\ seen'.lostAt = s.lostAt
  BY <1>2, <1>3, <1>7 DEF SeenType
<1> QED
  BY <1>2, <1>3, <1>4, <1>6, <1>8 DEF x, c

\* What the exit that closes the position does, by ResultEffect and BookedEffect.
LEMMA FullExitEffect ==
  ASSUME Typed, NEW n \in Nat, NEW g \in Int, FullExit(n, g)
  PROVE  LET x == NetPnl(g * n, n)
             won == realized + x > 0
             counts == ~won /\ ~counted
             lost == ~(seen.total + x > 0)
         IN  /\ x \in Int
             /\ IsRisk(risk') /\ SameCircuits(risk, risk')
             /\ risk'.date = Date(now) /\ risk'.pnl = PnlOn(risk, Date(now)) + x
             /\ risk'.streak = IF won THEN 0
                               ELSE IF counts THEN risk.streak + 1 ELSE risk.streak
             /\ risk'.coolUntil = IF counts /\ LossLimit > 0 /\ risk'.streak >= LossLimit
                                  THEN now + Cooling ELSE risk.coolUntil
             /\ seen' \in SeenType
             /\ seen'.date = Date(now)
             /\ seen'.earned = (IF seen.date = Date(now) THEN seen.earned ELSE 0) + x
             /\ seen'.adds = seen.adds
             /\ seen'.charges = seen.charges + (IF counts THEN 1 ELSE 0)
             /\ seen'.row = IF lost THEN seen.row + 1 ELSE 0
             /\ seen'.lostAt = IF ~lost THEN seen.lostAt
                               ELSE IF seen.turnedAt > 0 THEN seen.turnedAt ELSE now
<1> DEFINE x == NetPnl(g * n, n)
           total == realized + x
           u == UpdatesStreak(total)
           next == RecordTradeResult(risk, g * n, n, now, total, u)
           s == Booked(n, g)
           k == Charges(next)
           l == IF s.total > 0 THEN s.lostAt ELSE IF s.turnedAt > 0 THEN s.turnedAt ELSE now
           s1 == [s EXCEPT !.charges = @ + k]
           s2 == [s1 EXCEPT !.row = IF s.total > 0 THEN 0 ELSE @ + 1]
           s3 == [s2 EXCEPT !.lostAt = l]
<1>1. /\ g * n \in Int /\ now \in Nat /\ IsRisk(risk) /\ counted \in BOOLEAN
      /\ realized \in Int /\ seen \in SeenType
  BY DEF Typed
<1>2. /\ x \in Int /\ s \in SeenType /\ s.date = Date(now)
      /\ s.earned = (IF seen.date = Date(now) THEN seen.earned ELSE 0) + x
      /\ s.total = seen.total + x
      /\ s.turnedAt = (IF seen.turnedAt = 0 /\ x < 0 THEN now ELSE seen.turnedAt)
      /\ s.adds = seen.adds /\ s.charges = seen.charges
      /\ s.row = seen.row /\ s.lostAt = seen.lostAt
  BY BookedEffect
<1>3. total \in Int /\ u \in BOOLEAN /\ (u <=> total > 0 \/ ~counted)
  BY <1>1, <1>2 DEF UpdatesStreak
<1>4. risk' = next /\ seen' = s3
  <2>1. s2.lostAt = s.lostAt
    BY <1>2 DEF SeenType
  <2>2. /\ risk' = next
        /\ seen' = [s EXCEPT !.charges = @ + k,
                             !.row = IF s.total > 0 THEN 0 ELSE @ + 1,
                             !.lostAt = IF s.total > 0 THEN @
                                        ELSE IF s.turnedAt > 0 THEN s.turnedAt ELSE now]
    BY DEF FullExit
  <2> QED
    BY <2>1, <2>2
<1> HIDE DEF x, total, u
<1>5. /\ IsRisk(next) /\ SameCircuits(risk, next)
      /\ next.date = Date(now) /\ next.pnl = PnlOn(risk, Date(now)) + x
      /\ next.streak = (IF ~u THEN risk.streak ELSE IF total > 0 THEN 0 ELSE risk.streak + 1)
      /\ next.coolUntil = IF u /\ ~(total > 0) /\ LossLimit > 0 /\ next.streak >= LossLimit
                          THEN now + Cooling ELSE risk.coolUntil
  BY <1>1, <1>3, ResultEffect DEF x
<1>6. risk.streak \in Nat
  BY <1>1 DEF IsRisk, RiskWith
<1> HIDE DEF next, s
<1>7. k = IF ~(total > 0) /\ ~counted THEN 1 ELSE 0
  BY <1>1, <1>3, <1>5, <1>6 DEF Charges
<1>8. k \in Nat /\ l \in Nat
  BY <1>1, <1>2, <1>7 DEF SeenType
<1> HIDE DEF k, l
<1>9. /\ s1 \in SeenType /\ s1.date = s.date /\ s1.earned = s.earned /\ s1.total = s.total
      /\ s1.adds = s.adds /\ s1.charges = s.charges + k /\ s1.row = s.row
  BY <1>2, <1>8 DEF SeenType
<1> HIDE DEF s1
<1>10. /\ s2 \in SeenType /\ s2.date = s.date /\ s2.earned = s.earned
       /\ s2.adds = s.adds /\ s2.charges = s.charges + k
       /\ s2.row = IF s.total > 0 THEN 0 ELSE s.row + 1
  BY <1>9 DEF SeenType
<1> HIDE DEF s2
<1>11. /\ s3 \in SeenType /\ s3.date = s.date /\ s3.earned = s.earned
       /\ s3.adds = s.adds /\ s3.charges = s.charges + k
       /\ s3.row = (IF s.total > 0 THEN 0 ELSE s.row + 1) /\ s3.lostAt = l
  BY <1>8, <1>10 DEF SeenType
<1> HIDE DEF s3
<1>12. l = IF s.total > 0 THEN s.lostAt
           ELSE IF seen.turnedAt > 0 THEN seen.turnedAt ELSE now
  BY <1>1, <1>2 DEF l, SeenType
<1>13. /\ risk'.streak = IF total > 0 THEN 0
                         ELSE IF ~(total > 0) /\ ~counted THEN risk.streak + 1
                         ELSE risk.streak
       /\ risk'.coolUntil = IF ~(total > 0) /\ ~counted /\ LossLimit > 0
                               /\ risk'.streak >= LossLimit
                            THEN now + Cooling ELSE risk.coolUntil
  BY <1>1, <1>3, <1>4, <1>5
<1>14. seen'.row = IF ~(seen.total + x > 0) THEN seen.row + 1 ELSE 0
  BY <1>2, <1>4, <1>11
<1>15. seen'.lostAt = IF seen.total + x > 0 THEN seen.lostAt
                      ELSE IF seen.turnedAt > 0 THEN seen.turnedAt ELSE now
  BY <1>2, <1>4, <1>11, <1>12
<1> QED
  BY <1>2, <1>4, <1>5, <1>7, <1>11, <1>13, <1>14, <1>15 DEF x, total

\* A fill of an entry opens a position, whose history is new, or adds to it.
LEMMA EntryFillEffect ==
  ASSUME Typed, NEW n \in Nat, EntryFill(n)
  PROVE  /\ seen' \in SeenType
         /\ seen'.row = seen.row /\ seen'.lostAt = seen.lostAt
         /\ seen'.date = seen.date /\ seen'.earned = seen.earned
         /\ position = 0 =>
              /\ seen'.adds = 0 /\ seen'.charges = 0 /\ seen'.total = 0 /\ seen'.turnedAt = 0
         /\ position # 0 =>
              /\ seen'.adds = seen.adds + 1 /\ seen'.charges = seen.charges
              /\ seen'.total = seen.total /\ seen'.turnedAt = seen.turnedAt
<1>1. seen \in SeenType
  BY DEF Typed
<1>2. CASE position = 0
  <2> DEFINE s1 == [seen EXCEPT !.adds = 0]
             s2 == [s1 EXCEPT !.charges = 0]
             s3 == [s2 EXCEPT !.total = 0]
             s4 == [s3 EXCEPT !.turnedAt = 0]
  <2>1. seen' = s4
    BY <1>2 DEF EntryFill
  <2>2. /\ s1 \in SeenType /\ s1.adds = 0 /\ s1.row = seen.row /\ s1.lostAt = seen.lostAt
        /\ s1.date = seen.date /\ s1.earned = seen.earned
    BY <1>1 DEF SeenType
  <2> HIDE DEF s1
  <2>3. /\ s2 \in SeenType /\ s2.adds = 0 /\ s2.charges = 0 /\ s2.row = seen.row
        /\ s2.lostAt = seen.lostAt /\ s2.date = seen.date /\ s2.earned = seen.earned
    BY <2>2 DEF SeenType
  <2> HIDE DEF s2
  <2>4. /\ s3 \in SeenType /\ s3.adds = 0 /\ s3.charges = 0 /\ s3.total = 0
        /\ s3.row = seen.row /\ s3.lostAt = seen.lostAt
        /\ s3.date = seen.date /\ s3.earned = seen.earned
    BY <2>3 DEF SeenType
  <2> HIDE DEF s3
  <2>5. /\ s4 \in SeenType /\ s4.adds = 0 /\ s4.charges = 0 /\ s4.total = 0
        /\ s4.turnedAt = 0 /\ s4.row = seen.row /\ s4.lostAt = seen.lostAt
        /\ s4.date = seen.date /\ s4.earned = seen.earned
    BY <2>4 DEF SeenType
  <2> QED
    BY <1>2, <2>1, <2>5
<1>3. CASE position # 0
  <2>1. seen' = [seen EXCEPT !.adds = @ + 1]
    BY <1>3 DEF EntryFill
  <2> QED
    BY <1>1, <1>3, <2>1 DEF SeenType
<1> QED
  BY <1>2, <1>3

\* A new process with the position it takes over.
LEMMA RestartEffect ==
  ASSUME Typed, Restart
  PROVE  /\ IsRisk(risk') /\ LatencyCounts(risk')
         /\ risk'.date = Date(now) /\ risk'.pnl = 0 /\ risk'.streak = 0
         /\ seen' \in SeenType /\ seen' = NothingSeen
<1>1. now \in Nat
  BY DEF Typed
<1>2. /\ IsRisk(risk') /\ SameCircuits(NewRisk, risk')
      /\ risk'.date = Date(now) /\ risk'.pnl = 0 /\ risk'.streak = NewRisk.streak
  BY <1>1, NewRiskEffect, RestoreEffect DEF Restart
<1>3. LatencyCounts(NewRisk) /\ NewRisk.streak = 0
  BY RiskAssumption DEF NewRisk, LatencyCounts
<1>4. LatencyCounts(risk')
  BY <1>2, <1>3 DEF SameCircuits, LatencyCounts
<1> QED
  BY <1>2, <1>3, <1>4 DEF Restart, NothingSeen, SeenType

\* What an answer does.
LEMMA AnswerEffect ==
  ASSUME Base, NEW kind \in RequestKinds, NEW succeeded \in BOOLEAN, NEW failed \in BOOLEAN,
         NEW slow \in BOOLEAN, Answer(kind, succeeded, failed, slow)
  PROVE  /\ IsRisk(risk') /\ SameTally(risk, risk')
         /\ CircuitsKept(risk', apiAt', slowAt', now)
         /\ apiAt' \in {0, apiAt, now} /\ slowAt' \in {slowAt, now}
<1> DEFINE r == IF succeeded THEN RecordApiSuccess(risk)
                ELSE IF failed THEN RecordApiError(risk, now) ELSE risk
           apiOpens == OpensApi(risk, failed)
           slowOpens == OpensLatency(risk, slow, kind)
<1>1. /\ now \in Nat /\ now > 0 /\ IsRisk(risk) /\ ~(succeeded /\ failed)
      /\ CircuitsKept(risk, apiAt, slowAt, now) /\ apiAt \in Nat /\ slowAt \in Nat
  BY DEF Base, Typed, Circuits, Answer
<1>2. /\ risk' = RecordLatency(r, kind, slow, now)
      /\ apiAt' = IF succeeded THEN 0 ELSE IF apiOpens THEN now ELSE apiAt
      /\ slowAt' = IF slowOpens THEN now ELSE slowAt
  BY DEF Answer
<1>3. apiOpens => failed /\ ApiErrorLimit > 0
  BY DEF OpensApi
<1>4. slowOpens => LatencyBreachLimit > 0
  BY DEF OpensLatency
<1>5. /\ IsRisk(r) /\ SameTally(risk, r) /\ r.breaches = risk.breaches
      /\ r.latencyUntil = risk.latencyUntil
      /\ ~succeeded => r.apiUntil = IF apiOpens THEN now + ApiCooling ELSE risk.apiUntil
  <2>1. CASE succeeded
    BY <1>1, <2>1, SuccessEffect
  <2>2. CASE ~succeeded /\ failed
    <3>1. failed = TRUE
      BY <2>2
    <3>2. r = RecordApiError(risk, now) /\ apiOpens = OpensApi(risk, TRUE)
      BY <2>2, <3>1
    <3> QED
      BY <1>1, <2>2, <3>2, ErrorEffect
  <2>3. CASE ~succeeded /\ ~failed
    BY <1>1, <1>3, <2>3 DEF SameTally
  <2> QED
    BY <2>1, <2>2, <2>3
<1>6. LatencyCounts(r)
  BY <1>1, <1>5 DEF CircuitsKept, LatencyCounts
<1>7. slowOpens <=> OpensLatency(r, slow, kind)
  <2>1. AfterLatencyTest(r, now).breaches[kind] = AfterLatencyTest(risk, now).breaches[kind]
    <3>1. PICK V : risk \in RiskWith(V)
      BY <1>1 DEF IsRisk
    <3>2. PICK W : r \in RiskWith(W)
      BY <1>5 DEF IsRisk
    <3>3. CASE LatencyBreachLimit > 0 /\ risk.latencyUntil > 0 /\ now >= risk.latencyUntil
      <4> DEFINE none == [k \in RequestKinds |-> 0]
      <4>1. AfterLatencyTest(risk, now).breaches = none
        BY <3>1, <3>3 DEF AfterLatencyTest, RiskWith
      <4> HIDE DEF r
      <4>2. AfterLatencyTest(r, now).breaches = none
        BY <1>5, <3>2, <3>3 DEF AfterLatencyTest, RiskWith
      <4> QED
        BY <4>1, <4>2
    <3>4. CASE ~(LatencyBreachLimit > 0 /\ risk.latencyUntil > 0 /\ now >= risk.latencyUntil)
      <4> HIDE DEF r
      <4> QED
        BY <1>5, <3>4 DEF AfterLatencyTest
    <3> QED
      BY <3>3, <3>4
  <2> HIDE DEF r
  <2> QED
    BY <1>5, <2>1 DEF OpensLatency, LatencyCircuitOpen
<1> HIDE DEF r, apiOpens, slowOpens
<1>8. /\ IsRisk(risk') /\ SameTally(r, risk') /\ risk'.apiUntil = r.apiUntil
      /\ LatencyCounts(risk')
      /\ IF slowOpens THEN risk'.latencyUntil = now + ApiCooling
         ELSE risk'.latencyUntil = risk.latencyUntil \/ now >= risk.latencyUntil
  BY <1>1, <1>2, <1>5, <1>6, <1>7, LatencyEffect
<1>9. SameTally(risk, risk')
  BY <1>5, <1>8 DEF SameTally
<1>10. /\ risk.apiUntil \in Nat /\ risk.latencyUntil \in Nat /\ ApiCooling \in Nat
  BY <1>1, RiskAssumption DEF IsRisk, RiskWith
<1>11. /\ Kept(risk.apiUntil, apiAt, now) /\ Kept(risk.latencyUntil, slowAt, now)
       /\ apiAt > 0 => ApiErrorLimit > 0
       /\ slowAt > 0 => LatencyBreachLimit > 0
  BY <1>1 DEF CircuitsKept
<1>12. Kept(risk'.apiUntil, apiAt', now) /\ (apiAt' > 0 => ApiErrorLimit > 0)
  <2>1. CASE succeeded
    BY <1>2, <2>1 DEF Kept
  <2>2. CASE ~succeeded /\ apiOpens
    BY <1>1, <1>2, <1>3, <1>5, <1>8, <1>10, <2>2 DEF Kept
  <2>3. CASE ~succeeded /\ ~apiOpens
    BY <1>2, <1>5, <1>8, <1>11, <2>3
  <2> QED
    BY <2>1, <2>2, <2>3
<1>13. Kept(risk'.latencyUntil, slowAt', now) /\ (slowAt' > 0 => LatencyBreachLimit > 0)
  <2>1. CASE slowOpens
    BY <1>1, <1>2, <1>4, <1>8, <1>10, <2>1 DEF Kept
  <2>2. CASE ~slowOpens
    BY <1>1, <1>2, <1>8, <1>10, <1>11, <2>2 DEF Kept
  <2> QED
    BY <2>1, <2>2
<1> QED
  BY <1>2, <1>8, <1>9, <1>12, <1>13 DEF CircuitsKept

\* The types and the circuits hold of every state.
LEMMA BaseInit == Init => Base
<1> SUFFICES ASSUME Init PROVE Base
  OBVIOUS
<1>1. LatencyCounts(NewRisk)
  BY RiskAssumption DEF NewRisk, LatencyCounts
<1>2. seen \in SeenType
  BY DEF Init, NothingSeen, SeenType
<1>3. now \in 1 .. MaxTime /\ position + entering <= MaxInventory
  BY RiskAssumption, TradeAssumption DEF Init
<1>4. /\ IsRisk(risk) /\ LatencyCounts(risk) /\ halted = FALSE
      /\ apiAt = 0 /\ slowAt = 0 /\ now = 1
  BY <1>1, NewRiskEffect DEF Init
<1>5. position \in Nat /\ entering \in Nat /\ realized \in Int /\ realized = 0
  BY DEF Init
<1>6. counted = FALSE
  BY DEF Init
<1>7. /\ counted \in BOOLEAN /\ halted \in BOOLEAN
      /\ position = 0 => realized = 0 /\ ~counted
  BY <1>4, <1>5, <1>6
<1>8. Typed
  BY <1>2, <1>3, <1>4, <1>5, <1>7 DEF Typed
<1>9. Circuits
  BY <1>4 DEF Circuits, CircuitsKept, Kept
<1> QED
  BY <1>8, <1>9 DEF Base

LEMMA BaseStep == Base /\ [Next]_vars => Base'
<1> SUFFICES ASSUME Base, [Next]_vars PROVE Base'
  OBVIOUS
<1>1. Typed /\ Circuits
  BY DEF Base
<1>2. ASSUME NEW base \in 1 .. MaxInventory + 1, NEW softKill \in BOOLEAN,
             now < MaxTime, TryEnter(base, softKill, now + 1)
      PROVE  Base'
  <2>1. base \in Nat /\ now + 1 \in Nat /\ now + 1 \in 1 .. MaxTime /\ seen \in SeenType
    BY <1>1, <1>2, RiskAssumption, TradeAssumption DEF Typed
  <2>2. /\ IsRisk(risk') /\ CircuitsTested(risk, risk', now + 1)
        /\ entering' \in 0 .. MaxInventory
        /\ seen' = seen \/ seen' = [seen EXCEPT !.row = 0]
    BY <1>2, <2>1, TryEnterEffect
  <2>3. seen' \in SeenType
    BY <2>1, <2>2 DEF SeenType
  <2>4. /\ position' = 0 /\ realized' = realized /\ counted' = counted
        /\ halted' = halted /\ position = 0 /\ now' = now + 1
        /\ apiAt' = apiAt /\ slowAt' = slowAt
    BY <1>1, <1>2 DEF TryEnter, Typed, circuitsAt
  <2>5. position' + entering' <= MaxInventory /\ entering' \in Nat
    BY <2>2, <2>4, RiskAssumption
  <2>6. Typed'
    BY <1>1, <2>1, <2>2, <2>3, <2>4, <2>5 DEF Typed
  <2>7. Circuits'
    BY <1>1, <2>1, <2>2, <2>4, TestedKept DEF Circuits, Typed
  <2> QED
    BY <2>6, <2>7 DEF Base
<1>3. ASSUME NEW n \in 1 .. MaxInventory, EntryFill(n) PROVE Base'
  <2>1. n \in Nat \ {0}
    BY <1>3, RiskAssumption
  <2>2. seen' \in SeenType
    BY <1>1, <1>3, <2>1, EntryFillEffect
  <2>3. /\ position' \in Nat \ {0} /\ entering' \in Nat /\ realized' \in Int
        /\ position' + entering' <= MaxInventory
    BY <1>1, <1>3, <2>1 DEF EntryFill, Typed
  <2>4. counted' = FALSE /\ UNCHANGED <<now, risk, halted, apiAt, slowAt>>
    BY <1>3 DEF EntryFill, circuitsAt
  <2>5. Typed'
    BY <1>1, <2>2, <2>3, <2>4 DEF Typed
  <2>6. Circuits'
    BY <1>1, <2>4 DEF Circuits
  <2> QED
    BY <2>5, <2>6 DEF Base
<1>4. CASE EntryEnds
  BY <1>1, <1>4, RiskAssumption DEF EntryEnds, circuitsAt, Base, Typed, Circuits
<1>5. ASSUME NEW n \in 1 .. MaxInventory, NEW g \in Gains, PartialExit(n, g) PROVE Base'
  <2>1. n \in Nat \ {0} /\ g \in Int
    BY <1>5, RiskAssumption, TradeAssumption
  <2>2. /\ NetPnl(g * n, n) \in Int /\ IsRisk(risk') /\ SameCircuits(risk, risk')
        /\ seen' \in SeenType
    BY <1>1, <1>5, <2>1, PartialExitEffect
  <2>3. /\ CircuitsKept(risk', apiAt, slowAt, now)
        /\ UNCHANGED <<halted, apiAt, slowAt>>
    BY <1>1, <1>5, <2>2, SameKept DEF PartialExit, circuitsAt, Circuits
  <2>4. /\ position' \in Nat \ {0} /\ position' <= position /\ entering' = entering
        /\ realized' \in Int /\ counted' \in BOOLEAN /\ now' = now
    BY <1>1, <1>5, <2>1, <2>2 DEF PartialExit, Typed
  <2>5. position' + entering' <= MaxInventory
    BY <1>1, <2>4, RiskAssumption DEF Typed
  <2>6. Typed'
    BY <1>1, <2>2, <2>3, <2>4, <2>5 DEF Typed
  <2>7. Circuits'
    BY <2>3, <2>4 DEF Circuits
  <2> QED
    BY <2>6, <2>7 DEF Base
<1>6. ASSUME NEW n \in 1 .. MaxInventory, NEW g \in Gains, FullExit(n, g) PROVE Base'
  <2>1. n \in Nat \ {0} /\ g \in Int
    BY <1>6, RiskAssumption, TradeAssumption
  <2>2. IsRisk(risk') /\ SameCircuits(risk, risk') /\ seen' \in SeenType
    BY <1>1, <1>6, <2>1, FullExitEffect
  <2>3. /\ CircuitsKept(risk', apiAt, slowAt, now)
        /\ UNCHANGED <<halted, apiAt, slowAt>>
    BY <1>1, <1>6, <2>2, SameKept DEF FullExit, circuitsAt, Circuits
  <2>4. /\ position' = 0 /\ entering' = entering /\ realized' = 0 /\ counted' = FALSE
        /\ now' = now
    BY <1>6 DEF FullExit
  <2>5. position' + entering' <= MaxInventory
    BY <1>1, <2>4, RiskAssumption DEF Typed
  <2>6. /\ counted' \in BOOLEAN /\ halted' \in BOOLEAN
        /\ position' = 0 => realized' = 0 /\ ~counted'
    BY <1>1, <2>3, <2>4 DEF Typed
  <2>7. position' \in Nat /\ entering' \in Nat /\ realized' \in Int /\ now' = now
    BY <1>1, <2>4 DEF Typed
  <2>8. Typed'
    BY <1>1, <2>2, <2>3, <2>5, <2>6, <2>7 DEF Typed
  <2>9. Circuits'
    BY <2>3, <2>4 DEF Circuits
  <2> QED
    BY <2>8, <2>9 DEF Base
<1>7. ASSUME NEW kind \in Kinds, NEW succeeded \in BOOLEAN, NEW failed \in BOOLEAN,
             NEW slow \in BOOLEAN, Answer(kind, succeeded, failed, slow)
      PROVE  Base'
  <2>1. /\ IsRisk(risk') /\ CircuitsKept(risk', apiAt', slowAt', now)
        /\ apiAt' \in {0, apiAt, now} /\ slowAt' \in {slowAt, now}
    BY <1>7, TradeAssumption, AnswerEffect
  <2>2. UNCHANGED <<now, position, realized, counted, entering, seen>>
    BY <1>7 DEF Answer
  <2>3. halted' \in BOOLEAN
    BY <1>7 DEF Answer
  <2>4. now \in Nat /\ now' = now
    BY <1>1, <2>2 DEF Typed
  <2>5. apiAt' \in Nat /\ apiAt' <= now' /\ slowAt' \in Nat /\ slowAt' <= now'
    BY <1>1, <2>1, <2>4 DEF Typed
  <2>6. Circuits'
    BY <2>1, <2>4 DEF Circuits
  <2>7. Typed'
    BY <1>1, <2>1, <2>2, <2>3, <2>5 DEF Typed
  <2> QED
    BY <2>6, <2>7 DEF Base
<1>8. CASE Reconnect
  <2>1. IsRisk(risk') /\ SameCircuits(risk, risk')
    BY <1>1, <1>8, RestoreEffect DEF Reconnect, Typed
  <2>2. CircuitsKept(risk', apiAt, slowAt, now)
    BY <1>1, <2>1, SameKept DEF Circuits
  <2>3. seen' \in SeenType
    BY <1>1, <1>8 DEF Reconnect, Typed, SeenType
  <2>4. /\ UNCHANGED <<now, position, entering, apiAt, slowAt>>
        /\ realized' = 0
    BY <1>8 DEF Reconnect, circuitsAt
  <2>5. counted' = FALSE /\ halted' = FALSE
    BY <1>8 DEF Reconnect
  <2>6. /\ counted' \in BOOLEAN /\ halted' \in BOOLEAN
        /\ position' = 0 => realized' = 0 /\ ~counted'
    BY <2>4, <2>5
  <2>7. Typed'
    BY <1>1, <2>1, <2>3, <2>4, <2>6 DEF Typed
  <2>8. Circuits'
    BY <2>2, <2>4 DEF Circuits
  <2> QED
    BY <2>7, <2>8 DEF Base
<1>9. CASE Restart
  <2>1. IsRisk(risk') /\ LatencyCounts(risk') /\ seen' \in SeenType
    BY <1>1, <1>9, RestartEffect
  <2>2. /\ position' \in Nat /\ position' <= MaxInventory /\ entering' = 0
        /\ realized' = 0 /\ counted' = FALSE /\ halted' = FALSE /\ now' = now
        /\ apiAt' = 0 /\ slowAt' = 0 /\ now \in Nat
    BY <1>1, <1>9, RiskAssumption DEF Restart, Typed
  <2>3. position' + entering' <= MaxInventory
    BY <2>2, RiskAssumption
  <2>4. /\ counted' \in BOOLEAN /\ halted' \in BOOLEAN
        /\ position' = 0 => realized' = 0 /\ ~counted'
    BY <2>2
  <2>5. entering' \in Nat /\ realized' \in Int /\ apiAt' <= now' /\ slowAt' <= now'
    BY <2>2
  <2>6. Typed'
    BY <1>1, <2>1, <2>2, <2>3, <2>4, <2>5 DEF Typed
  <2>7. Circuits'
    BY <2>1, <2>2 DEF Circuits, CircuitsKept, Kept
  <2> QED
    BY <2>6, <2>7 DEF Base
<1>10. CASE Halt
  BY <1>1, <1>10 DEF Halt, circuitsAt, Base, Typed, Circuits
<1>11. CASE Tick
  <2>1. /\ now \in Nat /\ now + 1 \in 1 .. MaxTime /\ now' = now + 1 /\ now <= now + 1
        /\ apiAt <= now + 1 /\ slowAt <= now + 1
        /\ UNCHANGED <<risk, position, realized, counted, entering, halted, apiAt, slowAt, seen>>
    BY <1>1, <1>11, TradeAssumption DEF Tick, circuitsAt, Typed
  <2>2. Typed'
    BY <1>1, <2>1 DEF Typed
  <2>3. CircuitsTested(risk, risk, now + 1)
    BY DEF CircuitsTested
  <2>4. Circuits'
    BY <1>1, <2>1, <2>3, TestedKept DEF Circuits, Typed
  <2> QED
    BY <2>2, <2>4 DEF Base
<1>12. CASE UNCHANGED vars
  BY <1>1, <1>12 DEF vars, circuitsAt, Base, Typed, Circuits
<1> QED
  BY <1>2, <1>3, <1>4, <1>5, <1>6, <1>7, <1>8, <1>9, <1>10, <1>11, <1>12 DEF Next, Trade

LEMMA BaseHolds == Spec => []Base
BY BaseInit, BaseStep, PTL DEF Spec

\* For all limits: the types are right, a flat strategy carries nothing over, and
\* position and entry stay within the inventory limit.
THEOREM TypeCorrect == Spec => []TypeOK
<1>1. Base => TypeOK
  <2> SUFFICES ASSUME Base PROVE TypeOK
    OBVIOUS
  <2>1. \A k \in RequestKinds : risk.breaches[k] <= LatencyBreachLimit
    BY DEF Base, Circuits, CircuitsKept, LatencyCounts
  <2>2. PICK W : risk \in RiskWith(W)
    BY DEF Base, Typed, IsRisk
  <2>3. risk.streak \in Nat /\ risk.apiErrors \in Nat /\ risk.breaches \in [RequestKinds -> Nat]
    BY <2>2 DEF RiskWith
  <2> QED
    BY <2>1, <2>3, RiskAssumption DEF Base, Typed, TypeOK
<1> QED
  BY <1>1, BaseHolds, PTL

-------------------------------------------------------------------------------
(***************************************************************************)
(* Of the steps that book a result, the rest is a step of other actors:    *)
(* Quiet says what they leave alone.                                       *)
(***************************************************************************)

\* The numbers the next invariants compute with.
LEMMA Numbers ==
  ASSUME Base
  PROVE  /\ now \in Nat /\ now > 0 /\ Date(now) \in Nat /\ Date(now) <= Date(now + 1)
         /\ risk.streak \in Nat /\ risk.coolUntil \in Int
         /\ risk.date \in Int /\ risk.pnl \in Int
         /\ seen.adds \in Nat /\ seen.charges \in Nat /\ seen.total \in Int
         /\ seen.turnedAt \in Nat /\ seen.row \in Nat /\ seen.lostAt \in Nat
         /\ seen.date \in Int /\ seen.earned \in Int
         /\ position \in Nat /\ entering \in Nat
<1>1. now \in Nat /\ now > 0
  BY DEF Base, Typed
<1>2. Date(now) \in Nat
  BY <1>1, RiskAssumption DEF Date
<1>3. Date(now) <= Date(now + 1)
  BY <1>1, DateMonotone
<1>4. PICK W : risk \in RiskWith(W)
  BY DEF Base, Typed, IsRisk
<1>5. /\ risk.streak \in Nat /\ risk.coolUntil \in Int
      /\ risk.date \in Int /\ risk.pnl \in Int
  BY <1>4 DEF RiskWith
<1> QED
  BY <1>1, <1>2, <1>3, <1>5 DEF Base, Typed, SeenType

\* Nothing is booked and nothing is bought.
Quiet ==
  /\ risk'.streak = risk.streak /\ risk'.coolUntil = risk.coolUntil
  /\ risk'.date = risk.date /\ risk'.pnl = risk.pnl
  /\ UNCHANGED <<position, realized, counted, seen>>

\* Answers, halts, ends of entries and the clock are quiet.
LEMMA QuietSteps ==
  ASSUME Base, [Next]_vars
  PROVE  \/ \E base \in 1 .. MaxInventory + 1, softKill \in BOOLEAN :
                now < MaxTime /\ TryEnter(base, softKill, now + 1)
         \/ \E n \in 1 .. MaxInventory : EntryFill(n)
         \/ \E n \in 1 .. MaxInventory, g \in Gains : PartialExit(n, g) \/ FullExit(n, g)
         \/ Reconnect
         \/ Restart
         \/ /\ Quiet
            /\ now' = now \/ now' = now + 1
            /\ \/ entering' = entering
               \/ entering' = 0 /\ position' = position
<1>1. ASSUME NEW kind \in Kinds, NEW succeeded \in BOOLEAN, NEW failed \in BOOLEAN,
             NEW slow \in BOOLEAN, Answer(kind, succeeded, failed, slow)
      PROVE  Quiet /\ now' = now /\ entering' = entering
  <2>1. SameTally(risk, risk')
    BY <1>1, TradeAssumption, AnswerEffect
  <2> QED
    BY <1>1, <2>1 DEF Answer, Quiet, SameTally
<1>2. CASE EntryEnds
  BY <1>2 DEF EntryEnds, Quiet
<1>3. CASE Halt \/ Tick \/ UNCHANGED vars
  BY <1>3 DEF Halt, Tick, vars, Quiet
<1> QED
  BY <1>1, <1>2, <1>3 DEF Next, Trade

-------------------------------------------------------------------------------
(***************************************************************************)
(* A position is charged once, and once more for every scale-in: what an   *)
(* open position has been charged, but for its scale-ins, is the flag.     *)
(***************************************************************************)

Charged ==
  /\ seen.charges <= 1 + seen.adds
  /\ position > 0 => seen.charges <= seen.adds + (IF counted THEN 1 ELSE 0)

LEMMA ChargedStep == Base /\ Charged /\ [Next]_vars => Charged'
<1> SUFFICES ASSUME Base, Charged, [Next]_vars PROVE Charged'
  OBVIOUS
<1>1. seen.adds \in Nat /\ seen.charges \in Nat /\ position \in Nat /\ entering \in Nat
  BY Numbers
<1>2. ASSUME NEW base \in 1 .. MaxInventory + 1, NEW softKill \in BOOLEAN,
             TryEnter(base, softKill, now + 1)
      PROVE  Charged'
  <2>1. base \in Nat /\ now + 1 \in Nat
    BY Numbers, RiskAssumption
  <2>2. seen' = seen \/ seen' = [seen EXCEPT !.row = 0]
    BY <1>2, <2>1, TryEnterEffect
  <2>3. seen'.charges = seen.charges /\ seen'.adds = seen.adds
    BY <2>2 DEF Base, Typed, SeenType
  <2> QED
    BY <1>2, <2>3 DEF TryEnter, Charged
<1>3. ASSUME NEW n \in 1 .. MaxInventory, EntryFill(n) PROVE Charged'
  <2>1. n \in Nat
    BY RiskAssumption
  <2>2. /\ position = 0 => seen'.adds = 0 /\ seen'.charges = 0
        /\ position # 0 => seen'.adds = seen.adds + 1 /\ seen'.charges = seen.charges
    BY <1>3, <2>1, EntryFillEffect DEF Base
  <2>3. counted' = FALSE
    BY <1>3 DEF EntryFill
  <2> QED
    BY <1>1, <2>2, <2>3 DEF Charged
<1>4. ASSUME NEW n \in 1 .. MaxInventory, NEW g \in Gains, PartialExit(n, g)
      PROVE  Charged'
  <2> DEFINE x == NetPnl(g * n, n)
  <2>1. n \in Nat /\ g \in Int
    BY RiskAssumption, TradeAssumption
  <2>2. /\ seen'.adds = seen.adds
        /\ seen'.charges = seen.charges + (IF ~counted /\ x < 0 THEN 1 ELSE 0)
    BY <1>4, <2>1, PartialExitEffect DEF Base
  <2>3. position > 0
    BY <1>1, <1>4, <2>1 DEF PartialExit
  <2> HIDE DEF x
  <2>4. CASE x < 0 /\ ~counted
    <3>1. counted' = TRUE
      BY <1>4, <2>4 DEF PartialExit, x
    <3>2. seen'.charges = seen.charges + 1
      BY <2>2, <2>4
    <3>3. seen.charges <= seen.adds
      BY <1>1, <2>3, <2>4 DEF Charged
    <3> QED
      BY <1>1, <2>2, <3>1, <3>2, <3>3 DEF Charged
  <2>5. CASE counted
    <3>1. counted' = TRUE
      BY <1>4, <2>5 DEF PartialExit
    <3>2. seen'.charges = seen.charges /\ seen.charges <= seen.adds + 1
      BY <1>1, <2>2, <2>3, <2>5 DEF Charged
    <3> QED
      BY <1>1, <2>2, <3>1, <3>2 DEF Charged
  <2>6. CASE ~(x < 0) /\ ~counted
    <3>1. counted' = FALSE
      BY <1>4, <2>6 DEF PartialExit, x
    <3>2. seen'.charges = seen.charges
      BY <1>1, <2>2, <2>6
    <3>3. seen.charges <= seen.adds
      BY <1>1, <2>3, <2>6 DEF Charged
    <3> QED
      BY <1>1, <2>2, <3>1, <3>2, <3>3 DEF Charged
  <2> QED
    BY <2>4, <2>5, <2>6
<1>5. ASSUME NEW n \in 1 .. MaxInventory, NEW g \in Gains, FullExit(n, g)
      PROVE  Charged'
  <2> DEFINE won == realized + NetPnl(g * n, n) > 0
  <2>1. n \in Nat /\ g \in Int
    BY RiskAssumption, TradeAssumption
  <2>2. /\ seen'.adds = seen.adds
        /\ seen'.charges = seen.charges + (IF ~won /\ ~counted THEN 1 ELSE 0)
    BY <1>5, <2>1, FullExitEffect DEF Base
  <2>3. position' = 0 /\ position > 0
    BY <1>5 DEF FullExit
  <2> HIDE DEF won
  <2> QED
    BY <1>1, <2>2, <2>3 DEF Charged
<1>6. CASE Reconnect
  <2>1. seen'.charges = seen.charges /\ seen'.adds = seen.adds
    BY <1>6 DEF Reconnect, Base, Typed, SeenType
  <2> QED
    BY <1>6, <2>1 DEF Reconnect, Charged
<1>7. CASE Restart
  BY <1>7 DEF Restart, NothingSeen, Charged
<1>8. CASE Quiet
  BY <1>8 DEF Quiet, Charged
<1> QED
  BY <1>2, <1>3, <1>4, <1>5, <1>6, <1>7, <1>8, QuietSteps

\* For all gains and costs: a position is one loss at most, plus one for every scale-in.
THEOREM LossesCountedOnce == Spec => []LossCountedOnce
<1>1. Init => Charged
  BY DEF Init, NothingSeen, Charged
<1>2. Charged => LossCountedOnce
  BY DEF Charged, LossCountedOnce
<1> QED
  BY <1>1, <1>2, BaseHolds, ChargedStep, PTL DEF Spec

-------------------------------------------------------------------------------
(***************************************************************************)
(* The daily loss: on every day from now on, what the risk manager has     *)
(* booked for it is what this connection's exits have earned on it.        *)
(***************************************************************************)

DayBooks ==
  /\ risk.date <= Date(now) /\ seen.date <= Date(now)
  /\ PnlOn(risk, Date(now)) = IF seen.date = Date(now) THEN seen.earned ELSE 0

\* The books of the day now carry to the time t.
LEMMA BooksLater ==
  ASSUME Base, DayBooks, NEW t \in Nat, now <= t
  PROVE  /\ Date(t) \in Nat /\ risk.date <= Date(t) /\ seen.date <= Date(t)
         /\ PnlOn(risk, Date(t)) = IF seen.date = Date(t) THEN seen.earned ELSE 0
<1>1. Date(t) \in Nat
  BY RiskAssumption DEF Date
<1>2. Date(now) <= Date(t)
  BY Numbers, DateMonotone
<1> QED
  BY <1>1, <1>2, Numbers DEF DayBooks, PnlOn

LEMMA DayBooksStep == Base /\ DayBooks /\ [Next]_vars => DayBooks'
<1> SUFFICES ASSUME Base, DayBooks, [Next]_vars PROVE DayBooks'
  OBVIOUS
<1>1. Date(now) \in Nat /\ now \in Nat
  BY Numbers
<1>2. Date(now)' = Date(now')
  BY DEF Date
<1>3. ASSUME NEW base \in 1 .. MaxInventory + 1, NEW softKill \in BOOLEAN,
             TryEnter(base, softKill, now + 1)
      PROVE  DayBooks'
  <2>1. base \in Nat /\ now + 1 \in Nat /\ now' = now + 1
    <3>1. now' = now + 1
      BY <1>3 DEF TryEnter
    <3> QED
      BY <1>1, <3>1, RiskAssumption
  <2>2. /\ SameBooks(risk, risk', now + 1)
        /\ seen' = seen \/ seen' = [seen EXCEPT !.row = 0]
    BY <1>3, <2>1, TryEnterEffect
  <2>3. seen'.date = seen.date /\ seen'.earned = seen.earned
    BY <2>2 DEF Base, Typed, SeenType
  <2>4. /\ Date(now + 1) \in Nat /\ risk.date <= Date(now + 1) /\ seen.date <= Date(now + 1)
        /\ PnlOn(risk, Date(now + 1)) = IF seen.date = Date(now + 1) THEN seen.earned ELSE 0
    BY <1>1, <2>1, BooksLater
  <2> QED
    BY <1>2, <2>1, <2>2, <2>3, <2>4 DEF SameBooks, DayBooks, PnlOn
<1>4. ASSUME NEW n \in 1 .. MaxInventory, EntryFill(n) PROVE DayBooks'
  <2>1. n \in Nat
    BY RiskAssumption
  <2>2. seen'.date = seen.date /\ seen'.earned = seen.earned
    BY <1>4, <2>1, EntryFillEffect DEF Base
  <2>3. risk' = risk /\ now' = now
    BY <1>4 DEF EntryFill
  <2> QED
    BY <1>2, <2>2, <2>3 DEF DayBooks
<1>5. ASSUME NEW n \in 1 .. MaxInventory, NEW g \in Gains,
             PartialExit(n, g) \/ FullExit(n, g)
      PROVE  DayBooks'
  <2> DEFINE x == NetPnl(g * n, n)
  <2>1. n \in Nat /\ g \in Int
    BY RiskAssumption, TradeAssumption
  <2>2. /\ x \in Int
        /\ risk'.date = Date(now) /\ risk'.pnl = PnlOn(risk, Date(now)) + x
        /\ seen'.date = Date(now)
        /\ seen'.earned = (IF seen.date = Date(now) THEN seen.earned ELSE 0) + x
    BY <1>5, <2>1, PartialExitEffect, FullExitEffect DEF Base
  <2>3. now' = now
    BY <1>5 DEF PartialExit, FullExit
  <2> HIDE DEF x
  <2> QED
    BY <1>1, <1>2, <2>2, <2>3 DEF DayBooks, PnlOn
<1>6. CASE Reconnect
  <2>1. risk'.date = Date(now) /\ risk'.pnl = 0 /\ now' = now
    BY <1>1, <1>6, RestoreEffect DEF Reconnect, Base, Typed
  <2>2. seen'.date = seen.date /\ seen'.earned = 0
    BY <1>6 DEF Reconnect, Base, Typed, SeenType
  <2> QED
    BY <1>1, <1>2, <2>1, <2>2 DEF DayBooks, PnlOn
<1>7. CASE Restart
  <2>1. risk'.date = Date(now) /\ risk'.pnl = 0 /\ seen' = NothingSeen /\ now' = now
    BY <1>7, RestartEffect DEF Base, Restart
  <2> QED
    BY <1>1, <1>2, <2>1 DEF DayBooks, PnlOn, NothingSeen
<1>8. CASE Quiet /\ (now' = now \/ now' = now + 1)
  <2>1. /\ Date(now') \in Nat /\ risk.date <= Date(now') /\ seen.date <= Date(now')
        /\ PnlOn(risk, Date(now')) = IF seen.date = Date(now') THEN seen.earned ELSE 0
    BY <1>1, <1>8, BooksLater
  <2> QED
    BY <1>2, <1>8, <2>1 DEF Quiet, DayBooks, PnlOn
<1> QED
  BY <1>3, <1>4, <1>5, <1>6, <1>7, <1>8, QuietSteps

\* Only a board on which the strategy is flat enters.
LEMMA OnlyTryEnter ==
  ASSUME Base, [Next]_vars, entering = 0, entering' > 0
  PROVE  \E base \in 1 .. MaxInventory + 1, softKill \in BOOLEAN :
           TryEnter(base, softKill, now + 1)
<1>1. ASSUME NEW n \in 1 .. MaxInventory, EntryFill(n) PROVE FALSE
  BY <1>1, RiskAssumption DEF EntryFill
<1>2. ASSUME NEW n \in 1 .. MaxInventory, NEW g \in Gains,
             PartialExit(n, g) \/ FullExit(n, g)
      PROVE  FALSE
  BY <1>2 DEF PartialExit, FullExit
<1>3. ~Reconnect /\ ~Restart
  BY DEF Reconnect, Restart
<1> QED
  BY <1>1, <1>2, <1>3, QuietSteps

\* For all limits, delays and answers: no entry comes before its time while a circuit
\* has opened, a cleanup that was broken off and the reconnect after it included.
THEOREM CircuitsRespected == Spec => CircuitsHoldEntries
<1>1. Base /\ [Next]_vars =>
        [ entering = 0 /\ entering' > 0 =>
            /\ slowAt > 0 => now' >= slowAt + ApiCooling
            /\ apiAt > 0 => now' >= apiAt + ApiCooling ]_vars
  <2> SUFFICES ASSUME Base, [Next]_vars, entering = 0, entering' > 0
               PROVE  /\ slowAt > 0 => now' >= slowAt + ApiCooling
                      /\ apiAt > 0 => now' >= apiAt + ApiCooling
    OBVIOUS
  <2>1. PICK base \in 1 .. MaxInventory + 1, softKill \in BOOLEAN :
          TryEnter(base, softKill, now + 1)
    BY OnlyTryEnter
  <2>2. base \in Nat /\ now \in Nat /\ now + 1 \in Nat /\ now' = now + 1
    <3>1. now' = now + 1
      BY <2>1 DEF TryEnter
    <3> QED
      BY <3>1, Numbers, RiskAssumption
  <2>3. ~ApiCircuitOpen(risk, now + 1) /\ ~LatencyCircuitOpen(risk, now + 1)
    BY <2>1, <2>2, TryEnterEffect
  <2>4. /\ risk.apiUntil \in Nat /\ risk.latencyUntil \in Nat /\ ApiCooling \in Nat
        /\ apiAt \in Nat /\ slowAt \in Nat
    BY RiskAssumption DEF Base, Typed, IsRisk, RiskWith
  <2>5. /\ Kept(risk.apiUntil, apiAt, now) /\ Kept(risk.latencyUntil, slowAt, now)
        /\ apiAt > 0 => ApiErrorLimit > 0
        /\ slowAt > 0 => LatencyBreachLimit > 0
    BY DEF Base, Circuits, CircuitsKept
  <2>6. slowAt > 0 => now + 1 >= slowAt + ApiCooling
    BY <2>2, <2>3, <2>4, <2>5 DEF Kept, LatencyCircuitOpen
  <2>7. apiAt > 0 => now + 1 >= apiAt + ApiCooling
    BY <2>2, <2>3, <2>4, <2>5 DEF Kept, ApiCircuitOpen
  <2> QED
    BY <2>2, <2>6, <2>7
<1> QED
  BY <1>1, BaseHolds, PTL DEF Spec, CircuitsHoldEntries

\* For all limits and gains: no entry follows once the day has lost its limit.
THEOREM DayLossStopsEntries == Spec => DailyLossStops
<1>1. Init => DayBooks
  <2> SUFFICES ASSUME Init PROVE DayBooks
    OBVIOUS
  <2>1. Date(now) \in Nat
    BY BaseInit, Numbers
  <2> QED
    BY <2>1 DEF Init, NothingSeen, NewRisk, DayBooks, PnlOn
<1>2. Base /\ DayBooks /\ [Next]_vars =>
        [ entering = 0 /\ entering' > 0 /\ DailyLossLimit > 0 /\ seen.date = Date(now') =>
            seen.earned > -DailyLossLimit ]_vars
  <2> SUFFICES ASSUME Base, DayBooks, [Next]_vars, entering = 0, entering' > 0,
                      DailyLossLimit > 0, seen.date = Date(now')
               PROVE  seen.earned > -DailyLossLimit
    OBVIOUS
  <2>1. PICK base \in 1 .. MaxInventory + 1, softKill \in BOOLEAN :
          TryEnter(base, softKill, now + 1)
    BY OnlyTryEnter
  <2>2. base \in Nat /\ now \in Nat /\ now + 1 \in Nat /\ now' = now + 1
    <3>1. now' = now + 1
      BY <2>1 DEF TryEnter
    <3> QED
      BY <3>1, Numbers, RiskAssumption
  <2>3. PnlOn(risk, Date(now + 1)) > -DailyLossLimit
    BY <2>1, <2>2, TryEnterEffect
  <2> QED
    BY <2>2, <2>3, BooksLater
<1> QED
  BY <1>1, <1>2, BaseHolds, DayBooksStep, PTL DEF Spec, DailyLossStops

-------------------------------------------------------------------------------
(***************************************************************************)
(* The rest after losses.  The streak keeps up with the row of losing      *)
(* positions until a rest is over, and no streak of LossLimit ends before  *)
(* Cooling has passed since the last of them began to lose.                *)
(***************************************************************************)

Rested ==
  /\ seen.lostAt <= now /\ seen.turnedAt <= now
  /\ risk.streak >= LossLimit => risk.coolUntil >= seen.lostAt + Cooling
  /\ position > 0 \/ entering > 0 => risk.streak >= seen.row
  /\ position = 0 /\ entering = 0 =>
       risk.streak >= seen.row \/ now >= seen.lostAt + Cooling
  /\ position > 0 => realized = seen.total
  /\ position > 0 /\ counted =>
       /\ risk.streak >= seen.row + 1 /\ seen.turnedAt > 0
       /\ risk.streak >= LossLimit => risk.coolUntil >= seen.turnedAt + Cooling

LEMMA RestedStep ==
  ASSUME LossLimit > 0, Base, Rested, [Next]_vars
  PROVE  Rested'
<1>1. /\ now \in Nat /\ now > 0 /\ risk.streak \in Nat /\ risk.coolUntil \in Int
      /\ seen.total \in Int /\ seen.turnedAt \in Nat /\ seen.row \in Nat
      /\ seen.lostAt \in Nat /\ position \in Nat /\ entering \in Nat
  BY Numbers
<1>2. LossLimit \in Nat /\ Cooling \in Nat
  BY RiskAssumption
<1>3. ASSUME NEW base \in 1 .. MaxInventory + 1, NEW softKill \in BOOLEAN,
             TryEnter(base, softKill, now + 1)
      PROVE  Rested'
  <2>1. base \in Nat /\ now + 1 \in Nat
    BY <1>1, RiskAssumption
  <2>2. /\ now' = now + 1 /\ position = 0 /\ position' = 0 /\ entering = 0
    BY <1>3 DEF TryEnter
  <2>3. /\ risk'.coolUntil = risk.coolUntil
        /\ \/ risk'.streak = risk.streak
           \/ /\ risk'.streak = 0
              /\ LossLimit > 0 /\ risk.streak >= LossLimit /\ now + 1 >= risk.coolUntil
        /\ entering' \in 0 .. MaxInventory
        /\ entering' > 0 =>
             seen' = IF now + 1 >= seen.lostAt + Cooling THEN [seen EXCEPT !.row = 0] ELSE seen
        /\ \/ seen' = seen
           \/ seen' = [seen EXCEPT !.row = 0] /\ now + 1 >= seen.lostAt + Cooling
    BY <1>3, <2>1, TryEnterEffect
  <2>4. /\ seen'.lostAt = seen.lostAt /\ seen'.turnedAt = seen.turnedAt
        /\ \/ seen'.row = seen.row
           \/ seen'.row = 0 /\ now + 1 >= seen.lostAt + Cooling
        /\ entering' > 0 /\ now + 1 >= seen.lostAt + Cooling => seen'.row = 0
    BY <2>3 DEF Base, Typed, SeenType
  <2>5. entering' \in Nat
    BY <2>3, RiskAssumption
  <2> QED
    BY <1>1, <1>2, <2>2, <2>3, <2>4, <2>5 DEF Rested
<1>4. ASSUME NEW n \in 1 .. MaxInventory, EntryFill(n) PROVE Rested'
  <2>1. n \in Nat \ {0}
    BY RiskAssumption
  <2>2. /\ seen'.row = seen.row /\ seen'.lostAt = seen.lostAt
        /\ position = 0 => seen'.total = 0 /\ seen'.turnedAt = 0
        /\ position # 0 => seen'.total = seen.total /\ seen'.turnedAt = seen.turnedAt
    BY <1>4, <2>1, EntryFillEffect DEF Base
  <2>3. /\ risk' = risk /\ now' = now /\ position' = position + n /\ entering >= n
        /\ realized' = IF position = 0 THEN 0 ELSE realized
    BY <1>4 DEF EntryFill
  <2>4. counted' = FALSE
    BY <1>4 DEF EntryFill
  <2> QED
    BY <1>1, <1>2, <2>1, <2>2, <2>3, <2>4 DEF Rested
<1>5. ASSUME NEW n \in 1 .. MaxInventory, NEW g \in Gains, PartialExit(n, g)
      PROVE  Rested'
  <2> DEFINE x == NetPnl(g * n, n)
  <2>1. n \in Nat \ {0} /\ g \in Int
    BY RiskAssumption, TradeAssumption
  <2>2. /\ x \in Int
        /\ risk'.streak = IF ~counted /\ x < 0 THEN risk.streak + 1 ELSE risk.streak
        /\ risk'.coolUntil = IF ~counted /\ x < 0 /\ LossLimit > 0 /\ risk'.streak >= LossLimit
                             THEN now + Cooling ELSE risk.coolUntil
        /\ seen'.total = seen.total + x
        /\ seen'.turnedAt = IF seen.turnedAt = 0 /\ x < 0 THEN now ELSE seen.turnedAt
        /\ seen'.row = seen.row /\ seen'.lostAt = seen.lostAt
    BY <1>5, <2>1, PartialExitEffect DEF Base
  <2>3. /\ now' = now /\ position > 0 /\ position' > 0 /\ entering' = entering
        /\ realized' = realized + x
    BY <1>1, <1>5, <2>1 DEF PartialExit
  <2>4. counted' = (counted \/ x < 0)
    BY <1>5 DEF PartialExit
  <2> HIDE DEF x
  <2>5. CASE x < 0 /\ ~counted
    BY <1>1, <1>2, <2>2, <2>3, <2>4, <2>5 DEF Rested
  <2>6. CASE counted
    BY <1>1, <1>2, <2>2, <2>3, <2>4, <2>6 DEF Rested
  <2>7. CASE ~(x < 0) /\ ~counted
    BY <1>1, <1>2, <2>2, <2>3, <2>4, <2>7 DEF Rested
  <2> QED
    BY <2>5, <2>6, <2>7
<1>6. ASSUME NEW n \in 1 .. MaxInventory, NEW g \in Gains, FullExit(n, g)
      PROVE  Rested'
  <2> DEFINE x == NetPnl(g * n, n)
             won == realized + x > 0
  <2>1. n \in Nat \ {0} /\ g \in Int
    BY RiskAssumption, TradeAssumption
  <2>2. now' = now /\ position > 0 /\ position' = 0 /\ entering' = entering
    BY <1>1, <1>6 DEF FullExit
  <2>3. realized = seen.total
    BY <2>2 DEF Rested
  <2>4. /\ x \in Int
        /\ risk'.streak = IF won THEN 0
                          ELSE IF ~won /\ ~counted THEN risk.streak + 1 ELSE risk.streak
        /\ risk'.coolUntil = IF ~won /\ ~counted /\ LossLimit > 0 /\ risk'.streak >= LossLimit
                             THEN now + Cooling ELSE risk.coolUntil
        /\ seen'.row = IF ~won THEN seen.row + 1 ELSE 0
        /\ seen'.lostAt = IF won THEN seen.lostAt
                          ELSE IF seen.turnedAt > 0 THEN seen.turnedAt ELSE now
    BY <1>6, <2>1, <2>3, FullExitEffect DEF Base
  <2>5. seen'.turnedAt <= now
    BY <1>1, <1>6, <2>1, BookedEffect DEF Base, FullExit, Rested, SeenType
  <2> HIDE DEF x, won
  <2>6. CASE won
    BY <1>1, <1>2, <2>2, <2>4, <2>5, <2>6 DEF Rested
  <2>7. CASE ~won /\ ~counted
    BY <1>1, <1>2, <2>2, <2>4, <2>5, <2>7 DEF Rested
  <2>8. CASE ~won /\ counted
    BY <1>1, <1>2, <2>2, <2>4, <2>5, <2>8 DEF Rested
  <2> QED
    BY <2>6, <2>7, <2>8
<1>7. CASE Reconnect
  <2>1. risk'.streak = risk.streak /\ risk'.coolUntil = risk.coolUntil
    BY <1>1, <1>7, RestoreEffect DEF Reconnect, Base, Typed
  <2>2. /\ seen'.row = seen.row /\ seen'.lostAt = seen.lostAt /\ seen'.turnedAt = seen.turnedAt
    BY <1>7 DEF Reconnect, Base, Typed, SeenType
  <2> QED
    BY <1>7, <2>1, <2>2 DEF Reconnect, Rested
<1>8. CASE Restart
  <2>1. /\ risk'.streak = 0 /\ seen' = NothingSeen /\ now' = now /\ realized' = 0
        /\ entering' = 0
    BY <1>8, RestartEffect DEF Base, Restart
  <2>2. counted' = FALSE
    BY <1>8 DEF Restart
  <2> QED
    BY <1>1, <1>2, <2>1, <2>2 DEF Rested, NothingSeen
<1>9. CASE /\ Quiet
           /\ now' = now \/ now' = now + 1
           /\ \/ entering' = entering
              \/ entering' = 0 /\ position' = position
  BY <1>1, <1>2, <1>9 DEF Quiet, Rested
<1> QED
  BY <1>3, <1>4, <1>5, <1>6, <1>7, <1>8, <1>9, QuietSteps

\* For all limits and gains: LossLimit losing positions in a row are not followed by an
\* entry before the strategy has rested.
THEOREM LossesAreFollowedByARest == Spec => CoolingAfterLosses
<1> DEFINE RestedIf == LossLimit > 0 => Rested
<1>1. Init => RestedIf
  BY RiskAssumption DEF Init, NothingSeen, NewRisk, Rested
<1>2. Base /\ RestedIf /\ [Next]_vars => RestedIf'
  BY RestedStep
<1>3. Base /\ RestedIf /\ [Next]_vars =>
        [ entering = 0 /\ entering' > 0 /\ LossLimit > 0 /\ seen.row >= LossLimit =>
            now' >= seen.lostAt + Cooling ]_vars
  <2> SUFFICES ASSUME Base, Rested, [Next]_vars, entering = 0, entering' > 0,
                      LossLimit > 0, seen.row >= LossLimit
               PROVE  now' >= seen.lostAt + Cooling
    OBVIOUS
  <2>1. PICK base \in 1 .. MaxInventory + 1, softKill \in BOOLEAN :
          TryEnter(base, softKill, now + 1)
    BY OnlyTryEnter
  <2>2. /\ base \in Nat /\ now \in Nat /\ now + 1 \in Nat /\ now' = now + 1
        /\ position = 0
    <3>1. now' = now + 1 /\ position = 0
      BY <2>1 DEF TryEnter
    <3> QED
      BY <3>1, Numbers, RiskAssumption
  <2>3. risk.streak >= LossLimit => now + 1 >= risk.coolUntil
    BY <2>1, <2>2, TryEnterEffect
  <2>4. /\ risk.streak \in Nat /\ risk.coolUntil \in Int /\ seen.row \in Nat
        /\ seen.lostAt \in Nat /\ LossLimit \in Nat /\ Cooling \in Nat
    BY Numbers, RiskAssumption
  <2> QED
    BY <2>2, <2>3, <2>4 DEF Rested
<1> HIDE DEF RestedIf
<1> QED
  BY <1>1, <1>2, <1>3, BaseHolds, PTL DEF Spec, CoolingAfterLosses

=============================================================================
