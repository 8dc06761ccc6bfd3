------------------------------ MODULE MCTradeRisk ------------------------------
(***************************************************************************)
(* TradeRisk with a view for TLC: states that differ only in what no later *)
(* step or property reads again count as one.                              *)
(***************************************************************************)
EXTENDS TradeRisk

\* A time from which `pause' has passed delays nothing any more.
Pending(at, pause) == IF at > 0 /\ now < at + pause THEN at ELSE 0

\* The soft kill file is read again before every entry, the cooling is set again when
\* the streak reaches its limit, the first fill of a position resets its history, and
\* the first result of a day the day's.
View ==
  <<now, position, realized, counted, entering, halted,
    Pending(apiAt, ApiCooling), Pending(slowAt, ApiCooling),
    [risk EXCEPT !.softKill = FALSE,
                 !.coolUntil = IF risk.streak >= LossLimit THEN @ ELSE 0],
    seen.row, IF seen.row = 0 THEN 0 ELSE Pending(seen.lostAt, Cooling),
    IF seen.date = Date(now) THEN <<seen.earned>> ELSE <<>>,
    IF position = 0 THEN <<LossCountedOnce>>
    ELSE <<seen.adds, seen.charges, seen.total, seen.turnedAt>> >>

=============================================================================
