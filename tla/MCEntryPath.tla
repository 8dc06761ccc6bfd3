----------------------------- MODULE MCEntryPath -----------------------------
(***************************************************************************)
(* Six boards: calm with a bullish and with a bearish book, a breakout in  *)
(* a volatile market, one after a jump with a wide spread, one without a   *)
(* signal and too dear, and a special quote.                               *)
(***************************************************************************)
EXTENDS EntryPath

Calm ==
  [bid |-> 10, ask |-> 12, alpha |-> 2, volatile |-> FALSE, thin |-> FALSE,
   against |-> {}, valid |-> TRUE, special |-> FALSE, aged |-> FALSE, burst |-> FALSE,
   expired |-> FALSE, closed |-> FALSE, trigger |-> "", quality |-> 5, affordable |-> 3,
   long |-> {"book", "tape", "momentum", "light"}, short |-> {}]

Bearish ==
  [Calm EXCEPT !.alpha = -2, !.long = {"light"}, !.short = {"book", "tape", "momentum"},
               !.against = {1}]

Breakout ==
  [Calm EXCEPT !.alpha = 3, !.trigger = "depth_breakout", !.quality = 9,
               !.long = Features, !.volatile = TRUE]

Jumped ==
  [Calm EXCEPT !.bid = 15, !.ask = 20, !.alpha = 3]

Quiet ==
  [Calm EXCEPT !.alpha = 0, !.long = {"light"}, !.affordable = 0]

Special == [Calm EXCEPT !.special = TRUE]

MCBoards == {Calm, Bearish, Breakout, Jumped, Quiet, Special}

MCDelays == {1, 3}

=============================================================================
