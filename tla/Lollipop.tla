------------------------------- MODULE Lollipop -------------------------------
(***************************************************************************)
(* LollipopTPManager (lollipop.py): the workflow that owes an open         *)
(* position an exit order.  Time is abstract: whoever ticks decides        *)
(* whether the delay before the take-profit has passed and whether the     *)
(* hold time or the stop loss is exceeded.  Quantities are in lots.        *)
(***************************************************************************)
EXTENDS Integers

CONSTANT MaxRetries   \* max_retries: take-profit orders before the taker escape

ASSUME RetriesAssumption == MaxRetries \in Nat

Phases == {"IDLE", "SCHEDULED", "ACTIVE", "TIMEOUT"}

Workflow ==
  [phase : Phases, retry : 0 .. MaxRetries, forced : BOOLEAN]

\* The state of a new LollipopState().
Idle == [phase |-> "IDLE", retry |-> 0, forced |-> FALSE]

OnEntryFill(w) == [phase |-> "SCHEDULED", retry |-> 0, forced |-> FALSE]

\* Mutant: every fill starts the workflow again.
RestartOnScaleIn(w) == OnEntryFill(w)

\* Only the take-profit price moves, unless no workflow runs.
OnScaleInFill(w) == IF w.phase = "IDLE" THEN OnEntryFill(w) ELSE w

OnExitFill(w) == Idle

Reschedule(w) ==
  IF w.phase = "ACTIVE" THEN [w EXCEPT !.phase = "SCHEDULED"] ELSE w

ResetForceExit(w) ==
  IF w.phase = "TIMEOUT" THEN [w EXCEPT !.forced = FALSE] ELSE w

ForceExitNextTick(w) ==
  IF w.phase # "IDLE" THEN [w EXCEPT !.phase = "TIMEOUT"] ELSE w

-------------------------------------------------------------------------------
(***************************************************************************)
(* A tick returns the next workflow and the order to send: "none", "tp" or *)
(* "force".                                                                *)
(***************************************************************************)

Action(w, a) == [workflow |-> w, action |-> a]

HandleTimeout(w, position) ==
  IF position <= 0 THEN Action(Idle, "none")
  ELSE IF w.forced THEN Action(w, "none")
  ELSE Action([w EXCEPT !.forced = TRUE], "force")

\* Mutant: one take-profit too many.
HandleScheduledLate(w, position, due) ==
  IF ~due \/ position <= 0 THEN Action(w, "none")
  ELSE IF w.retry > MaxRetries
       THEN HandleTimeout([w EXCEPT !.phase = "TIMEOUT"], position)
  ELSE Action([w EXCEPT !.phase = "ACTIVE", !.retry = @ + 1], "tp")

HandleScheduled(w, position, due) ==
  IF ~due THEN Action(w, "none")
  ELSE IF w.retry >= MaxRetries
       THEN HandleTimeout([w EXCEPT !.phase = "TIMEOUT"], position)
  ELSE IF position <= 0 THEN Action(w, "none")
  ELSE Action([w EXCEPT !.phase = "ACTIVE", !.retry = @ + 1], "tp")

\* `due': submit_after_ns has passed; `expired': the stop loss (only with a
\* position) or the hold time is exceeded.
Tick(w, position, due, expired) ==
  CASE w.phase = "IDLE"      -> Action(w, "none")
    [] w.phase = "SCHEDULED" -> HandleScheduled(w, position, due)
    [] w.phase = "ACTIVE"    -> IF expired
                                THEN HandleTimeout([w EXCEPT !.phase = "TIMEOUT"], position)
                                ELSE Action(w, "none")
    [] w.phase = "TIMEOUT"   -> HandleTimeout(w, position)

=============================================================================
