------------------------------ MODULE RestClient ------------------------------
(***************************************************************************)
(* KabuRestClient (client.py): one call of send_entry_order or             *)
(* send_exit_order after the other, with the requests it sends, the lots   *)
(* it names and what it tries again.  The broker refuses with a code, or   *)
(* accepts, or is not heard of; the broker's positions may have changed    *)
(* whenever they are read.  Rate limits and latencies are left out.        *)
(***************************************************************************)
EXTENDS Integers, Sequences, FiniteSets, Functions

CONSTANTS
  Calls,   \* calls made: [exit, margin, exchange, qty, long]
  LotBooks \* answers to a query of positions: sequences of
           \* [exchange, long, closable], exchange 0 where it is not told

ASSUME CallsAssumption == \A c \in Calls : c.qty \in Nat \ {0}

ASSUME LotBooksAssumption ==
  LotBooks \subseteq Seq([exchange : Nat, long : BOOLEAN, closable : Int])

Sor == 9

TsePlus == 27

TseFamily == {1, Sor, TsePlus}

TseRetryCodes == {"100368", "100378"}

Codes == TseRetryCodes \cup {"8", "other"}

GetAttempts == 3

VARIABLES
  pc,        \* "idle", "read" positions, "post" an order
  call,      \* the call being made
  attempt,   \* attempts of the query of positions so far
  reread,    \* the call has met code 8
  order,     \* body of the next sendorder: exchange and lots named
  sent,      \* history: bodies of the sendorders of this call
  accepted,  \* history: how many of them the broker accepted
  outcome    \* how the last call ended: "ok", "refused" with a code, "lost"

vars == <<pc, call, attempt, reread, order, sent, accepted, outcome>>

NoOrder == [exchange |-> 0, book |-> <<>>, closes |-> <<>>]

Smaller(a, b) == IF a < b THEN a ELSE b

Route(c) == IF c.margin /\ c.exchange \in TseFamily THEN Sor ELSE c.exchange

Init ==
  /\ pc = "idle"
  /\ call \in Calls
  /\ attempt = 0
  /\ reread = FALSE
  /\ order = NoOrder
  /\ sent = <<>>
  /\ accepted = 0
  /\ outcome = "none"

-------------------------------------------------------------------------------
(***************************************************************************)
(* _build_close_positions.                                                 *)
(***************************************************************************)

\* Places in the book of the lots on the call's side that can be closed.
SameSide(book, c) == {i \in DOMAIN book : book[i].long = c.long /\ book[i].closable > 0}

Exchanges(book, places) == {book[i].exchange : i \in places} \ {0}

\* The first attempt of a plain route is strict; later ones take the one exchange
\* that has lots; the SOR route mixes.
Usable(book, c, strict) == {i \in SameSide(book, c) : strict => book[i].exchange = Route(c)}

Ambiguous(book, c, strict) ==
  /\ ~strict /\ Route(c) # Sor
  /\ Cardinality(Exchanges(book, SameSide(book, c))) > 1

Closable(book, places) == SumFunctionOnSet([i \in places |-> book[i].closable], places)

Before(places, i) == {j \in places : j < i}

\* Mutant: every lot may be closed for the whole quantity.
TakenWhole(book, places, qty, i) == Smaller(book[i].closable, qty)

\* What is closed of the lot at i: the lots before it come first.
Taken(book, places, qty, i) ==
  Smaller(book[i].closable, qty - Closable(book, Before(places, i)))

\* The lots named, and the quantity to close of each.
ClosePositions(book, places, qty) ==
  [i \in {j \in places : Closable(book, Before(places, j)) < qty} |->
     Taken(book, places, qty, i)]

-------------------------------------------------------------------------------
(***************************************************************************)
(* The calls.                                                              *)
(***************************************************************************)

Start(c) ==
  /\ pc = "idle"
  /\ call' = c
  /\ attempt' = 0
  /\ reread' = FALSE
  /\ sent' = <<>>
  /\ accepted' = 0
  /\ outcome' = "none"
  /\ IF c.exit /\ c.margin
     THEN pc' = "read" /\ order' = NoOrder
     ELSE pc' = "post" /\ order' = [NoOrder EXCEPT !.exchange = Route(c)]

End(how) ==
  /\ pc' = "idle"
  /\ outcome' = how

\* After code 8 a plain route goes where all of its lots are.
CloseExchange(book, places) ==
  IF reread /\ Route(call) # Sor /\ Cardinality(Exchanges(book, places)) = 1
  THEN CHOOSE x \in Exchanges(book, places) : TRUE
  ELSE Route(call)

ReadPositions(book) ==
  LET strict == Route(call) # Sor /\ ~reread
      places == Usable(book, call, strict)
      closes == ClosePositions(book, places, call.qty)
  IN  /\ pc = "read"
      /\ attempt' = 0
      /\ IF Ambiguous(book, call, strict) \/ Closable(book, places) < call.qty
         THEN End("lost") /\ UNCHANGED order
         ELSE /\ pc' = "post"
              /\ order' = [exchange |-> CloseExchange(book, DOMAIN closes),
                           book |-> book, closes |-> closes]
              /\ UNCHANGED outcome
      /\ UNCHANGED <<call, reread, sent, accepted>>

\* A query is tried three times.
ReadFails ==
  /\ pc = "read"
  /\ IF attempt + 1 < GetAttempts
     THEN attempt' = attempt + 1 /\ UNCHANGED <<pc, outcome>>
     ELSE End("lost") /\ UNCHANGED attempt
  /\ UNCHANGED <<call, reread, order, sent, accepted>>

Post(n) ==
  /\ pc = "post"
  /\ sent' = Append(sent, order)
  /\ accepted' = accepted + n

PostAccepted ==
  /\ Post(1)
  /\ End("ok")
  /\ UNCHANGED <<call, attempt, reread, order>>

\* Mutant: any failure on the old exchange tries the new one.
MovesAlways(code) == order.exchange = 1

MovesToTsePlus(code) == order.exchange = 1 /\ code \in TseRetryCodes

ReadsAgain(code) == call.exit /\ call.margin /\ code = "8" /\ ~reread

\* What a sendorder that failed is followed by; a request without an answer has no
\* code.
AfterFailure(code) ==
  IF MovesToTsePlus(code)
  THEN /\ order' = [order EXCEPT !.exchange = TsePlus]
       /\ UNCHANGED <<pc, reread, outcome>>
  ELSE IF ReadsAgain(code)
  THEN /\ pc' = "read"
       /\ reread' = TRUE
       /\ order' = NoOrder
       /\ UNCHANGED outcome
  ELSE /\ End(IF code = "none" THEN "lost" ELSE "refused")
       /\ UNCHANGED <<reread, order>>

\* The broker refuses an order it names a code for.
PostRefused(code) ==
  /\ Post(0)
  /\ AfterFailure(code)
  /\ UNCHANGED <<call, attempt>>

\* No answer comes: the order may have been accepted.
PostLost(n) ==
  /\ Post(n)
  /\ AfterFailure("none")
  /\ UNCHANGED <<call, attempt>>

Next ==
  \/ \E c \in Calls : Start(c)
  \/ \E book \in LotBooks : ReadPositions(book)
  \/ ReadFails
  \/ PostAccepted
  \/ \E code \in Codes : PostRefused(code)
  \/ \E n \in 0 .. 1 : PostLost(n)

Spec == Init /\ [][Next]_vars

-------------------------------------------------------------------------------
(***************************************************************************)
(* Properties.                                                             *)
(***************************************************************************)

\* However a call tries again, the broker accepts one order for it at most, accepts it
\* when the call succeeds and none when the call reports a refusal: only answers with a
\* code are followed by another sendorder (_sendorder_with_exchange_retry,
\* send_exit_order, _request_json).
SendsOnce ==
  /\ accepted <= 1
  /\ outcome = "ok" => accepted = 1
  /\ outcome = "refused" => accepted = 0

\* The order closes the call's quantity exactly, with lots of its side.
Closes(o, c) ==
  /\ SumFunction(o.closes) = c.qty
  /\ \A i \in DOMAIN o.closes :
       /\ o.book[i].long = c.long
       /\ o.closes[i] \in 1 .. o.book[i].closable
       /\ \/ o.book[i].exchange \in {0, o.exchange}
          \/ o.exchange = Sor
          \/ o.exchange = TsePlus /\ o.book[i].exchange = 1

\* Every exit sent for a margin position closes its quantity exactly, with lots of its
\* side and no more of each than was closable; away from the SOR route all of the lots
\* whose exchange is told are where the order goes, or in Tokyo when it has been
\* moved to TSE+ (_build_close_positions, send_exit_order).
ClosesExactly ==
  call.exit /\ call.margin => \A k \in DOMAIN sent : Closes(sent[k], call)

=============================================================================
