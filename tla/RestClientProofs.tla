--------------------------- MODULE RestClientProofs ---------------------------
(***************************************************************************)
(* That the REST client sends an order once and closes what it was asked   *)
(* to, for every set of calls and every answer to a query of positions.    *)
(***************************************************************************)
EXTENDS RestClient, SumTheorems, TLAPS

\* A call that is still being made has had no order accepted: only a code, and code 8
\* or a code of Tokyo at that, is followed by another request.
Open ==
  /\ pc \in {"idle", "read", "post"}
  /\ accepted \in 0 .. 1
  /\ pc # "idle" => accepted = 0 /\ outcome = "none"
  /\ outcome = "ok" => accepted = 1
  /\ outcome = "refused" => accepted = 0

\* "none" is not a code the broker answers with.
LEMMA NoCode == "none" \notin Codes /\ ~MovesToTsePlus("none") /\ ~ReadsAgain("none")
BY DEF Codes, TseRetryCodes, MovesToTsePlus, ReadsAgain

\* Whatever is answered, the call stays open or ends with what was accepted.
LEMMA OpenStep == Open /\ [Next]_vars => Open'
<1> SUFFICES ASSUME Open, [Next]_vars PROVE Open'
  OBVIOUS
<1>1. ASSUME NEW c \in Calls, Start(c) PROVE Open'
  BY <1>1 DEF Start, Open
<1>2. ASSUME NEW book \in LotBooks, ReadPositions(book) PROVE Open'
  BY <1>2 DEF ReadPositions, End, Open
<1>3. CASE ReadFails
  BY <1>3 DEF ReadFails, End, Open
<1>4. CASE PostAccepted
  BY <1>4 DEF PostAccepted, Post, End, Open
<1>5. ASSUME NEW code \in Codes, PostRefused(code) PROVE Open'
  <2>1. accepted' = 0 /\ code # "none"
    BY <1>5, NoCode DEF PostRefused, Post, Open
  <2> QED
    BY <1>5, <2>1 DEF PostRefused, Post, AfterFailure, End, Open
<1>6. ASSUME NEW n \in 0 .. 1, PostLost(n) PROVE Open'
  <2>1. accepted' = n
    BY <1>6 DEF PostLost, Post, Open
  <2>2. pc' = "idle" /\ outcome' = "lost"
    BY <1>6, NoCode DEF PostLost, AfterFailure, End
  <2> QED
    BY <2>1, <2>2 DEF Open
<1>7. CASE UNCHANGED vars
  BY <1>7 DEF vars, Open
<1> QED
  BY <1>1, <1>2, <1>3, <1>4, <1>5, <1>6, <1>7 DEF Next

\* For every call and every sequence of answers: one accepted order per call at most,
\* one after a success, none after a refusal.
THEOREM OneOrderPerCall == Spec => []SendsOnce
<1>1. Init => Open
  BY DEF Init, Open
<1>2. Open => SendsOnce
  BY DEF Open, SendsOnce
<1> QED
  BY <1>1, <1>2, OpenStep, PTL DEF Spec

-------------------------------------------------------------------------------
(***************************************************************************)
(* What the loop of _build_close_positions takes.                          *)
(***************************************************************************)

\* The loop over the places P, with what it takes, g, of what is there, f: it goes on in D,
\* as long as less than q is taken.
Takes(N, P, f, q, D, g) ==
  /\ N \in Nat /\ P \subseteq 1 .. N /\ q \in Nat \ {0}
  /\ \A x \in P : f[x] \in Nat \ {0}
  /\ D = {x \in P : SumFunctionOnSet(f, Before(P, x)) < q}
  /\ \A x \in D : g[x] = Smaller(f[x], q - SumFunctionOnSet(f, Before(P, x)))

\* The loop as a sum: up to any place it has taken all there is, or the quantity.
LEMMA TakenSoFar ==
  ASSUME NEW N, NEW P, NEW f, NEW q, NEW D, NEW g, Takes(N, P, f, q, D, g)
  PROVE  /\ \A x \in D : g[x] \in 1 .. f[x]
         /\ \A m \in Nat : SumFunctionOnSet(g, Before(D, m)) =
                             Smaller(SumFunctionOnSet(f, Before(P, m)), q)
<1> SUFFICES ASSUME N \in Nat, P \subseteq 1 .. N, q \in Nat \ {0},
                    \A x \in P : f[x] \in Nat \ {0},
                    D = {x \in P : SumFunctionOnSet(f, Before(P, x)) < q},
                    \A x \in D : g[x] = Smaller(f[x], q - SumFunctionOnSet(f, Before(P, x)))
             PROVE  /\ \A x \in D : g[x] \in 1 .. f[x]
                    /\ \A m \in Nat : SumFunctionOnSet(g, Before(D, m)) =
                                        Smaller(SumFunctionOnSet(f, Before(P, m)), q)
  BY DEF Takes
<1> DEFINE B(m) == SumFunctionOnSet(f, Before(P, m))
           G(m) == SumFunctionOnSet(g, Before(D, m))
           T    == {m \in Nat : G(m) # Smaller(B(m), q)}
<1>1. IsFiniteSet(P) /\ D \subseteq P /\ IsFiniteSet(D)
  <2>1. IsFiniteSet(1 .. N)
    BY FS_Interval
  <2>2. IsFiniteSet(P)
    BY <2>1, FS_Subset
  <2>3. D \subseteq P
    OBVIOUS
  <2> QED
    BY <2>2, <2>3, FS_Subset
<1>2. \A m : /\ Before(P, m) \subseteq P /\ IsFiniteSet(Before(P, m))
             /\ Before(D, m) \subseteq D /\ IsFiniteSet(Before(D, m))
  BY <1>1, FS_Subset DEF Before
<1>3. \A m : B(m) \in Nat
  <2> SUFFICES ASSUME NEW m PROVE SumFunctionOnSet(f, Before(P, m)) \in Nat
    OBVIOUS
  <2>1. \A x \in Before(P, m) : f[x] \in Nat
    BY <1>2
  <2> QED
    BY <1>2, <2>1, SumIsNat
<1>4. ASSUME NEW x \in D PROVE g[x] \in 1 .. f[x]
  <2>1. f[x] \in Nat \ {0} /\ B(x) < q /\ B(x) \in Nat /\ g[x] = Smaller(f[x], q - B(x))
    BY <1>1, <1>3
  <2> HIDE DEF B
  <2> QED
    BY <2>1 DEF Smaller
<1>5. \A x \in D : g[x] \in Int
  BY <1>1, <1>4
<1>6. ASSUME T # {} PROVE FALSE
  <2>1. PICK m \in T : \A k \in T : m <= k
    <3>1. T \subseteq Nat
      OBVIOUS
    <3> HIDE DEF T
    <3> QED
      BY <1>6, <3>1, LeastNatural
  <2>2. m \in Nat /\ G(m) # Smaller(B(m), q)
    OBVIOUS
  <2>3. CASE m = 0
    <3>1. Before(P, m) = {} /\ Before(D, m) = {}
      <4>1. \A x \in P : x \in Nat /\ ~(x < 0)
        OBVIOUS
      <4> QED
        BY <1>1, <2>3, <4>1 DEF Before
    <3>2. B(m) = 0 /\ G(m) = 0
      BY <3>1, SumOfNothing
    <3> HIDE DEF B, G
    <3> QED
      BY <2>2, <3>2 DEF Smaller
  <2>4. CASE m # 0
    <3> DEFINE n == m - 1
    <3>1. n \in Nat /\ n < m
      BY <2>2, <2>4
    <3>2. G(n) = Smaller(B(n), q)
      <4>1. n \notin T
        <5> HIDE DEF T
        <5> QED
          BY <2>1, <2>2, <3>1
      <4> HIDE DEF G, B
      <4> QED
        BY <3>1, <4>1
    <3>3. /\ Before(P, m) = Before(P, n) \cup (P \cap {n}) /\ n \notin Before(P, n)
          /\ Before(D, m) = Before(D, n) \cup (D \cap {n}) /\ n \notin Before(D, n)
      <4>1. \A x \in P : (x < m <=> x < n \/ x = n) /\ ~(n < n)
        BY <2>2, <2>4
      <4>2. Before(P, m) = Before(P, n) \cup (P \cap {n}) /\ n \notin Before(P, n)
        <5> HIDE DEF n
        <5> QED
          BY <4>1 DEF Before
      <4>3. Before(D, m) = Before(D, n) \cup (D \cap {n}) /\ n \notin Before(D, n)
        <5>1. \A x \in D : (x < m <=> x < n \/ x = n) /\ ~(n < n)
          BY <1>1, <4>1
        <5> HIDE DEF n
        <5> QED
          BY <5>1 DEF Before
      <4> QED
        BY <4>2, <4>3
    <3> HIDE DEF n
    <3>4. CASE n \notin P
      <4>1. B(m) = B(n) /\ G(m) = G(n)
        <5>1. Before(P, m) = Before(P, n) /\ Before(D, m) = Before(D, n)
          <6>1. P \cap {n} = {} /\ D \cap {n} = {}
            BY <1>1, <3>4
          <6> QED
            BY <3>3, <6>1
        <5> QED
          BY <5>1
      <4> HIDE DEF B, G
      <4> QED
        BY <2>2, <3>2, <4>1
    <3>5. CASE n \in P
      <4>1. B(m) = f[n] + B(n)
        <5>1. Before(P, m) = Before(P, n) \cup {n}
          BY <3>3, <3>5
        <5>2. \A x \in Before(P, n) \cup {n} : f[x] \in Int
          <6>1. \A x \in P : f[x] \in Int
            OBVIOUS
          <6>2. Before(P, n) \cup {n} \subseteq P
            BY <1>2, <3>5
          <6> QED
            BY <6>1, <6>2
        <5>3. SumFunctionOnSet(f, Before(P, n) \cup {n})
                = f[n] + SumFunctionOnSet(f, Before(P, n))
          BY <1>2, <3>3, <5>2, SumWith
        <5> QED
          BY <5>1, <5>3
      <4>2. f[n] \in Nat \ {0} /\ B(n) \in Nat /\ q \in Nat \ {0}
        BY <1>3, <3>5
      <4>3. CASE n \in D
        <5>1. G(m) = g[n] + G(n)
          <6>1. Before(D, m) = Before(D, n) \cup {n}
            BY <3>3, <4>3
          <6>2. \A x \in Before(D, n) \cup {n} : g[x] \in Int
            BY <1>2, <1>5, <4>3
          <6>3. SumFunctionOnSet(g, Before(D, n) \cup {n})
                  = g[n] + SumFunctionOnSet(g, Before(D, n))
            BY <1>2, <3>3, <6>2, SumWith
          <6> QED
            BY <6>1, <6>3
        <5>2. B(n) < q /\ g[n] = Smaller(f[n], q - B(n))
          BY <4>3
        <5> HIDE DEF B, G
        <5> QED
          BY <2>2, <3>2, <4>1, <4>2, <5>1, <5>2 DEF Smaller
      <4>4. CASE n \notin D
        <5>1. G(m) = G(n)
          <6>1. Before(D, m) = Before(D, n)
            BY <3>3, <4>4
          <6> QED
            BY <6>1
        <5>2. ~(B(n) < q)
          BY <3>5, <4>4
        <5> HIDE DEF B, G
        <5> QED
          BY <2>2, <3>2, <4>1, <4>2, <5>1, <5>2 DEF Smaller
      <4> QED
        BY <4>3, <4>4
    <3> QED
      BY <3>4, <3>5
  <2> QED
    BY <2>3, <2>4
<1> QED
  BY <1>4, <1>6

\* An element of a sequence.
LEMMA ElementOf == ASSUME NEW S, NEW s \in Seq(S), NEW i \in 1 .. Len(s) PROVE s[i] \in S
OBVIOUS

\* What is named of a book: the quantity when there is enough, and no more of a lot than
\* is closable.
LEMMA ClosesFit ==
  ASSUME NEW book \in LotBooks, NEW c \in Calls,
         NEW places, places \subseteq SameSide(book, c), ~(Closable(book, places) < c.qty),
         NEW closes, closes = ClosePositions(book, places, c.qty)
  PROVE  /\ SumFunction(closes) = c.qty
         /\ DOMAIN closes \subseteq places
         /\ \A i \in DOMAIN closes : closes[i] \in 1 .. book[i].closable
<1> DEFINE f == [i \in 1 .. Len(book) |-> book[i].closable]
           D == {x \in places : SumFunctionOnSet(f, Before(places, x)) < c.qty}
           B(m) == SumFunctionOnSet(f, Before(places, m))
           G(m) == SumFunctionOnSet(closes, Before(D, m))
           last == Len(book) + 1
<1>1. book \in Seq([exchange : Nat, long : BOOLEAN, closable : Int])
  BY LotBooksAssumption
<1>2. Len(book) \in Nat /\ places \subseteq 1 .. Len(book)
  BY <1>1 DEF SameSide
<1>3. \A x \in places : f[x] = book[x].closable /\ f[x] \in Nat \ {0}
  <2> SUFFICES ASSUME NEW x \in places PROVE f[x] = book[x].closable /\ f[x] \in Nat \ {0}
    OBVIOUS
  <2>1. x \in 1 .. Len(book) /\ book[x].closable > 0
    BY <1>2 DEF SameSide
  <2>2. book[x].closable \in Int
    <3>1. book[x] \in [exchange : Nat, long : BOOLEAN, closable : Int]
      BY <1>1, <2>1, ElementOf
    <3> QED
      BY <3>1
  <2>3. f[x] = book[x].closable
    BY <2>1
  <2> HIDE DEF f
  <2> QED
    BY <2>1, <2>2, <2>3
<1>4. c.qty \in Nat \ {0}
  BY CallsAssumption
<1>5. \A Q \in SUBSET places : Closable(book, Q) = SumFunctionOnSet(f, Q)
  <2> SUFFICES ASSUME NEW Q \in SUBSET places
               PROVE  Closable(book, Q) = SumFunctionOnSet(f, Q)
    OBVIOUS
  <2>1. IsFiniteSet(Q)
    <3>1. IsFiniteSet(1 .. Len(book)) /\ Q \subseteq 1 .. Len(book)
      BY <1>2, FS_Interval
    <3> QED
      BY <3>1, FS_Subset
  <2> DEFINE h == [i \in Q |-> book[i].closable]
  <2>2. \A x \in Q : h[x] = f[x]
    BY <1>3
  <2> HIDE DEF h, f
  <2>3. SumFunctionOnSet(h, Q) = SumFunctionOnSet(f, Q)
    BY <2>1, <2>2, SumOfEqual
  <2> QED
    BY <2>3 DEF Closable, h
<1>6. \A x : Before(places, x) \in SUBSET places
  BY DEF Before
<1>7. /\ DOMAIN closes = D
      /\ \A x \in D : closes[x] = Smaller(f[x], c.qty - SumFunctionOnSet(f, Before(places, x)))
  <2>1. /\ DOMAIN closes = {x \in places : Closable(book, Before(places, x)) < c.qty}
        /\ \A x \in DOMAIN closes : closes[x] = Taken(book, places, c.qty, x)
    BY DEF ClosePositions
  <2>2. DOMAIN closes = D
    <3> HIDE DEF f
    <3> QED
      BY <1>5, <1>6, <2>1
  <2>3. ASSUME NEW x \in D
        PROVE  closes[x] = Smaller(f[x], c.qty - SumFunctionOnSet(f, Before(places, x)))
    <3>1. book[x].closable = f[x]
      BY <1>3
    <3>2. Closable(book, Before(places, x)) = SumFunctionOnSet(f, Before(places, x))
      <4> HIDE DEF f
      <4> QED
        BY <1>5, <1>6
    <3> HIDE DEF f, D
    <3> QED
      BY <2>1, <2>2, <2>3, <3>1, <3>2 DEF Taken
  <2> QED
    BY <2>2, <2>3
<1> HIDE DEF f
<1>8. /\ \A x \in D : closes[x] \in 1 .. f[x]
      /\ \A m \in Nat : G(m) = Smaller(B(m), c.qty)
  <2>1. \A x \in places : f[x] \in Nat \ {0}
    BY <1>3
  <2>2. D = {x \in places : SumFunctionOnSet(f, Before(places, x)) < c.qty}
    OBVIOUS
  <2>3. \A x \in D : closes[x] = Smaller(f[x], c.qty - SumFunctionOnSet(f, Before(places, x)))
    BY <1>7
  <2> HIDE DEF D
  <2>4. /\ \A x \in D : closes[x] \in 1 .. f[x]
        /\ \A m \in Nat : SumFunctionOnSet(closes, Before(D, m)) =
                           Smaller(SumFunctionOnSet(f, Before(places, m)), c.qty)
    <3>1. Takes(Len(book), places, f, c.qty, D, closes)
      BY <1>2, <1>4, <2>1, <2>2, <2>3 DEF Takes
    <3> QED
      BY <3>1, TakenSoFar
  <2> QED
    BY <2>4
<1>9. last \in Nat /\ Before(places, last) = places /\ Before(D, last) = D
  <2>1. last \in Nat /\ \A x \in places : x < last
    BY <1>2
  <2> HIDE DEF last
  <2> QED
    BY <2>1 DEF Before
<1>10. SumFunctionOnSet(closes, D) = c.qty
  <2>1. G(last) = Smaller(B(last), c.qty)
    BY <1>8, <1>9
  <2>2. SumFunctionOnSet(closes, D) = Smaller(SumFunctionOnSet(f, places), c.qty)
    <3> HIDE DEF D, last
    <3> QED
      BY <1>9, <2>1
  <2>3. ~(SumFunctionOnSet(f, places) < c.qty)
    BY <1>5
  <2> QED
    BY <2>2, <2>3 DEF Smaller
<1>11. SumFunction(closes) = c.qty
  BY <1>7, <1>10 DEF SumFunction
<1>12. ASSUME NEW i \in DOMAIN closes PROVE i \in places /\ closes[i] \in 1 .. book[i].closable
  BY <1>3, <1>7, <1>8
<1> QED
  BY <1>11, <1>12

\* The exchange an exit goes to is that of its lots, whichever of the three attempts
\* named them.
LEMMA ExchangeFits ==
  ASSUME NEW book \in LotBooks, reread \in BOOLEAN,
         NEW strict, strict = (Route(call) # Sor /\ ~reread),
         ~Ambiguous(book, call, strict),
         NEW D, D \subseteq Usable(book, call, strict),
         NEW i \in D
  PROVE  \/ book[i].exchange \in {0, CloseExchange(book, D)}
         \/ CloseExchange(book, D) = Sor
<1>1. CASE Route(call) = Sor
  BY <1>1 DEF CloseExchange
<1>2. CASE Route(call) # Sor /\ ~reread
  BY <1>2 DEF CloseExchange, Usable
<1>3. CASE Route(call) # Sor /\ reread
  <2> DEFINE All  == Exchanges(book, SameSide(book, call))
             Some == Exchanges(book, D)
  <2>1. Some \subseteq All
    BY DEF Usable, Exchanges
  <2>2. IsFiniteSet(All) /\ ~(Cardinality(All) > 1)
    <3>1. book \in Seq([exchange : Nat, long : BOOLEAN, closable : Int])
      BY LotBooksAssumption
    <3>2. IsFiniteSet(DOMAIN book)
      BY <3>1, FS_Interval
    <3>3. IsFiniteSet(SameSide(book, call))
      BY <3>2, FS_Subset DEF SameSide
    <3>4. IsFiniteSet({book[k].exchange : k \in SameSide(book, call)})
      <4> DEFINE places == SameSide(book, call)
                 told   == [k \in places |-> book[k].exchange]
      <4>1. \A k \in places : told[k] = book[k].exchange
        OBVIOUS
      <4>2. told \in [places -> {book[k].exchange : k \in places}]
        OBVIOUS
      <4>3. told \in Surjection(places, {book[k].exchange : k \in places})
        BY <4>2 DEF Surjection
      <4> QED
        BY <3>3, <4>3, FS_Surjection
    <3>5. IsFiniteSet(All)
      <4>1. All \subseteq {book[k].exchange : k \in SameSide(book, call)}
        BY DEF Exchanges
      <4> HIDE DEF All
      <4> QED
        BY <3>4, <4>1, FS_Subset
    <3> QED
      BY <1>3, <3>5 DEF Ambiguous
  <2>3. book[i].exchange = 0 \/ book[i].exchange \in Some
    BY DEF Exchanges
  <2>4. CASE book[i].exchange = 0
    BY <2>4
  <2>5. CASE book[i].exchange \in Some
    <3> HIDE DEF All, Some
    <3>1. IsFiniteSet(Some) /\ Cardinality(Some) <= Cardinality(All)
      BY <2>1, <2>2, FS_Subset
    <3>2. Cardinality(Some) \in Nat /\ Cardinality(All) \in Nat
      BY <2>2, <3>1, FS_CardinalityType
    <3>3. Cardinality(Some) # 0
      BY <2>5, <3>1, FS_EmptySet
    <3>4. Cardinality(Some) = 1
      BY <2>2, <3>1, <3>2, <3>3
    <3>5. PICK x : Some = {x}
      BY <3>1, <3>4, FS_Singleton
    <3>6. book[i].exchange = CHOOSE y \in Some : TRUE
      BY <2>5, <3>5
    <3>7. CloseExchange(book, D) = CHOOSE y \in Some : TRUE
      BY <1>3, <3>4 DEF CloseExchange, Some
    <3> QED
      BY <3>6, <3>7
  <2> QED
    BY <2>3, <2>4, <2>5
<1> QED
  BY <1>1, <1>2, <1>3

-------------------------------------------------------------------------------
(***************************************************************************)
(* What is sent.                                                           *)
(***************************************************************************)

\* Every exit of a margin position that was sent or is about to be closes what it was
\* asked to; it is said of the next order too, since that is the one a step sends.
Closing ==
  /\ call \in Calls
  /\ reread \in BOOLEAN
  /\ \E S : sent \in Seq(S)
  /\ \E x, b, c : order = [exchange |-> x, book |-> b, closes |-> c]
  /\ call.exit /\ call.margin =>
       /\ pc = "post" => Closes(order, call)
       /\ \A k \in DOMAIN sent : Closes(sent[k], call)

\* An order read from a book closes what it was asked to.
LEMMA ReadCloses ==
  ASSUME Closing, NEW book \in LotBooks, ReadPositions(book), pc' = "post"
  PROVE  Closes(order', call)
<1> DEFINE strict == Route(call) # Sor /\ ~reread
           places == Usable(book, call, strict)
           closes == ClosePositions(book, places, call.qty)
<1>1. /\ ~Ambiguous(book, call, strict)
      /\ ~(Closable(book, places) < call.qty)
      /\ order' = [exchange |-> CloseExchange(book, DOMAIN closes),
                   book |-> book, closes |-> closes]
  BY DEF ReadPositions, End
<1>2. call \in Calls /\ reread \in BOOLEAN
  BY DEF Closing
<1>3. places \subseteq SameSide(book, call)
  BY DEF Usable
<1>4. strict = (Route(call) # Sor /\ ~reread)
  OBVIOUS
<1>5. PICK c : c = closes
  OBVIOUS
<1>6. c = ClosePositions(book, places, call.qty)
  BY <1>5
<1> HIDE DEF strict
<1>7. PICK P : P = places
  OBVIOUS
<1>8. /\ SumFunction(c) = call.qty
      /\ DOMAIN c \subseteq P
      /\ \A i \in DOMAIN c : c[i] \in 1 .. book[i].closable
  <2>1. P \subseteq SameSide(book, call) /\ ~(Closable(book, P) < call.qty)
    BY <1>1, <1>3, <1>7
  <2>2. c = ClosePositions(book, P, call.qty)
    BY <1>6, <1>7
  <2> QED
    BY <1>2, <2>1, <2>2, ClosesFit
<1>9. PICK e : e = CloseExchange(book, DOMAIN c)
  OBVIOUS
<1>10. \A i \in DOMAIN c : book[i].exchange \in {0, e} \/ e = Sor
  <2>1. DOMAIN c \subseteq Usable(book, call, strict)
    BY <1>7, <1>8
  <2> QED
    BY <1>1, <1>2, <1>4, <1>9, <2>1, ExchangeFits
<1>11. order'.exchange = e /\ order'.book = book /\ order'.closes = c
  BY <1>1, <1>5, <1>9
<1>12. \A i \in DOMAIN c : book[i].long = call.long
  BY <1>3, <1>7, <1>8 DEF SameSide
<1> QED
  BY <1>8, <1>10, <1>11, <1>12 DEF Closes

\* Moving an order from the old code of Tokyo to the new one keeps it exact.
LEMMA MovedCloses ==
  ASSUME NEW o, Closes(o, call), o.exchange = 1,
         NEW p, p.exchange = TsePlus, p.book = o.book, p.closes = o.closes
  PROVE  Closes(p, call)
BY DEF Closes, TsePlus, Sor

\* Sending the next order keeps all that was sent exact.
LEMMA SentCloses ==
  ASSUME Closing, pc = "post", sent' = Append(sent, order)
  PROVE  /\ \E S : sent' \in Seq(S)
         /\ call.exit /\ call.margin => \A k \in DOMAIN sent' : Closes(sent'[k], call)
<1>1. PICK S : sent \in Seq(S)
  BY DEF Closing
<1> DEFINE T == S \cup {order}
<1>2. sent \in Seq(T) /\ order \in T
  BY <1>1
<1>3. /\ sent' \in Seq(T)
      /\ DOMAIN sent' = 1 .. Len(sent) + 1 /\ DOMAIN sent = 1 .. Len(sent)
      /\ Len(sent) \in Nat
      /\ \A k \in 1 .. Len(sent) : sent'[k] = sent[k]
      /\ sent'[Len(sent) + 1] = order
  <2> HIDE DEF T
  <2> QED
    BY <1>2
<1>4. ASSUME call.exit, call.margin, NEW k \in DOMAIN sent' PROVE Closes(sent'[k], call)
  <2>1. k \in 1 .. Len(sent) \/ k = Len(sent) + 1
    BY <1>3, <1>4
  <2>2. CASE k \in 1 .. Len(sent)
    BY <1>3, <1>4, <2>2 DEF Closing
  <2>3. CASE k = Len(sent) + 1
    BY <1>3, <1>4, <2>3 DEF Closing
  <2> QED
    BY <2>1, <2>2, <2>3
<1> QED
  BY <1>3, <1>4

\* The order that follows a failure closes what it was asked to.
LEMMA FailureCloses ==
  ASSUME Closing, NEW code, pc = "post", AfterFailure(code), call.exit, call.margin,
         pc' = "post"
  PROVE  Closes(order', call)
<1>1. MovesToTsePlus(code)
  BY DEF AfterFailure, End
<1>2. order' = [order EXCEPT !.exchange = TsePlus] /\ order.exchange = 1
  BY <1>1 DEF AfterFailure, MovesToTsePlus
<1>3. PICK x, b, c : order = [exchange |-> x, book |-> b, closes |-> c]
  BY DEF Closing
<1>4. order'.exchange = TsePlus /\ order'.book = order.book /\ order'.closes = order.closes
  BY <1>2, <1>3
<1>5. Closes(order, call)
  BY DEF Closing
<1> QED
  BY <1>2, <1>4, <1>5, MovedCloses

\* Reading names the lots of an order, and no later step changes them.
LEMMA ClosingStep == Closing /\ [Next]_vars => Closing'
<1> SUFFICES ASSUME Closing, [Next]_vars PROVE Closing'
  OBVIOUS
<1>1. ASSUME NEW c \in Calls, Start(c) PROVE Closing'
  <2>1. call' = c /\ reread' = FALSE /\ sent' = <<>>
    BY <1>1 DEF Start
  <2>2. sent' \in Seq({}) /\ DOMAIN sent' = {}
    BY <2>1
  <2>3. \E x, b, l : order' = [exchange |-> x, book |-> b, closes |-> l]
    BY <1>1 DEF Start, NoOrder
  <2>4. ASSUME c.exit, c.margin PROVE pc' = "read"
    BY <1>1, <2>4 DEF Start
  <2> QED
    BY <2>1, <2>2, <2>3, <2>4 DEF Closing
<1>2. ASSUME NEW book \in LotBooks, ReadPositions(book) PROVE Closing'
  <2>1. UNCHANGED <<call, reread, sent>>
    BY <1>2 DEF ReadPositions
  <2>2. \E x, b, c : order' = [exchange |-> x, book |-> b, closes |-> c]
    BY <1>2 DEF ReadPositions, Closing
  <2>3. pc' = "post" => Closes(order', call)
    BY <1>2, ReadCloses
  <2> QED
    BY <2>1, <2>2, <2>3 DEF Closing
<1>3. CASE ReadFails
  BY <1>3 DEF ReadFails, End, Closing
<1>4. CASE PostAccepted
  <2>1. pc' = "idle" /\ UNCHANGED <<call, reread, order>>
    BY <1>4 DEF PostAccepted, End
  <2>2. pc = "post" /\ sent' = Append(sent, order)
    BY <1>4 DEF PostAccepted, Post
  <2> QED
    BY <2>1, <2>2, SentCloses DEF Closing
<1>5. ASSUME NEW n, NEW code, Post(n), AfterFailure(code), UNCHANGED <<call, attempt>>
      PROVE  Closing'
  <2>1. pc = "post" /\ sent' = Append(sent, order)
    BY <1>5 DEF Post
  <2>2. call' \in Calls /\ reread' \in BOOLEAN
    BY <1>5 DEF AfterFailure, Closing
  <2>3. \E x, b, c : order' = [exchange |-> x, book |-> b, closes |-> c]
    BY <1>5 DEF AfterFailure, Closing, NoOrder
  <2>4. ASSUME call.exit, call.margin, pc' = "post" PROVE Closes(order', call)
    BY <1>5, <2>1, <2>4, FailureCloses
  <2> QED
    BY <1>5, <2>1, <2>2, <2>3, <2>4, SentCloses DEF Closing
<1>6. ASSUME NEW code \in Codes, PostRefused(code) PROVE Closing'
  BY <1>5, <1>6 DEF PostRefused
<1>7. ASSUME NEW n \in 0 .. 1, PostLost(n) PROVE Closing'
  BY <1>5, <1>7 DEF PostLost
<1>8. CASE UNCHANGED vars
  BY <1>8 DEF vars, Closing
<1> QED
  BY <1>1, <1>2, <1>3, <1>4, <1>6, <1>7, <1>8 DEF Next

\* For every call and every sequence of answers: each exit of a margin position that is
\* sent, at first, on TSE+ or after code 8, closes the quantity asked for.
THEOREM ExitsClose == Spec => []ClosesExactly
<1>1. Init => Closing
  <2> SUFFICES ASSUME Init PROVE Closing
    OBVIOUS
  <2>1. sent = <<>> /\ sent \in Seq({}) /\ DOMAIN sent = {}
    BY DEF Init
  <2> QED
    BY <2>1 DEF Init, Closing, NoOrder
<1>2. Closing => ClosesExactly
  BY DEF Closing, ClosesExactly
<1> QED
  BY <1>1, <1>2, ClosingStep, PTL DEF Spec

===============================================================================
