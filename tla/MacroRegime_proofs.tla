-------------------------- MODULE MacroRegime_proofs --------------------------
(***************************************************************************)
(* The regime rows, for any categories, window, days and faults.           *)
(*                                                                         *)
(* A row is made by a loop over a range of days that carries what fired    *)
(* on the last trading days.  That the loop is well defined, and that it   *)
(* carries the days it should (PriorsCarry), is shown day by day: the      *)
(* first day at which it would go wrong follows one at which it does not.  *)
(* So a row says what fired on the days of its window that lie in its      *)
(* range (RangeRow).  It stays true of the bars that come later because    *)
(* a source only ever gets bars behind its last (BarsAreWhole): a window   *)
(* once formed never changes, and what fires in it does not stop.          *)
(***************************************************************************)
EXTENDS MacroRegime, FiniteSetTheorems, SequenceTheorems, TLAPS

-------------------------------------------------------------------------------
(* Naturals: a set of them that is not empty has a least element.            *)

LEMMA LeastNatural ==
  ASSUME NEW T \in SUBSET Nat, T # {}
  PROVE  \E m \in T : \A n \in T : m <= n
<1> DEFINE R == OpToRel(<, Nat)
<1>1. IsWellFoundedOn(R, Nat)
  BY NatLessThanWellFounded
<1>2. \A x, y \in Nat : x < y => <<x, y>> \in R
  BY DEF OpToRel
<1> HIDE DEF R
<1>3. \E x \in T : \A y \in T : ~ (<<y, x>> \in R)
  BY <1>1, WFMin, Zenon
<1>4. PICK m \in T : \A y \in T : ~ (<<y, m>> \in R)
  BY <1>3
<1>5. ASSUME NEW n \in T
      PROVE  m <= n
  <2>1. m \in Nat /\ n \in Nat
    OBVIOUS
  <2>2. ~ (n < m)
    BY <1>2, <1>4, <2>1, Zenon
  <2> QED
    BY <2>1, <2>2
<1> QED
  BY <1>5

LEMMA MinIsLeast ==
  ASSUME NEW T \in SUBSET Nat, T # {}
  PROVE  Min(T) \in T /\ \A n \in T : Min(T) <= n
  BY LeastNatural DEF Min

LEMMA MaxIsGreatest ==
  ASSUME NEW n \in Nat, NEW T \in SUBSET (0 .. n), T # {}
  PROVE  Max(T) \in T /\ \A x \in T : Max(T) >= x
<1> DEFINE U == {n - x : x \in T}
<1>1. U \in SUBSET Nat /\ U # {}
  <2>1. \A x \in T : n - x \in Nat
    OBVIOUS
  <2>2. U # {}
    OBVIOUS
  <2> QED
    BY <2>1, <2>2
<1>2. PICK u \in U : \A v \in U : u <= v
  BY <1>1, LeastNatural
<1>3. PICK m \in T : u = n - m
  BY <1>2
<1>4. \A x \in T : m >= x
  <2> TAKE x \in T
  <2>1. n - x \in U
    OBVIOUS
  <2> HIDE DEF U
  <2> QED
    BY <1>2, <1>3, <2>1
<1> QED
  BY <1>3, <1>4 DEF Max

-------------------------------------------------------------------------------
(* What the loop over a range carries from day to day.                       *)

\* One turn of the loop: what day d's prior days are, from those of the day before.
Turn(g, from, d) ==
  IF d = from THEN <<>>
  ELSE IF (d - 1) \notin bars[Spy] THEN g[d - 1]
  ELSE LastOf(Append(g[d - 1], Fires(d - 1)), Window - 1)

Threads(g, from, to) == g = [d \in from .. to |-> Turn(g, from, d)]

\* The loop is well defined over every range.
LEMMA ThreadsExist ==
  ASSUME NEW from \in Nat, NEW k \in Nat
  PROVE  \E g : Threads(g, from, from + k)
<1> DEFINE T == {n \in Nat : ~ \E g : Threads(g, from, from + n)}
<1> SUFFICES ASSUME T # {}
             PROVE  FALSE
  OBVIOUS
<1>1. PICK n \in T : \A m \in T : n <= m
  BY LeastNatural
<1>2. CASE n = 0
  <2> DEFINE g == [d \in from .. from |-> <<>>]
  <2>1. g = [d \in from .. from |-> Turn(g, from, d)]
    BY DEF Turn
  <2>2. Threads(g, from, from + 0)
    BY <2>1 DEF Threads
  <2> QED
    BY <1>1, <1>2, <2>2
<1>3. CASE n # 0
  <2>1. n - 1 \in Nat /\ n - 1 \notin T
    BY <1>1, <1>3
  <2>2. PICK g : Threads(g, from, from + (n - 1))
    BY <2>1
  <2> DEFINE h == [d \in from .. (from + n) |->
                     IF d = from + n THEN Turn(g, from, d) ELSE g[d]]
  <2>3. ASSUME NEW d \in from .. (from + n)
        PROVE  h[d] = Turn(h, from, d)
    <3>1. h[d] = Turn(g, from, d)
      <4>1. d # from + n => d \in from .. (from + (n - 1))
        BY <1>1
      <4> QED
        BY <2>2, <4>1 DEF Threads
    <3>2. d # from => h[d - 1] = g[d - 1]
      BY <1>1
    <3> HIDE DEF h
    <3> QED
      BY <3>1, <3>2 DEF Turn
  <2>4. h = [d \in from .. (from + n) |-> Turn(h, from, d)]
    <3>1. h = [d \in from .. (from + n) |-> h[d]]
      OBVIOUS
    <3> HIDE DEF h
    <3> QED
      BY <2>3, <3>1
  <2>5. Threads(h, from, from + n)
    BY <2>4 DEF Threads
  <2> HIDE DEF h
  <2> QED
    BY <1>1, <2>5
<1> QED
  BY <1>2, <1>3

\* The loop's days, in the form the code computes them.
LEMMA PriorsThread ==
  ASSUME NEW from \in Nat, NEW to \in Nat, from <= to
  PROVE  Threads(Priors(from, to), from, to + 1)
<1> DEFINE k == (to + 1) - from
<1>1. k \in Nat /\ from + k = to + 1
  OBVIOUS
<1> HIDE DEF k
<1>2. \E g : Threads(g, from, to + 1)
  BY <1>1, ThreadsExist
<1>3. Priors(from, to) = CHOOSE g : Threads(g, from, to + 1)
  BY DEF Priors, Threads, Turn
<1> QED
  BY <1>2, <1>3

\* The last n elements of a sequence, counted from its end.
LEMMA LastOfIs ==
  ASSUME NEW S, NEW s \in Seq(S), NEW n \in Nat
  PROVE  /\ LastOf(s, n) \in Seq(S)
         /\ Len(LastOf(s, n)) = IF Len(s) > n THEN n ELSE Len(s)
         /\ \A k \in 0 .. (Len(LastOf(s, n)) - 1) :
              LastOf(s, n)[Len(LastOf(s, n)) - k] = s[Len(s) - k]
<1> DEFINE m == 1 + (IF Len(s) > n THEN Len(s) - n ELSE 0)
           q == SubSeq(s, m, Len(s))
<1>1. Len(s) \in Nat /\ m \in 1 .. (Len(s) + 1)
  OBVIOUS
<1>2. LastOf(s, n) = q
  BY DEF LastOf
<1> HIDE DEF m
<1>3. \A i \in m .. Len(s) : s[i] \in S
  BY <1>1, ElementOfSeq
<1>4. /\ q \in Seq(S) /\ Len(q) = IF m <= Len(s) THEN Len(s) - m + 1 ELSE 0
      /\ \A i \in 1 .. (Len(s) - m + 1) : q[i] = s[m + i - 1]
  BY <1>1, <1>3, SubSeqProperties
<1> HIDE DEF q
<1>5. Len(q) = Len(s) - m + 1
  BY <1>1, <1>4
<1>6. Len(q) = IF Len(s) > n THEN n ELSE Len(s)
  BY <1>1, <1>5 DEF m
<1>7. ASSUME NEW k \in 0 .. (Len(q) - 1)
      PROVE  q[Len(q) - k] = s[Len(s) - k]
  <2>1. Len(q) - k \in 1 .. (Len(s) - m + 1) /\ m + (Len(q) - k) - 1 = Len(s) - k
    BY <1>1, <1>5
  <2> QED
    BY <1>4, <2>1
<1> QED
  BY <1>2, <1>4, <1>6, <1>7

\* The trading days between two days.
Between(e, d) == {f \in bars[Spy] : e < f /\ f < d}

LEMMA TradingDays ==
  ASSUME RegimeTypeOK
  PROVE  bars[Spy] \subseteq 1 .. marketDay /\ marketDay \in Nat /\ IsFiniteSet(bars[Spy])
<1>1. bars[Spy] \subseteq 1 .. marketDay /\ marketDay \in Nat
  BY RegimeAssumption DEF RegimeTypeOK, Sources
<1>2. IsFiniteSet(1 .. marketDay) /\ bars[Spy] \in SUBSET (1 .. marketDay)
  BY <1>1, FS_Interval
<1> QED
  BY <1>1, <1>2, FS_Subset

LEMMA BetweenCounts ==
  ASSUME RegimeTypeOK, NEW e \in Nat, NEW d \in Nat
  PROVE  /\ IsFiniteSet(Between(e, d)) /\ Cardinality(Between(e, d)) \in Nat
         /\ d \notin bars[Spy] => Between(e, d + 1) = Between(e, d)
         /\ d \in bars[Spy] /\ e < d =>
              Cardinality(Between(e, d + 1)) = Cardinality(Between(e, d)) + 1
         /\ Cardinality(Between(d, d + 1)) = 0
<1>1. bars[Spy] \subseteq Nat /\ IsFiniteSet(bars[Spy])
  BY TradingDays
<1>2. IsFiniteSet(Between(e, d)) /\ Cardinality(Between(e, d)) \in Nat
  BY <1>1, FS_Subset, FS_CardinalityType DEF Between
<1>3. d \notin bars[Spy] => Between(e, d + 1) = Between(e, d)
  BY <1>1 DEF Between
<1>4. ASSUME d \in bars[Spy], e < d
      PROVE  Cardinality(Between(e, d + 1)) = Cardinality(Between(e, d)) + 1
  <2>1. Between(e, d + 1) = Between(e, d) \cup {d} /\ d \notin Between(e, d)
    BY <1>1, <1>4 DEF Between
  <2> QED
    BY <1>2, <2>1, FS_AddElement
<1>5. Between(d, d + 1) = {}
  BY <1>1 DEF Between
<1> QED
  BY <1>2, <1>3, <1>4, <1>5, FS_EmptySet

\* What is carried into day d: what fired on the trading days before it, the
\* last of them last, of those in the range and at most Window - 1 of them.
Carries(p, from, d) ==
  /\ p \in Seq(SUBSET Categories) /\ Len(p) < Window
  /\ \A e \in bars[Spy] :
       /\ from <= e /\ e < d /\ Cardinality(Between(e, d)) < Window - 1
       => /\ Cardinality(Between(e, d)) < Len(p)
          /\ p[Len(p) - Cardinality(Between(e, d))] = Fires(e)
  /\ \A i \in 1 .. Len(p) : \E e \in bars[Spy] :
       /\ from <= e /\ e < d /\ Cardinality(Between(e, d)) = Len(p) - i
       /\ p[i] = Fires(e)

LEMMA FiresType ==
  ASSUME RegimeTypeOK, NEW d \in bars[Spy]
  PROVE  Fires(d) \in SUBSET Categories
<1>1. d \in MarketDays
  BY TradingDays, RegimeAssumption DEF RegimeTypeOK, MarketDays
<1> QED
  BY <1>1 DEF RegimeTypeOK, Fires

LEMMA CarriesOn ==
  ASSUME RegimeTypeOK, NEW from \in Nat, NEW d \in Nat, from <= d,
         NEW p, Carries(p, from, d)
  PROVE  Carries(IF d \notin bars[Spy] THEN p
                 ELSE LastOf(Append(p, Fires(d)), Window - 1), from, d + 1)
<1> USE DEF Carries
<1>1. bars[Spy] \subseteq Nat /\ Window \in Nat \ {0}
  BY TradingDays, RegimeAssumption
<1>2. CASE d \notin bars[Spy]
  <2>1. \A e \in bars[Spy] : e < d + 1 <=> e < d
    BY <1>1, <1>2
  <2>2. \A e \in bars[Spy] : Between(e, d + 1) = Between(e, d)
    BY <1>1, <1>2, BetweenCounts
  <2>3. Carries(p, from, d + 1)
    BY <2>1, <2>2
  <2> QED
    BY <1>2, <2>3
<1>3. CASE d \in bars[Spy]
  <2> DEFINE a == Append(p, Fires(d))
             q == LastOf(a, Window - 1)
  <2>1. /\ a \in Seq(SUBSET Categories) /\ Len(a) = Len(p) + 1
        /\ \A i \in 1 .. Len(p) : a[i] = p[i]
        /\ a[Len(p) + 1] = Fires(d)
    BY <1>3, FiresType, AppendProperties
  <2> HIDE DEF a
  <2>2. Window - 1 \in Nat /\ Len(p) \in Nat /\ Len(p) <= Window - 1
    BY <1>1
  <2>3. /\ q \in Seq(SUBSET Categories)
        /\ Len(q) = IF Len(a) > Window - 1 THEN Window - 1 ELSE Len(a)
        /\ \A k \in 0 .. (Len(q) - 1) : q[Len(q) - k] = a[Len(a) - k]
    BY <2>1, <2>2, LastOfIs
  <2> HIDE DEF q
  <2>4. Len(q) \in Nat /\ Len(q) < Window
    BY <1>1, <2>1, <2>2, <2>3
  <2>5. ASSUME NEW e \in bars[Spy], from <= e, e < d + 1,
               Cardinality(Between(e, d + 1)) < Window - 1
        PROVE  /\ Cardinality(Between(e, d + 1)) < Len(q)
               /\ q[Len(q) - Cardinality(Between(e, d + 1))] = Fires(e)
    <3>1. CASE e = d
      <4>1. Cardinality(Between(e, d + 1)) = 0
        BY <3>1, BetweenCounts
      <4>2. Len(q) > 0
        BY <2>1, <2>2, <2>3, <2>5, <4>1
      <4>3. q[Len(q) - 0] = a[Len(a) - 0]
        BY <2>3, <2>4, <4>2
      <4> QED
        BY <2>1, <2>2, <2>4, <3>1, <4>1, <4>2, <4>3
    <3>2. CASE e # d
      <4>1. e \in Nat /\ e < d
        BY <1>1, <2>5, <3>2
      <4>2. PICK k \in Nat : /\ k = Cardinality(Between(e, d))
                             /\ Cardinality(Between(e, d + 1)) = k + 1
        BY <1>3, <4>1, BetweenCounts
      <4>3. k < Len(p) /\ p[Len(p) - k] = Fires(e)
        BY <2>2, <2>5, <4>1, <4>2
      <4>4. k + 1 \in 0 .. (Len(q) - 1)
        BY <2>1, <2>2, <2>3, <2>5, <4>2, <4>3
      <4>5. q[Len(q) - (k + 1)] = a[Len(a) - (k + 1)]
        BY <2>3, <4>4
      <4>6. Len(a) - (k + 1) = Len(p) - k /\ Len(p) - k \in 1 .. Len(p)
        BY <2>1, <2>2, <4>3
      <4>7. q[Len(q) - (k + 1)] = Fires(e)
        BY <2>1, <4>3, <4>5, <4>6
      <4>8. k + 1 < Len(q)
        BY <2>4, <4>4
      <4> QED
        BY <4>2, <4>7, <4>8
    <3> QED
      BY <3>1, <3>2
  <2>6. ASSUME NEW i \in 1 .. Len(q)
        PROVE  \E e \in bars[Spy] :
                 /\ from <= e /\ e < d + 1
                 /\ Cardinality(Between(e, d + 1)) = Len(q) - i
                 /\ q[i] = Fires(e)
    <3> DEFINE k == Len(q) - i
    <3>1. k \in 0 .. (Len(q) - 1) /\ Len(q) - k = i
      BY <2>4
    <3>2. q[i] = a[Len(a) - k]
      BY <2>3, <3>1
    <3> HIDE DEF k
    <3>3. CASE k = 0
      <4>1. Cardinality(Between(d, d + 1)) = 0 /\ d < d + 1
        BY BetweenCounts
      <4>2. q[i] = Fires(d)
        BY <2>1, <2>2, <3>2, <3>3
      <4> QED
        BY <1>3, <3>3, <4>1, <4>2 DEF k
    <3>4. CASE k # 0
      <4>1. Len(a) - k \in 1 .. Len(p) /\ Len(p) - (Len(a) - k) = k - 1
        BY <2>1, <2>2, <2>3, <3>1, <3>4
      <4>2. PICK e \in bars[Spy] :
              /\ from <= e /\ e < d /\ Cardinality(Between(e, d)) = k - 1
              /\ p[Len(a) - k] = Fires(e)
        BY <4>1
      <4>3. e \in Nat /\ Cardinality(Between(e, d + 1)) = Cardinality(Between(e, d)) + 1
        BY <1>1, <1>3, <4>2, BetweenCounts
      <4>4. Cardinality(Between(e, d + 1)) = k /\ e < d + 1
        BY <3>1, <4>2, <4>3
      <4>5. q[i] = Fires(e)
        BY <2>1, <3>2, <4>1, <4>2
      <4> QED
        BY <4>2, <4>4, <4>5 DEF k
    <3> QED
      BY <3>3, <3>4
  <2>7. Carries(q, from, d + 1)
    BY <2>3, <2>4, <2>5, <2>6
  <2> QED
    BY <1>3, <2>7 DEF q, a
<1> QED
  BY <1>2, <1>3

\* Whatever the range, the loop carries the trading days before the day.
LEMMA PriorsCarry ==
  ASSUME RegimeTypeOK, NEW from \in Nat, NEW to \in Nat, from <= to,
         NEW d \in from .. (to + 1)
  PROVE  Carries(Priors(from, to)[d], from, d)
<1> DEFINE P == Priors(from, to)
           T == {k \in Nat : from + k <= to + 1 /\ ~ Carries(P[from + k], from, from + k)}
<1>1. \A e \in from .. (to + 1) : P[e] = Turn(P, from, e)
  BY PriorsThread DEF Threads
<1> HIDE DEF P
<1>2. ASSUME T # {}
      PROVE  FALSE
  <2>1. PICK k \in T : \A m \in T : k <= m
    BY <1>2, LeastNatural
  <2>2. k \in Nat /\ from + k \in from .. (to + 1)
    OBVIOUS
  <2>3. ~ Carries(P[from + k], from, from + k)
    OBVIOUS
  <2>4. CASE k = 0
    <3>1. P[from] = <<>>
      BY <1>1, <2>2, <2>4 DEF Turn
    <3>2. bars[Spy] \subseteq Nat /\ Window \in Nat \ {0}
      BY TradingDays, RegimeAssumption
    <3>3. Carries(<<>>, from, from)
      BY <3>2 DEF Carries
    <3> QED
      BY <2>3, <2>4, <3>1, <3>3
  <2>5. CASE k # 0
    <3>1. PICK e \in Nat : e = from + (k - 1)
      BY <2>2, <2>5
    <3>2. from <= e /\ e + 1 = from + k /\ from + k # from /\ (from + k) - 1 = e
      BY <2>2, <2>5, <3>1
    <3>3. k - 1 \in Nat /\ k - 1 \notin T /\ from + (k - 1) <= to + 1
      BY <2>1, <2>2, <2>5
    <3>4. Carries(P[e], from, e)
      BY <3>1, <3>3
    <3>5. P[from + k] = IF e \notin bars[Spy] THEN P[e]
                        ELSE LastOf(Append(P[e], Fires(e)), Window - 1)
      BY <1>1, <2>2, <3>2 DEF Turn
    <3>6. Carries(P[from + k], from, e + 1)
      BY <3>2, <3>4, <3>5, CarriesOn
    <3> QED
      BY <2>3, <3>2, <3>6
  <2> QED
    BY <2>4, <2>5
<1>3. PICK k \in Nat : d = from + k /\ from + k <= to + 1
  <2>1. d - from \in Nat /\ d = from + (d - from)
    OBVIOUS
  <2> QED
    BY <2>1
<1>4. k \notin T
  BY <1>2
<1> QED
  BY <1>3, <1>4 DEF P

-------------------------------------------------------------------------------
(* The row that a range gives a day.                                         *)

LEMMA WindowDaysOf ==
  ASSUME RegimeTypeOK, NEW d \in bars[Spy], NEW e \in bars[Spy]
  PROVE  e \in WindowOf(d) <=>
           \/ e = d
           \/ e < d /\ Cardinality(Between(e, d)) < Window - 1
<1>1. bars[Spy] \subseteq Nat /\ Window \in Nat \ {0} /\ d \in Nat /\ e \in Nat
  BY TradingDays, RegimeAssumption
<1>2. {f \in bars[Spy] : e < f /\ f <= d} = Between(e, d + 1)
  BY <1>1 DEF Between
<1>3. e \in WindowOf(d) <=> e <= d /\ Cardinality(Between(e, d + 1)) < Window
  BY <1>2 DEF WindowOf
<1>4. CASE e = d
  BY <1>1, <1>3, <1>4, BetweenCounts
<1>5. CASE e < d
  <2>1. /\ Cardinality(Between(e, d)) \in Nat
        /\ Cardinality(Between(e, d + 1)) = Cardinality(Between(e, d)) + 1
    BY <1>1, <1>5, BetweenCounts
  <2> QED
    BY <1>1, <1>3, <1>5, <2>1
<1>6. CASE e > d
  BY <1>1, <1>3, <1>6
<1> QED
  BY <1>1, <1>4, <1>5, <1>6

LEMMA FiresAreFiring ==
  ASSUME RegimeTypeOK, NEW d \in bars[Spy]
  PROVE  Fires(d) = Firing({d})
<1>1. Fires(d) \in SUBSET Categories
  BY FiresType
<1> QED
  BY <1>1 DEF Fires, Firing

\* A row says what fired on the trading days of its window that lie in the range.
LEMMA RangeRow ==
  ASSUME RegimeTypeOK, NEW from \in Nat, NEW to \in Nat,
         NEW d \in bars[Spy], from <= d, d <= to
  PROVE  LET row == ClassifyRange(from, to)[d]
         IN  /\ row.fires = Firing({d})
             /\ row.fires5d = Firing(WindowOf(d) \cap (from .. d))
             /\ row.regime = RegimeOf(row.fires, row.fires5d)
             /\ row \in RegimeRow
<1> DEFINE p == Priors(from, to)[d]
           a == Append(p, Fires(d))
           q == LastOf(a, Window)
           five == UNION ToSet(q)
           row == ClassifyRange(from, to)[d]
<1>1. /\ bars[Spy] \subseteq Nat /\ Window \in Nat \ {0}
      /\ d \in MarketDays /\ d \in from .. to /\ from <= to
  BY TradingDays, RegimeAssumption DEF RegimeTypeOK, MarketDays
<1>2. row = Classify(d, p)
  BY <1>1 DEF ClassifyRange
<1>3. /\ row.fires = Fires(d) /\ row.fires5d = five
      /\ row.regime = RegimeOf(Fires(d), five)
      /\ row = [regime |-> RegimeOf(Fires(d), five), fires |-> Fires(d),
                fires5d |-> five, missing |-> {c \in Categories : d \notin bars[c]}]
  BY <1>2 DEF Classify
<1>4. Carries(p, from, d)
  BY <1>1, PriorsCarry
<1> HIDE DEF row, p
<1>5. /\ a \in Seq(SUBSET Categories) /\ Len(a) = Len(p) + 1
      /\ \A i \in 1 .. Len(p) : a[i] = p[i]
      /\ a[Len(p) + 1] = Fires(d) /\ Len(p) \in Nat /\ Len(p) < Window
  BY <1>4, FiresType, AppendProperties DEF Carries
<1> HIDE DEF a
<1>6. /\ q \in Seq(SUBSET Categories) /\ Len(q) = Len(a)
      /\ \A k \in 0 .. (Len(q) - 1) : q[Len(q) - k] = a[Len(a) - k]
  <2>1. /\ q \in Seq(SUBSET Categories)
        /\ Len(q) = IF Len(a) > Window THEN Window ELSE Len(a)
        /\ \A k \in 0 .. (Len(q) - 1) : q[Len(q) - k] = a[Len(a) - k]
    BY <1>1, <1>5, LastOfIs
  <2> HIDE DEF q
  <2> QED
    BY <1>1, <1>5, <2>1
<1> HIDE DEF q
<1>7. ASSUME NEW i \in 1 .. (Len(p) + 1)
      PROVE  q[i] = a[i]
  <2>1. PICK k \in 0 .. (Len(q) - 1) : Len(q) - k = i
    <3>1. Len(q) - i \in 0 .. (Len(q) - 1) /\ Len(q) - (Len(q) - i) = i
      BY <1>5, <1>6
    <3> QED
      BY <3>1
  <2> QED
    BY <1>6, <2>1
<1>8. \A c : c \in five <=> \E i \in 1 .. (Len(p) + 1) : c \in a[i]
  <2>1. DOMAIN q = 1 .. (Len(p) + 1)
    BY <1>5, <1>6
  <2>2. ToSet(q) = {q[i] : i \in 1 .. (Len(p) + 1)}
    BY <2>1 DEF ToSet
  <2> QED
    BY <1>7, <2>2
<1> HIDE DEF five
<1>9. ASSUME NEW c \in five
      PROVE  c \in Firing(WindowOf(d) \cap (from .. d))
  <2>1. PICK e \in bars[Spy] : e \in WindowOf(d) /\ e \in from .. d /\ c \in Fires(e)
    <3>1. PICK i \in 1 .. (Len(p) + 1) : c \in a[i]
      BY <1>8
    <3>2. CASE i = Len(p) + 1
      <4>1. d \in WindowOf(d)
        BY WindowDaysOf
      <4> QED
        BY <1>1, <1>5, <3>1, <3>2, <4>1
    <3>3. CASE i # Len(p) + 1
      <4>1. i \in 1 .. Len(p) /\ a[i] = p[i]
        BY <1>5, <3>3
      <4>2. PICK e \in bars[Spy] :
              /\ from <= e /\ e < d /\ Cardinality(Between(e, d)) = Len(p) - i
              /\ p[i] = Fires(e)
        BY <1>4, <4>1 DEF Carries
      <4>3. Cardinality(Between(e, d)) < Window - 1
        BY <1>1, <1>5, <4>1, <4>2
      <4>4. e \in WindowOf(d) /\ e \in from .. d
        BY <1>1, <4>2, <4>3, WindowDaysOf
      <4> QED
        BY <3>1, <4>1, <4>2, <4>4
    <3> QED
      BY <3>2, <3>3
  <2>2. c \in Firing({e})
    BY <2>1, FiresAreFiring
  <2> QED
    BY <2>1, <2>2 DEF Firing
<1>10. ASSUME NEW c \in Firing(WindowOf(d) \cap (from .. d))
       PROVE  c \in five
  <2>1. PICK e \in WindowOf(d) \cap (from .. d) : c \in Firing({e})
    BY DEF Firing
  <2>2. e \in bars[Spy] /\ from <= e
    BY DEF WindowOf
  <2>3. c \in Fires(e)
    BY <2>1, <2>2, FiresAreFiring
  <2>4. CASE e = d
    BY <1>5, <1>8, <2>3, <2>4
  <2>5. CASE e # d
    <3>1. e < d /\ Cardinality(Between(e, d)) < Window - 1
      BY <2>2, <2>5, WindowDaysOf
    <3>2. PICK k \in Nat : k = Cardinality(Between(e, d))
      BY <1>1, <2>2, BetweenCounts
    <3>3. k < Len(p) /\ p[Len(p) - k] = Fires(e)
      BY <1>4, <2>2, <3>1, <3>2 DEF Carries
    <3>4. Len(p) - k \in 1 .. Len(p)
      BY <1>5, <3>3
    <3>5. a[Len(p) - k] = Fires(e) /\ Len(p) - k \in 1 .. (Len(p) + 1)
      BY <1>5, <3>3, <3>4
    <3> QED
      BY <1>8, <2>3, <3>5
  <2> QED
    BY <2>4, <2>5
<1>11. five = Firing(WindowOf(d) \cap (from .. d))
  BY <1>9, <1>10
<1>12. row \in RegimeRow
  <2>1. RegimeOf(Fires(d), five) \in Regimes
    BY DEF RegimeOf, Regimes
  <2>2. five \in SUBSET Categories /\ Fires(d) \in SUBSET Categories
    BY <1>11, FiresType DEF Firing
  <2> QED
    BY <1>3, <2>1, <2>2 DEF RegimeRow
<1> QED
  BY <1>3, <1>11, <1>12, FiresAreFiring DEF row

-------------------------------------------------------------------------------
(* The invariant.                                                            *)

\* A source has every bar up to some day, but for those it will never have.
BarsAreWhole ==
  \A s \in Sources : \E k \in 0 .. marketDay : bars[s] = (1 .. k) \ holes[s]

HolesArePast == \A s \in Sources : holes[s] \subseteq 1 .. marketDay

RowsAreOfTradingDays ==
  \A d \in MarketDays : regimeRows[d] # NoRow => d \in bars[Spy]

RegimeInv ==
  /\ RegimeTypeOK /\ BarsAreWhole /\ HolesArePast
  /\ RowsAreOfTradingDays /\ NeverOverstated

\* What a fetch of the sources in S does: bars are added behind the last, none between.
LEMMA UpToDateGrows ==
  ASSUME RegimeTypeOK, BarsAreWhole, HolesArePast, NEW S, UpToDate(S),
         UNCHANGED <<marketDay, holes>>
  PROVE  /\ \A s \in Sources :
              /\ bars[s] \subseteq bars'[s]
              /\ \E k \in 0 .. marketDay : bars'[s] = (1 .. k) \ holes[s]
              /\ \A d \in bars[s], e \in bars'[s] : e <= d => e \in bars[s]
         /\ bars' \in [Sources -> SUBSET (1 .. marketDay)]
<1>1. marketDay \in Nat
  BY RegimeAssumption DEF RegimeTypeOK
<1>2. ASSUME NEW s \in Sources
      PROVE  /\ bars[s] \subseteq bars'[s]
             /\ \E k \in 0 .. marketDay : bars'[s] = (1 .. k) \ holes[s]
             /\ \A d \in bars[s], e \in bars'[s] : e <= d => e \in bars[s]
  <2>1. PICK k \in 0 .. marketDay : bars[s] = (1 .. k) \ holes[s]
    BY DEF BarsAreWhole
  <2>2. CASE s \in S
    <3>1. bars'[s] = (1 .. marketDay) \ holes[s]
      BY <2>2 DEF UpToDate
    <3>2. marketDay \in 0 .. marketDay
      BY <1>1
    <3> QED
      BY <1>1, <2>1, <3>1, <3>2
  <2>3. CASE s \notin S
    <3>1. bars'[s] = bars[s]
      BY <2>3 DEF UpToDate
    <3> QED
      BY <2>1, <3>1
  <2> QED
    BY <2>2, <2>3
<1>3. bars' \in [Sources -> SUBSET (1 .. marketDay)]
  BY DEF UpToDate, RegimeTypeOK
<1> QED
  BY <1>2, <1>3

\* What every step does to the bars there are and to what fires on them.
BarsGrow ==
  /\ \A s \in Sources : bars[s] \subseteq bars'[s]
  /\ \A d \in bars[Spy], e \in bars'[Spy] : e <= d => e \in bars[Spy]
  /\ \A s \in Sources : \A e \in bars[s] : firings'[e] = firings[e]

\* A step leaves the rows alone, or classifies a range of past days.
Classifies(from, to) ==
  /\ from <= to /\ regimeRows' = ClassifyRange(from, to)
  /\ UNCHANGED <<marketDay, firings, holes, bars, faults>>

LEMMA LatestDayIsADay ==
  ASSUME RegimeTypeOK, LatestDay # 0
  PROVE  /\ LatestDay \in Nat
         /\ \A s \in Reporting : LatestDay <= Max(bars[s]) /\ Max(bars[s]) \in bars[s]
<1> DEFINE M == {Max(bars[s]) : s \in Reporting}
<1>1. marketDay \in Nat
  BY RegimeAssumption DEF RegimeTypeOK
<1>2. ASSUME NEW s \in Reporting
      PROVE  Max(bars[s]) \in bars[s] /\ Max(bars[s]) \in Nat
  <2>1. bars[s] \in SUBSET (0 .. marketDay) /\ bars[s] # {}
    BY <1>1 DEF Reporting, Candles, RegimeTypeOK
  <2>2. Max(bars[s]) \in bars[s]
    BY <1>1, <2>1, MaxIsGreatest
  <2> QED
    BY <2>1, <2>2
<1>3. Reporting # {} /\ LatestDay = Min(M)
  BY DEF LatestDay
<1>4. M \in SUBSET Nat /\ M # {}
  BY <1>2, <1>3
<1>5. \A s \in Reporting : Max(bars[s]) \in M
  OBVIOUS
<1> HIDE DEF M
<1>6. Min(M) \in M /\ \A n \in M : Min(M) <= n
  BY <1>4, MinIsLeast
<1> QED
  BY <1>2, <1>3, <1>4, <1>5, <1>6

LEMMA RegimeSteps ==
  ASSUME RegimeTypeOK, BarsAreWhole, HolesArePast, [RegimeNext]_regimeVars
  PROVE  /\ BarsGrow
         /\ \/ regimeRows' = regimeRows
            \/ \E from, to \in Nat : Classifies(from, to)
<1>1. CASE NextMarketDay
  <2>1. bars' = bars /\ regimeRows' = regimeRows
    BY <1>1 DEF NextMarketDay
  <2>2. \A s \in Sources : \A e \in bars[s] : e \in Nat /\ e # marketDay + 1 /\ e \in MarketDays
    BY RegimeAssumption DEF RegimeTypeOK, MarketDays
  <2>3. PICK C \in SUBSET Categories : firings' = [firings EXCEPT ![marketDay + 1] = C]
    BY <1>1 DEF NextMarketDay
  <2>4. \A s \in Sources : \A e \in bars[s] : firings'[e] = firings[e]
    BY <2>2, <2>3 DEF RegimeTypeOK
  <2> QED
    BY <2>1, <2>4 DEF BarsGrow
<1>2. CASE Fetch \/ FetchFails
  <2>1. \E S : UpToDate(S)
    BY <1>2 DEF Fetch, FetchFails
  <2>2. UNCHANGED <<marketDay, holes, firings, regimeRows>>
    BY <1>2 DEF Fetch, FetchFails
  <2>3. \A s \in Sources :
          /\ bars[s] \subseteq bars'[s]
          /\ \A d \in bars[s], e \in bars'[s] : e <= d => e \in bars[s]
    BY <2>1, <2>2, UpToDateGrows
  <2>4. Spy \in Sources
    BY DEF Sources
  <2> QED
    BY <2>2, <2>3, <2>4 DEF BarsGrow
<1>3. CASE ClassifyLatest
  <2>1. LatestDay \in Nat /\ LatestDay <= LatestDay
    BY <1>3, LatestDayIsADay DEF ClassifyLatest
  <2>2. Classifies(LatestDay, LatestDay)
    BY <1>3, <2>1 DEF ClassifyLatest, Classifies
  <2>3. BarsGrow
    BY <1>3 DEF ClassifyLatest, BarsGrow
  <2> QED
    BY <2>1, <2>2, <2>3
<1>4. ASSUME NEW to \in 1 .. marketDay, NEW from \in 1 .. to, Backfill(from, to)
      PROVE  BarsGrow /\ \E f, t \in Nat : Classifies(f, t)
  <2>1. from \in Nat /\ to \in Nat /\ from <= to
    BY RegimeAssumption DEF RegimeTypeOK
  <2>2. Classifies(from, to) /\ BarsGrow
    BY <1>4, <2>1 DEF Backfill, Classifies, BarsGrow
  <2> QED
    BY <2>1, <2>2
<1>5. CASE UNCHANGED regimeVars
  BY <1>5 DEF regimeVars, BarsGrow
<1> QED
  BY <1>1, <1>2, <1>3, <1>4, <1>5 DEF RegimeNext

\* A range writes rows on trading days and leaves the others as they were.
LEMMA RangeRows ==
  ASSUME RegimeTypeOK, NEW from \in Nat, NEW to \in Nat, from <= to,
         NEW d \in MarketDays
  PROVE  LET row == ClassifyRange(from, to)[d]
         IN  \/ row = regimeRows[d]
             \/ /\ d \in bars[Spy] /\ row \in RegimeRow
                /\ row.fires = Firing({d})
                /\ row.fires5d \subseteq Firing(WindowOf(d))
                /\ row.regime = RegimeOf(row.fires, row.fires5d)
<1>1. CASE d \in from .. to /\ d \in bars[Spy]
  <2>1. from <= d /\ d <= to
    BY <1>1
  <2>2. Firing(WindowOf(d) \cap (from .. d)) \subseteq Firing(WindowOf(d))
    BY DEF Firing
  <2> QED
    BY <1>1, <2>1, <2>2, RangeRow
<1>2. CASE ~ (d \in from .. to /\ d \in bars[Spy])
  BY <1>2 DEF ClassifyRange
<1> QED
  BY <1>1, <1>2

LEMMA RegimeTypeStep ==
  ASSUME RegimeTypeOK, BarsAreWhole, HolesArePast, [RegimeNext]_regimeVars
  PROVE  RegimeTypeOK' /\ BarsAreWhole' /\ HolesArePast'
<1>1. CASE NextMarketDay
  <2>1. /\ marketDay \in Nat /\ marketDay' = marketDay + 1 /\ marketDay + 1 \in MarketDays
        /\ marketDay' \in 0 .. LastMarketDay
        /\ bars' = bars /\ regimeRows' = regimeRows
    BY <1>1, RegimeAssumption DEF NextMarketDay, RegimeTypeOK, MarketDays
  <2>2. firings' \in [MarketDays -> SUBSET Categories]
    BY <1>1 DEF NextMarketDay, RegimeTypeOK
  <2>3. faults' \in 0 .. MaxRegimeFaults
    BY <1>1, RegimeAssumption DEF NextMarketDay, RegimeTypeOK
  <2>4. /\ holes' \in [Sources -> SUBSET MarketDays]
        /\ \A s \in Sources : holes'[s] \in {holes[s], holes[s] \cup {marketDay + 1}}
    <3>1. CASE UNCHANGED holes
      BY <3>1 DEF RegimeTypeOK
    <3>2. CASE \E s \in Sources : holes' = [holes EXCEPT ![s] = @ \cup {marketDay + 1}]
      BY <2>1, <3>2 DEF RegimeTypeOK
    <3> QED
      BY <1>1, <3>1, <3>2 DEF NextMarketDay
  <2>5. bars' \in [Sources -> SUBSET (1 .. marketDay')]
    BY <2>1 DEF RegimeTypeOK
  <2>6. ASSUME NEW s \in Sources
        PROVE  /\ holes'[s] \subseteq 1 .. marketDay'
               /\ \E k \in 0 .. marketDay' : bars'[s] = (1 .. k) \ holes'[s]
    <3>1. PICK k \in 0 .. marketDay : bars[s] = (1 .. k) \ holes[s]
      BY DEF BarsAreWhole
    <3>2. (1 .. k) \ holes[s] = (1 .. k) \ holes'[s]
      BY <2>1, <2>4
    <3>3. holes[s] \subseteq 1 .. marketDay
      BY DEF HolesArePast
    <3>4. k \in 0 .. marketDay'
      BY <2>1
    <3> QED
      BY <2>1, <2>4, <3>1, <3>2, <3>3, <3>4
  <2> QED
    BY <2>1, <2>2, <2>3, <2>4, <2>5, <2>6 DEF RegimeTypeOK, BarsAreWhole, HolesArePast
<1>2. CASE Fetch \/ FetchFails
  <2>1. \E S : UpToDate(S)
    BY <1>2 DEF Fetch, FetchFails
  <2>2. UNCHANGED <<marketDay, holes, firings, regimeRows>> /\ faults' \in 0 .. MaxRegimeFaults
    BY <1>2, RegimeAssumption DEF Fetch, FetchFails, RegimeTypeOK
  <2>3. /\ \A s \in Sources : \E k \in 0 .. marketDay : bars'[s] = (1 .. k) \ holes[s]
        /\ bars' \in [Sources -> SUBSET (1 .. marketDay)]
    BY <2>1, <2>2, UpToDateGrows
  <2> QED
    BY <2>2, <2>3 DEF RegimeTypeOK, BarsAreWhole, HolesArePast
<1>3. ASSUME NEW from \in Nat, NEW to \in Nat, Classifies(from, to)
      PROVE  RegimeTypeOK' /\ BarsAreWhole' /\ HolesArePast'
  <2>1. UNCHANGED <<marketDay, firings, holes, bars, faults>> /\ from <= to
    BY <1>3 DEF Classifies
  <2>2. \A d \in MarketDays : ClassifyRange(from, to)[d] \in RegimeRow \cup {NoRow}
    BY <2>1, RangeRows DEF RegimeTypeOK
  <2>3. regimeRows' \in [MarketDays -> RegimeRow \cup {NoRow}]
    <3>1. regimeRows' = [d \in MarketDays |-> ClassifyRange(from, to)[d]]
      BY <1>3 DEF Classifies, ClassifyRange
    <3> QED
      BY <2>2, <3>1
  <2> QED
    BY <2>1, <2>3 DEF RegimeTypeOK, BarsAreWhole, HolesArePast
<1>4. CASE regimeVars' = regimeVars
  BY <1>4 DEF regimeVars, RegimeTypeOK, BarsAreWhole, HolesArePast
<1>5. CASE ClassifyLatest \/ \E to \in 1 .. marketDay : \E from \in 1 .. to : Backfill(from, to)
  <2>1. \E from, to \in Nat : Classifies(from, to)
    <3>1. CASE ClassifyLatest
      <4>1. LatestDay \in Nat /\ LatestDay <= LatestDay
        BY <3>1, LatestDayIsADay DEF ClassifyLatest
      <4> QED
        BY <3>1, <4>1 DEF ClassifyLatest, Classifies
    <3>2. ASSUME NEW to \in 1 .. marketDay, NEW from \in 1 .. to, Backfill(from, to)
          PROVE  \E f, t \in Nat : Classifies(f, t)
      <4>1. from \in Nat /\ to \in Nat /\ from <= to
        BY RegimeAssumption DEF RegimeTypeOK
      <4> QED
        BY <3>2, <4>1 DEF Backfill, Classifies
    <3> QED
      BY <1>5, <3>1, <3>2
  <2> QED
    BY <1>3, <2>1
<1> QED
  BY <1>1, <1>2, <1>4, <1>5 DEF RegimeNext

-------------------------------------------------------------------------------
(* Rows stay justified: a window once formed never changes, and what fires   *)
(* in it never stops doing so.                                               *)

LEMMA WindowKept ==
  ASSUME RegimeTypeOK, BarsGrow, NEW d \in bars[Spy]
  PROVE  WindowOf(d)' = WindowOf(d)
<1>1. \A e : e \in bars[Spy] /\ e <= d <=> e \in bars'[Spy] /\ e <= d
  BY DEF BarsGrow, Sources
<1>2. \A e : {f \in bars[Spy] : e < f /\ f <= d} = {f \in bars'[Spy] : e < f /\ f <= d}
  BY <1>1
<1> QED
  BY <1>1, <1>2 DEF WindowOf

LEMMA FiringGrows ==
  ASSUME RegimeTypeOK, BarsGrow, NEW d \in bars[Spy]
  PROVE  /\ Firing(WindowOf(d)) \subseteq Firing(WindowOf(d))'
         /\ Firing({d}) \subseteq Firing({d})'
<1>1. WindowOf(d)' = WindowOf(d)
  BY WindowKept
<1>2. \A c \in Categories : \A e \in bars[c] : e \in bars'[c] /\ firings'[e] = firings[e]
  BY DEF BarsGrow, Sources
<1>3. Firing({d}) \subseteq Firing({d})'
  BY <1>2 DEF Firing
<1>4. Firing(WindowOf(d)) \subseteq Firing(WindowOf(d))'
  <2>1. \A c \in Categories :
          (\E e \in WindowOf(d) \cap bars[c] : c \in firings[e])
            => \E e \in WindowOf(d)' \cap bars'[c] : c \in firings'[e]
    BY <1>1, <1>2
  <2> QED
    BY <2>1 DEF Firing
<1> QED
  BY <1>3, <1>4

LEMMA Counted ==
  ASSUME NEW A \in SUBSET Categories, NEW B \in SUBSET A
  PROVE  /\ IsFiniteSet(A) /\ Cardinality(A) \in Nat /\ Cardinality(B) \in Nat
         /\ Cardinality(B) <= Cardinality(A)
<1>1. IsFiniteSet(A) /\ IsFiniteSet(B) /\ Cardinality(B) <= Cardinality(A)
  BY RegimeAssumption, FS_Subset
<1> QED
  BY <1>1, FS_CardinalityType

\* The bars of the window of d justify the row.
Justified(row, d) ==
  /\ row.fires5d \subseteq Firing(WindowOf(d))
  /\ row.regime = "red" => Cardinality(Firing(WindowOf(d))) >= RedCount
  /\ row.regime = "orange" => Cardinality(Firing({d})) >= OrangeCount
  /\ row.regime = "yellow" => Firing({d}) # {}

\* The rule counts what it is given, so a row made from less is still justified.
LEMMA RuleJustifies ==
  ASSUME NEW d, NEW row, row.fires = Firing({d}), row.fires5d \subseteq Firing(WindowOf(d)),
         row.regime = RegimeOf(row.fires, row.fires5d)
  PROVE  Justified(row, d)
<1>1. Firing(WindowOf(d)) \in SUBSET Categories /\ Firing({d}) \in SUBSET Categories
  BY DEF Firing
<1>2. /\ Cardinality(row.fires5d) \in Nat /\ Cardinality(Firing(WindowOf(d))) \in Nat
      /\ Cardinality(row.fires5d) <= Cardinality(Firing(WindowOf(d)))
      /\ Cardinality(Firing({d})) \in Nat
  BY <1>1, Counted
<1>3. CASE Cardinality(row.fires5d) >= RedCount
  <2>1. row.regime = "red"
    BY <1>2, <1>3, RegimeAssumption DEF RegimeOf
  <2>2. Cardinality(Firing(WindowOf(d))) >= RedCount
    BY <1>2, <1>3, RegimeAssumption
  <2> QED
    BY <2>1, <2>2 DEF Justified
<1>4. CASE Cardinality(row.fires5d) < RedCount
  <2>1. row.regime # "red"
    BY <1>2, <1>4, RegimeAssumption DEF RegimeOf
  <2>2. row.regime = "orange" => Cardinality(Firing({d})) >= OrangeCount
    BY <1>2, <1>4, RegimeAssumption DEF RegimeOf
  <2>3. row.regime = "yellow" => Cardinality(Firing({d})) = 1
    BY <1>2, <1>4, RegimeAssumption DEF RegimeOf
  <2>4. row.regime = "yellow" => Firing({d}) # {}
    BY <2>3, FS_EmptySet
  <2> QED
    BY <2>1, <2>2, <2>4 DEF Justified
<1> QED
  BY <1>2, <1>3, <1>4, RegimeAssumption

LEMMA RowStaysJustified ==
  ASSUME RegimeTypeOK, BarsGrow, NEW d \in bars[Spy], NEW row, Justified(row, d)
  PROVE  Justified(row, d)'
<1>1. /\ Firing(WindowOf(d)) \subseteq Firing(WindowOf(d))'
      /\ Firing({d}) \subseteq Firing({d})'
  BY FiringGrows
<1>2. Firing(WindowOf(d))' \in SUBSET Categories /\ Firing({d})' \in SUBSET Categories
  BY DEF Firing
<1>3. /\ Cardinality(Firing(WindowOf(d))) <= Cardinality(Firing(WindowOf(d))')
      /\ Cardinality(Firing({d})) <= Cardinality(Firing({d})')
      /\ Cardinality(Firing(WindowOf(d))) \in Nat /\ Cardinality(Firing(WindowOf(d))') \in Nat
      /\ Cardinality(Firing({d})) \in Nat /\ Cardinality(Firing({d})') \in Nat
  BY <1>1, <1>2, Counted
<1> QED
  BY <1>1, <1>3, RegimeAssumption DEF Justified

LEMMA RowsStep ==
  ASSUME RegimeInv, [RegimeNext]_regimeVars
  PROVE  RowsAreOfTradingDays' /\ NeverOverstated'
<1>1. /\ BarsGrow
      /\ regimeRows' = regimeRows \/ \E from, to \in Nat : Classifies(from, to)
  BY RegimeSteps DEF RegimeInv
<1>2. RegimeTypeOK /\ RegimeTypeOK'
  BY RegimeTypeStep DEF RegimeInv
<1> SUFFICES ASSUME NEW d \in MarketDays
             PROVE  /\ regimeRows'[d] # NoRow => d \in bars'[Spy]
                    /\ Justified(regimeRows[d], d)'
  BY DEF RowsAreOfTradingDays, NeverOverstated, Justified
<1>3. regimeRows[d] # NoRow => d \in bars[Spy]
  BY DEF RegimeInv, RowsAreOfTradingDays
<1>4. Justified(regimeRows[d], d)
  BY DEF RegimeInv, NeverOverstated, Justified
<1>5. \/ regimeRows'[d] = regimeRows[d]
      \/ d \in bars[Spy] /\ Justified(regimeRows'[d], d)
  <2>1. ASSUME NEW from \in Nat, NEW to \in Nat, Classifies(from, to)
        PROVE  \/ regimeRows'[d] = regimeRows[d]
               \/ d \in bars[Spy] /\ Justified(regimeRows'[d], d)
    <3>1. from <= to /\ regimeRows'[d] = ClassifyRange(from, to)[d]
      BY <2>1 DEF Classifies
    <3> QED
      BY <1>2, <3>1, RangeRows, RuleJustifies
  <2> QED
    BY <1>1, <2>1
<1>6. CASE d \in bars[Spy]
  <2>1. Justified(regimeRows'[d], d)
    BY <1>4, <1>5
  <2>2. d \in bars'[Spy]
    BY <1>1, <1>6 DEF BarsGrow, Sources
  <2>3. PICK row : row = regimeRows'[d]
    OBVIOUS
  <2>4. Justified(row, d)'
    BY <1>1, <1>2, <1>6, <2>1, <2>3, RowStaysJustified
  <2> QED
    BY <2>2, <2>3, <2>4 DEF Justified
<1>7. CASE d \notin bars[Spy]
  <2>1. regimeRows'[d] = NoRow
    BY <1>3, <1>5, <1>7
  <2> QED
    BY <2>1 DEF Justified, NoRow
<1> QED
  BY <1>6, <1>7

LEMMA RegimeInitInv ==
  ASSUME RegimeInit
  PROVE  RegimeInv
<1>1. RegimeTypeOK
  BY RegimeAssumption DEF RegimeInit, RegimeTypeOK
<1>2. BarsAreWhole
  <2>1. 0 \in 0 .. marketDay
    BY DEF RegimeInit
  <2>2. \A s \in Sources : bars[s] = (1 .. 0) \ holes[s]
    BY DEF RegimeInit
  <2> QED
    BY <2>1, <2>2 DEF BarsAreWhole
<1>3. HolesArePast /\ RowsAreOfTradingDays
  BY DEF RegimeInit, HolesArePast, RowsAreOfTradingDays
<1>4. NeverOverstated
  BY DEF RegimeInit, NeverOverstated, NoRow
<1> QED
  BY <1>1, <1>2, <1>3, <1>4 DEF RegimeInv

LEMMA RegimeInvStep ==
  ASSUME RegimeInv, [RegimeNext]_regimeVars
  PROVE  RegimeInv'
<1>1. RegimeTypeOK' /\ BarsAreWhole' /\ HolesArePast'
  BY RegimeTypeStep DEF RegimeInv
<1>2. RowsAreOfTradingDays' /\ NeverOverstated'
  BY RowsStep
<1> QED
  BY <1>1, <1>2 DEF RegimeInv

\* The bars of a source end at some day and lack only its holes, a row is of a
\* trading day, and no row overstates its day: all of it stays so under every
\* fetch, daily run and backfill, for any categories, counts, window and faults
\* (backfillMacroRegimesV3, classifyLatestMacroRegimeV3).
THEOREM RegimeInvariant == RegimeSpec => []RegimeInv
<1>1. RegimeInit => RegimeInv
  BY RegimeInitInv
<1>2. RegimeInv /\ [RegimeNext]_regimeVars => RegimeInv'
  BY RegimeInvStep
<1> QED
  BY <1>1, <1>2, PTL DEF RegimeSpec

\* The tables and the bars keep the shape of their schemas.
THEOREM RegimeTypeCorrect == RegimeSpec => []RegimeTypeOK
<1>1. RegimeInv => RegimeTypeOK
  BY DEF RegimeInv
<1> QED
  BY <1>1, RegimeInvariant, PTL

\* No row of macro_regimes ever shows a regime, or a category of the last days,
\* that the bars of the day's window do not justify: late bars, holes, ranges
\* that begin inside the window and daily runs only ever hide a category
\* (classifyMacroRegimeV3).
THEOREM RegimeNeverOverstated == RegimeSpec => []NeverOverstated
<1>1. RegimeInv => NeverOverstated
  BY DEF RegimeInv
<1> QED
  BY <1>1, RegimeInvariant, PTL

\* A backfill over a range that holds a day's window makes the day's row from
\* exactly the trading days of the window, whatever the gaps in the calendar and
\* however long the range: the days the loop threads from turn to turn are the
\* right ones (classifyDateRangeFromBundleV3, prior_days_fires).
THEOREM BackfillsAreReference == RegimeSpec => []BackfillIsReference
<1>1. ASSUME RegimeTypeOK
      PROVE  BackfillIsReference
  <2> SUFFICES ASSUME NEW from \in 1 .. marketDay,
                      NEW d \in bars[Spy] \cap (from .. marketDay),
                      WindowOf(d) \subseteq from .. d
               PROVE  LET row == ClassifyRange(from, marketDay)[d]
                      IN  row.fires5d = Firing(WindowOf(d)) /\ row.fires = Firing({d})
    BY DEF BackfillIsReference
  <2>1. from \in Nat /\ marketDay \in Nat /\ d \in bars[Spy] /\ from <= d /\ d <= marketDay
    BY <1>1, TradingDays
  <2>2. WindowOf(d) \cap (from .. d) = WindowOf(d)
    OBVIOUS
  <2> QED
    BY <1>1, <2>1, <2>2, RangeRow
<1> QED
  BY <1>1, RegimeTypeCorrect, PTL

\* The day the daily run classifies is one that every candle source has a bar
\* for, or will never have one for, or the source has no bars at all: the query
\* for the newest complete day never lets it run ahead of a late source
\* (classifyLatestMacroRegimeV3).
THEOREM DailyRowsAreComplete == RegimeSpec => []DailyRowIsComplete
<1>1. ASSUME RegimeTypeOK, BarsAreWhole
      PROVE  DailyRowIsComplete
  <2> SUFFICES ASSUME LatestDay \in bars[Spy], NEW c \in Categories \ Soft, bars[c] # {}
               PROVE  LatestDay \in bars[c] \cup holes[c]
    BY DEF DailyRowIsComplete
  <2>1. bars[Spy] \subseteq 1 .. marketDay /\ marketDay \in Nat
    BY <1>1, TradingDays
  <2>2. LatestDay # 0 /\ LatestDay \in 1 .. marketDay
    BY <2>1
  <2>3. c \in Reporting /\ c \in Sources
    BY DEF Reporting, Candles, Sources
  <2>4. LatestDay <= Max(bars[c]) /\ Max(bars[c]) \in bars[c]
    BY <1>1, <2>2, <2>3, LatestDayIsADay
  <2>5. PICK k \in 0 .. marketDay : bars[c] = (1 .. k) \ holes[c]
    BY <1>1, <2>3 DEF BarsAreWhole
  <2>6. LatestDay \in 1 .. k
    BY <2>1, <2>2, <2>4, <2>5
  <2> QED
    BY <2>5, <2>6
<1>2. RegimeInv => RegimeTypeOK /\ BarsAreWhole
  BY DEF RegimeInv
<1> QED
  BY <1>1, <1>2, RegimeInvariant, PTL

\* What holds of the daily row instead of LiveRowIsBackfillRow: of two ranges the
\* one that begins later gives a day the same categories, fewer of the days before
\* it, and the same regime unless the longer one says red.
LaterStartOnlyHides ==
  \A d \in bars[Spy] : \A wide \in 1 .. d : \A narrow \in wide .. d :
    \A m \in d .. marketDay, n \in d .. marketDay :
      LET full  == ClassifyRange(wide, m)[d]
          short == ClassifyRange(narrow, n)[d]
      IN  /\ short.fires = full.fires
          /\ short.fires5d \subseteq full.fires5d
          /\ short.regime # full.regime => full.regime = "red"

\* The daily run's row and a backfill's differ in one way only: the daily one may
\* miss a red (classifyLatestMacroRegimeV3 calls the backfill for one day, which
\* starts with no prior days).
THEOREM LaterStartsOnlyHide == RegimeSpec => []LaterStartOnlyHides
<1>1. ASSUME RegimeTypeOK
      PROVE  LaterStartOnlyHides
  <2> SUFFICES ASSUME NEW d \in bars[Spy], NEW wide \in 1 .. d, NEW narrow \in wide .. d,
                      NEW m \in d .. marketDay, NEW n \in d .. marketDay
               PROVE  LET full  == ClassifyRange(wide, m)[d]
                          short == ClassifyRange(narrow, n)[d]
                      IN  /\ short.fires = full.fires
                          /\ short.fires5d \subseteq full.fires5d
                          /\ short.regime # full.regime => full.regime = "red"
    BY DEF LaterStartOnlyHides
  <2> DEFINE full  == ClassifyRange(wide, m)[d]
             short == ClassifyRange(narrow, n)[d]
  <2>1. /\ wide \in Nat /\ narrow \in Nat /\ m \in Nat /\ n \in Nat /\ d \in Nat
        /\ wide <= narrow /\ wide <= d /\ narrow <= d /\ d <= m /\ d <= n
    BY <1>1, TradingDays
  <2>2. /\ full.fires = Firing({d})
        /\ full.fires5d = Firing(WindowOf(d) \cap (wide .. d))
        /\ full.regime = RegimeOf(full.fires, full.fires5d)
    BY <1>1, <2>1, RangeRow
  <2>3. /\ short.fires = Firing({d})
        /\ short.fires5d = Firing(WindowOf(d) \cap (narrow .. d))
        /\ short.regime = RegimeOf(short.fires, short.fires5d)
    BY <1>1, <2>1, RangeRow
  <2> HIDE DEF full, short
  <2>4. short.fires5d \subseteq full.fires5d
    BY <2>1, <2>2, <2>3 DEF Firing
  <2>5. full.fires5d \in SUBSET Categories /\ full.fires \in SUBSET Categories
    BY <2>2 DEF Firing
  <2>6. /\ Cardinality(short.fires5d) \in Nat /\ Cardinality(full.fires5d) \in Nat
        /\ Cardinality(short.fires5d) <= Cardinality(full.fires5d)
        /\ Cardinality(full.fires) \in Nat
    BY <2>4, <2>5, Counted
  <2>7. CASE Cardinality(full.fires5d) >= RedCount
    <3>1. full.regime = "red"
      BY <2>2, <2>6, <2>7, RegimeAssumption DEF RegimeOf
    <3> QED
      BY <2>2, <2>3, <2>4, <3>1 DEF full, short
  <2>8. CASE Cardinality(full.fires5d) < RedCount
    <3>1. Cardinality(short.fires5d) < RedCount
      BY <2>6, <2>8, RegimeAssumption
    <3>2. short.regime = full.regime
      BY <2>2, <2>3, <2>6, <2>8, <3>1, RegimeAssumption DEF RegimeOf
    <3> QED
      BY <2>2, <2>3, <2>4, <3>2 DEF full, short
  <2> QED
    BY <2>6, <2>7, <2>8, RegimeAssumption
<1> QED
  BY <1>1, RegimeTypeCorrect, PTL

===============================================================================
