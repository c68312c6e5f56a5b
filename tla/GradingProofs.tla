---------------------------- MODULE GradingProofs ----------------------------
(***************************************************************************)
(* What the scoring passes and the auction ingest keep, for any auctions,   *)
(* bids, passes and failures: a paper bid is graded over its whole month    *)
(* once and for good, and an auction whose bids are loaded is priced.       *)
(*                                                                         *)
(* The inductive invariant is that a grade, staged or written, is the one   *)
(* grade its bid can get (Honest), up to what is not known yet.            *)
(***************************************************************************)
EXTENDS Grading, FiniteSetTheorems, WellFoundedInduction, TLAPS

-----------------------------------------------------------------------------
(* Sums over finite sets.                                                  *)

\* Every set of natural numbers has a least one.
LEMMA LeastNumber ==
    ASSUME NEW S \in SUBSET Nat, S # {}
    PROVE  \E n \in S : \A m \in S : n <= m
<1> DEFINE R == OpToRel(<, Nat)
<1>1. IsWellFoundedOn(R, Nat)
    BY NatLessThanWellFounded
<1>2. PICK n \in S : \A m \in S : <<m, n>> \notin R
  <2> HIDE DEF R
  <2> QED BY <1>1, WFMin
<1>3. ASSUME NEW m \in S PROVE n <= m
  <2>1. ~(m < n)
    BY <1>2 DEF OpToRel
  <2> QED BY <2>1
<1> QED BY <1>3

\* Induction, stated with a set.
LEMMA NatIsInductive ==
    ASSUME NEW Q \in SUBSET Nat, 0 \in Q, \A n \in Q : n + 1 \in Q
    PROVE  Q = Nat
<1> SUFFICES ASSUME Nat \ Q # {} PROVE FALSE OBVIOUS
<1>1. PICK n \in Nat \ Q : \A m \in Nat \ Q : n <= m BY LeastNumber
<1>2. n # 0 OBVIOUS
<1>3. n - 1 \in Q BY <1>1, <1>2
<1> QED BY <1>1, <1>2, <1>3

\* The sum of v over s, picking the elements one by one.
Sums(g, v, S) ==
    \A s \in S : g[s] = IF s = {} THEN 0
                        ELSE v[CHOOSE x \in s : TRUE] + g[s \ {CHOOSE x \in s : TRUE}]

\* The recursive sum is well defined over the subsets of a finite set.
LEMMA SumsExist ==
    ASSUME NEW S, IsFiniteSet(S), NEW T \in {Nat, Int}, NEW v \in [S -> T]
    PROVE  \E g \in [SUBSET S -> T] : Sums(g, v, SUBSET S)
<1> DEFINE Upto(n) == {s \in SUBSET S : Cardinality(s) <= n}
           Q == {n \in Nat : \E g \in [Upto(n) -> T] : Sums(g, v, Upto(n))}
           pick(s) == CHOOSE x \in s : TRUE
<1>1. \A s \in SUBSET S : IsFiniteSet(s) /\ Cardinality(s) \in Nat /\ Cardinality(s) <= Cardinality(S)
  BY FS_Subset, FS_CardinalityType
<1>2. \A s \in SUBSET S : s # {} => pick(s) \in s /\ pick(s) \in S /\ s \ {pick(s)} \in SUBSET S
        /\ Cardinality(s \ {pick(s)}) = Cardinality(s) - 1
  BY <1>1, FS_RemoveElement
<1>3. \A s \in SUBSET S : Cardinality(s) <= 0 <=> s = {}
  BY <1>1, FS_EmptySet
<1>4. 0 \in Q
  <2>1. Upto(0) = {{}}
    BY <1>3
  <2> DEFINE g == [s \in Upto(0) |-> 0]
  <2>2. g \in [Upto(0) -> T] /\ Sums(g, v, Upto(0))
    BY <2>1 DEF Sums
  <2> QED BY <2>2
<1>5. ASSUME NEW n \in Q PROVE n + 1 \in Q
  <2>1. PICK g \in [Upto(n) -> T] : Sums(g, v, Upto(n))
    OBVIOUS
  <2> DEFINE h == [s \in Upto(n + 1) |-> IF s = {} THEN 0 ELSE v[pick(s)] + g[s \ {pick(s)}]]
  <2>2. \A s \in Upto(n + 1) : s # {} => s \ {pick(s)} \in Upto(n)
    BY <1>1, <1>2
  <2>3. h \in [Upto(n + 1) -> T]
    <3> SUFFICES ASSUME NEW s \in Upto(n + 1) PROVE h[s] \in T
      OBVIOUS
    <3>1. CASE s = {}
      BY <3>1
    <3>2. CASE s # {}
      <4>1. v[pick(s)] \in T /\ g[s \ {pick(s)}] \in T
        BY <2>1, <2>2, <3>2, <1>2
      <4>2. h[s] = v[pick(s)] + g[s \ {pick(s)}]
        BY <3>2
      <4> HIDE DEF h, pick
      <4> QED BY <4>1, <4>2
    <3> QED BY <3>1, <3>2
  <2>4. \A s \in Upto(n) : s \in Upto(n + 1) /\ h[s] = g[s]
    <3> SUFFICES ASSUME NEW s \in Upto(n) PROVE s \in Upto(n + 1) /\ h[s] = g[s]
      OBVIOUS
    <3>1. s \in Upto(n + 1)
      BY <1>1
    <3> QED BY <2>1, <3>1 DEF Sums
  <2>5. Sums(h, v, Upto(n + 1))
    <3>1. \A s \in Upto(n + 1) : h[s] = IF s = {} THEN 0 ELSE v[pick(s)] + g[s \ {pick(s)}]
      OBVIOUS
    <3> HIDE DEF h, Upto
    <3>2. \A s \in Upto(n + 1) : h[s] = IF s = {} THEN 0 ELSE v[pick(s)] + h[s \ {pick(s)}]
      BY <2>2, <2>4, <3>1
    <3> QED BY <3>2 DEF Sums
  <2>6. n + 1 \in Nat
    OBVIOUS
  <2> HIDE DEF h
  <2> QED BY <2>3, <2>5, <2>6
<1>6. Cardinality(S) \in Q
  <2> HIDE DEF Q
  <2>1. Q \in SUBSET Nat
    BY DEF Q
  <2> QED BY <1>1, <1>4, <1>5, <2>1, NatIsInductive
<1>7. Upto(Cardinality(S)) = SUBSET S
  BY <1>1
<1> QED BY <1>6, <1>7


\* Whatever satisfies the recursion is a sum of the right type.
LEMMA SumsTyped ==
    ASSUME NEW S, IsFiniteSet(S), NEW T \in {Nat, Int}, NEW v \in [S -> T],
           NEW g, Sums(g, v, SUBSET S)
    PROVE  \A s \in SUBSET S : g[s] \in T
<1> DEFINE Q == {n \in Nat : \A s \in SUBSET S : Cardinality(s) <= n => g[s] \in T}
           pick(s) == CHOOSE x \in s : TRUE
<1>1. \A s \in SUBSET S : IsFiniteSet(s) /\ Cardinality(s) \in Nat
  BY FS_Subset, FS_CardinalityType
<1>2. \A s \in SUBSET S : s # {} => pick(s) \in s /\ pick(s) \in S /\ s \ {pick(s)} \in SUBSET S
        /\ Cardinality(s \ {pick(s)}) = Cardinality(s) - 1
  BY <1>1, FS_RemoveElement
<1>3. 0 \in Q
  <2>1. \A s \in SUBSET S : Cardinality(s) <= 0 => s = {}
    BY <1>1, FS_EmptySet
  <2>2. g[{}] \in T
    <3>1. 0 \in T /\ {} \in SUBSET S
      OBVIOUS
    <3>2. g[{}] = 0
      BY <3>1 DEF Sums
    <3> QED BY <3>1, <3>2
  <2> QED BY <2>1, <2>2
<1>4. ASSUME NEW n \in Q PROVE n + 1 \in Q
  <2>1. ASSUME NEW s \in SUBSET S, Cardinality(s) <= n + 1, s # {} PROVE g[s] \in T
    <3>1. g[s] = v[pick(s)] + g[s \ {pick(s)}]
      BY <2>1 DEF Sums
    <3>2. v[pick(s)] \in T
      BY <1>2, <2>1
    <3>3. g[s \ {pick(s)}] \in T
      BY <1>1, <1>2, <2>1
    <3> HIDE DEF pick
    <3> QED BY <3>1, <3>2, <3>3
  <2>2. g[{}] \in T
    <3>1. 0 \in T /\ {} \in SUBSET S
      OBVIOUS
    <3>2. g[{}] = 0
      BY <3>1 DEF Sums
    <3> QED BY <3>1, <3>2
  <2>3. n + 1 \in Nat
    OBVIOUS
  <2> QED BY <2>1, <2>2, <2>3
<1>5. Q = Nat
  <2> HIDE DEF Q
  <2>1. Q \in SUBSET Nat
    BY DEF Q
  <2> QED BY <1>3, <1>4, <2>1, NatIsInductive
<1> QED BY <1>1, <1>5

\* What an auction awarded is a natural number of megawatts.
LEMMA SumOfMegawatts ==
    ASSUME NEW S, IsFiniteSet(S), \A w \in S : w.mw \in Nat
    PROVE  MapThenSumSet(LAMBDA w : w.mw, S) \in Nat
<1> DEFINE v == [w \in S |-> w.mw]
           Body(f) == [s \in SUBSET S |-> IF s = {} THEN 0
                          ELSE (CHOOSE x \in s : TRUE).mw + f[s \ {CHOOSE x \in s : TRUE}]]
           iter == CHOOSE f : f = Body(f)
<1>1. PICK g \in [SUBSET S -> Nat] : Sums(g, v, SUBSET S)
  BY SumsExist
<1>2. g = Body(g)
  <2>1. \A s \in SUBSET S : s # {} => v[CHOOSE x \in s : TRUE] = (CHOOSE x \in s : TRUE).mw
    OBVIOUS
  <2> QED BY <1>1, <2>1 DEF Sums
<1>3. iter = Body(iter)
  BY <1>2
<1>4. MapThenSumSet(LAMBDA w : w.mw, S) = iter[S]
  BY DEF MapThenSumSet, MapThenFoldSet
<1>5. Sums(iter, v, SUBSET S)
  BY <1>3 DEF Sums
<1>6. iter[S] \in Nat
  <2> HIDE DEF iter
  <2> QED BY <1>5, SumsTyped
<1> QED BY <1>4, <1>6

\* The prices of awards add up to an integer.
LEMMA SumOfPrices ==
    ASSUME NEW S, IsFiniteSet(S), \A w \in S : w.price \in Int
    PROVE  MapThenSumSet(LAMBDA w : w.price, S) \in Int
<1> DEFINE v == [w \in S |-> w.price]
           Body(f) == [s \in SUBSET S |-> IF s = {} THEN 0
                          ELSE (CHOOSE x \in s : TRUE).price + f[s \ {CHOOSE x \in s : TRUE}]]
           iter == CHOOSE f : f = Body(f)
<1>1. PICK g \in [SUBSET S -> Int] : Sums(g, v, SUBSET S)
  BY SumsExist
<1>2. g = Body(g)
  <2>1. \A s \in SUBSET S : s # {} => v[CHOOSE x \in s : TRUE] = (CHOOSE x \in s : TRUE).price
    OBVIOUS
  <2> QED BY <1>1, <2>1 DEF Sums
<1>3. iter = Body(iter)
  BY <1>2
<1>4. MapThenSumSet(LAMBDA w : w.price, S) = iter[S]
  BY DEF MapThenSumSet, MapThenFoldSet
<1>5. Sums(iter, v, SUBSET S)
  BY <1>3 DEF Sums
<1>6. iter[S] \in Int
  <2> HIDE DEF iter
  <2> QED BY <1>5, SumsTyped
<1> QED BY <1>4, <1>6

-----------------------------------------------------------------------------
(* Grades.                                                                 *)

\* What a clear is, and what a P&L is.
Clears == [sum : Int, n : Nat]
Values == [days : SUBSET Nat, clear : Clears, mw : Nat]

\* The grades a paper bid can get: its fill follows from the auction, its value is
\* over days of its month with the last one, over the whole month if the days came in
\* order, and its P&L is of the same days.  (late: the months of which they did not.)
Honest(b, g, late) ==
    /\ g.clear = Clear(b) /\ g.cleared = Filled(b)
    /\ g.realized # None =>
        /\ g.realized \subseteq DaysOf(b.month) /\ LastDay(b.month) \in g.realized
        /\ b.month \notin late => g.realized = DaysOf(b.month)
    /\ g.pnl = IF g.realized # None /\ Filled(b)
               THEN [days |-> g.realized, clear |-> Clear(b), mw |-> Size(b)] ELSE None

LEMMA ClearTyped ==
    ASSUME NEW b \in Row
    PROVE  Clear(b) \in {None} \cup Clears
<1> DEFINE sold == {w \in Awarded[b.auction] : w.key = b.key}
           own == {w \in sold : w.first = b.month /\ w.last = b.month}
           basis == IF own # {} /\ IsPaper(b) THEN own ELSE sold
<1>1. IsFiniteSet(Awarded[b.auction]) /\ \A w \in Awarded[b.auction] : w.price \in Int
  BY GradingAssumption DEF Row
<1>2. basis \subseteq Awarded[b.auction]
  OBVIOUS
<1>3. IsFiniteSet(basis) /\ \A w \in basis : w.price \in Int
  BY <1>1, <1>2, FS_Subset
<1> HIDE DEF basis
<1>4. MapThenSumSet(LAMBDA w : w.price, basis) \in Int
  BY <1>3, SumOfPrices
<1>5. Cardinality(basis) \in Nat
  BY <1>3, FS_CardinalityType
<1>6. Clear(b) = IF basis = {} THEN None
                 ELSE [sum |-> MapThenSumSet(LAMBDA w : w.price, basis), n |-> Cardinality(basis)]
  BY DEF Clear, basis
<1> QED BY <1>4, <1>5, <1>6 DEF Clears

\* A paper bid fills at no more than the auction awarded.
LEMMA SizeTyped ==
    ASSUME NEW b \in Row
    PROVE  /\ Size(b) \in Nat
           /\ b \in PaperBid => Size(b) <= MapThenSumSet(LAMBDA w : w.mw,
                                       {w \in Awarded[b.auction] : w.key = b.key})
<1> DEFINE these == {w \in Awarded[b.auction] : w.key = b.key}
           sold == MapThenSumSet(LAMBDA w : w.mw, these)
<1>1. IsFiniteSet(these) /\ \A w \in these : w.mw \in Nat
  BY GradingAssumption, FS_Subset DEF Row
<1>2. sold \in Nat
  <2> HIDE DEF these
  <2> QED BY <1>1, SumOfMegawatts
<1>3. b.mw \in Nat
  BY GradingAssumption DEF Row
<1>4. Size(b) = IF IsPaper(b) THEN IF b.mw <= sold THEN b.mw ELSE sold
                ELSE IF b.mw = 0 THEN 1 ELSE b.mw
  BY DEF Size
<1> HIDE DEF sold, these
<1>5. Size(b) \in Nat /\ (b \in PaperBid => Size(b) <= sold)
  BY <1>2, <1>3, <1>4 DEF IsPaper
<1> QED BY <1>5 DEF sold, these

LEMMA DaysTyped ==
    ASSUME NEW b \in Row
    PROVE  /\ DaysOf(b.month) \in SUBSET Nat /\ \A days \in SUBSET DaysOf(b.month) : days # None
           /\ b.month \in 1 .. LastMonth /\ LastDay(b.month) \in DaysOf(b.month)
           /\ \A d \in DaysOf(b.month) : d <= LastDay(b.month)
<1>1. b.month \in 1 .. LastMonth /\ MonthDays \in Nat \ {0} /\ LastMonth \in Nat
  BY GradingAssumption DEF Row
<1>2. \A days \in SUBSET DaysOf(b.month) : days # None
  BY <1>1, NullAssumption
<1>3. PICK m \in Nat : b.month = m + 1
  BY <1>1
<1>4. MonthDays * m \in Nat /\ MonthDays * (m + 1) = MonthDays * m + MonthDays
  BY <1>1, <1>3
<1>5. /\ DaysOf(b.month) = MonthDays * m + 1 .. MonthDays * m + MonthDays
      /\ LastDay(b.month) = MonthDays * m + MonthDays
  BY <1>3, <1>4 DEF DaysOf, LastDay
<1> DEFINE k == MonthDays * m
<1> HIDE DEF k
<1>6. k \in Nat /\ MonthDays \in Nat /\ MonthDays >= 1
      /\ DaysOf(b.month) = k + 1 .. k + MonthDays /\ LastDay(b.month) = k + MonthDays
  BY <1>1, <1>4, <1>5 DEF k
<1>7. /\ DaysOf(b.month) \in SUBSET Nat /\ LastDay(b.month) \in DaysOf(b.month)
      /\ \A d \in DaysOf(b.month) : d <= LastDay(b.month)
  BY <1>6
<1> QED BY <1>1, <1>2, <1>7

LEMMA GradeTyped ==
    ASSUME NEW b \in Row
    PROVE  Grade(b) \in GradeType
<1> DEFINE realized == IF Settled(b) /\ Priced(b) # {} THEN Priced(b) ELSE None
<1>1. Priced(b) \in SUBSET Nat
  BY DaysTyped DEF Priced
<1>2. Filled(b) \in BOOLEAN /\ (Filled(b) => Clear(b) \in Clears)
  BY ClearTyped DEF Filled
<1>3. Grade(b) = [clear |-> Clear(b), cleared |-> Filled(b), realized |-> realized,
                  pnl |-> IF realized # None /\ Filled(b) = TRUE
                          THEN [days |-> realized, clear |-> Clear(b), mw |-> Size(b)] ELSE None]
  BY DEF Grade
<1>4. realized \in {None} \cup SUBSET Nat /\ (realized # None => realized \in SUBSET Nat)
  BY <1>1
<1> HIDE DEF realized
<1>5. realized # None /\ Filled(b) = TRUE =>
        [days |-> realized, clear |-> Clear(b), mw |-> Size(b)] \in Values
  BY <1>2, <1>4, SizeTyped DEF Values
<1> QED BY <1>2, <1>3, <1>4, <1>5, ClearTyped DEF GradeType, Clears, Values

\* The days of a month that is not skipped came in order at every endpoint.
DaysInOrder ==
    \A m \in 1 .. LastMonth : m \notin skipped =>
        \A e \in Endpoint : \A d \in dam[e] \cap DaysOf(m) : \A x \in DaysOf(m) :
            x < d => x \in dam[e]

\* Settled means the last day of both endpoints: if the days came in order, a pass then
\* reads the whole month.
LEMMA GradeHonest ==
    ASSUME NEW b \in PaperBid, DaysInOrder
    PROVE  Honest(b, Grade(b), skipped)
<1> DEFINE realized == IF Settled(b) /\ Priced(b) # {} THEN Priced(b) ELSE None
           last == LastDay(b.month)
           days == DaysOf(b.month)
<1>1. /\ days \in SUBSET Nat /\ b.month \in 1 .. LastMonth
      /\ last \in days /\ \A d \in days : d <= last
  BY DaysTyped DEF Row
<1> HIDE DEF last, days
<1>2. ASSUME Settled(b)
      PROVE  /\ Priced(b) \subseteq days /\ last \in Priced(b)
             /\ b.month \notin skipped => Priced(b) = days
  <2>1. \A e \in Endpoint : last \in dam[e]
    BY <1>2 DEF Settled, IsPaper, last
  <2>2. Priced(b) = {d \in days : \A e \in Endpoint : d \in dam[e]}
    BY DEF Priced, days
  <2>3. ASSUME b.month \notin skipped, NEW d \in days, NEW e \in Endpoint PROVE d \in dam[e]
    <3>1. \A x \in days : x < last => x \in dam[e]
      BY <1>1, <2>1, <2>3 DEF DaysInOrder, days
    <3>2. d \in Nat /\ last \in Nat /\ d <= last
      BY <1>1, <2>3
    <3> QED BY <2>1, <3>1, <3>2
  <2> QED BY <1>1, <2>1, <2>2, <2>3
<1>3. realized # None =>
        /\ realized \subseteq days /\ last \in realized
        /\ b.month \notin skipped => realized = days
  BY <1>2
<1>4. Filled(b) \in BOOLEAN
  BY DEF Filled
<1>5. Grade(b) = [clear |-> Clear(b), cleared |-> Filled(b), realized |-> realized,
                  pnl |-> IF realized # None /\ Filled(b) = TRUE
                          THEN [days |-> realized, clear |-> Clear(b), mw |-> Size(b)] ELSE None]
  BY DEF Grade
<1> HIDE DEF realized
<1> QED BY <1>3, <1>4, <1>5 DEF Honest, last, days

LEMMA MergeTyped ==
    ASSUME NEW g \in GradeType, NEW h \in GradeType
    PROVE  Merge(g, h) \in GradeType
BY DEF Merge, Coalesce, GradeType

\* A P&L is not null.
LEMMA ValueOf ==
    ASSUME NEW b \in PaperBid, NEW r \in SUBSET DaysOf(b.month), Filled(b)
    PROVE  [days |-> r, clear |-> Clear(b), mw |-> Size(b)] # None
<1>1. Clear(b) \in Clears
  BY ClearTyped DEF Filled, Row
<1>2. [days |-> r, clear |-> Clear(b), mw |-> Size(b)] \in Values
  BY <1>1, SizeTyped, DaysTyped DEF Values, Row
<1> QED BY <1>2, NullAssumption DEF Values, Clears

\* A write over the same bid's grade adds what was not known, and changes nothing but
\* a value in a month with a day out of order.
LEMMA MergeHonest ==
    ASSUME NEW b \in PaperBid, NEW late, NEW g, Honest(b, g, late),
           NEW h, h = Unscored \/ Honest(b, h, late)
    PROVE  /\ Honest(b, Merge(g, h), late)
           /\ h.cleared # None => Merge(g, h).cleared = h.cleared
           /\ h.realized # None => Merge(g, h).realized # None
           /\ h.pnl # None => Merge(g, h).pnl # None
           /\ b.month \notin late =>
                /\ h.realized # None => Merge(g, h).realized = h.realized
                /\ h.pnl # None => Merge(g, h).pnl = h.pnl
<1> DEFINE pnl(r) == [days |-> r, clear |-> Clear(b), mw |-> Size(b)]
           m == Merge(g, h)
<1>1. m = [clear |-> g.clear, cleared |-> g.cleared,
           realized |-> IF g.realized # None THEN g.realized ELSE h.realized,
           pnl |-> IF g.pnl # None THEN g.pnl ELSE h.pnl]
  BY DEF Merge, Coalesce
<1>2. \A r \in SUBSET DaysOf(b.month) : Filled(b) => pnl(r) # None
  BY ValueOf
<1> HIDE DEF m
<1>3. /\ m.clear = g.clear /\ m.cleared = g.cleared
      /\ m.realized = IF g.realized # None THEN g.realized ELSE h.realized
      /\ m.pnl = IF g.pnl # None THEN g.pnl ELSE h.pnl
  BY <1>1
<1>4. CASE h = Unscored
  <2>1. h.cleared = None /\ h.realized = None /\ h.pnl = None
    BY <1>4 DEF Unscored
  <2>2. m.clear = g.clear /\ m.cleared = g.cleared /\ m.realized = g.realized /\ m.pnl = g.pnl
    BY <1>3, <2>1
  <2> QED BY <2>1, <2>2 DEF Honest, m
<1>5. CASE Honest(b, h, late)
  <2>1. CASE g.realized # None
    <3>1. m.realized = g.realized /\ m.pnl = g.pnl
      <4>1. Filled(b) => g.pnl # None
        BY <1>2, <2>1 DEF Honest
      <4>2. ~Filled(b) => g.pnl = None /\ h.pnl = None
        BY <1>5 DEF Honest
      <4> QED BY <1>3, <2>1, <4>1, <4>2
    <3>2. Honest(b, m, late)
      BY <1>3, <3>1 DEF Honest
    <3>3. h.pnl # None => m.pnl # None
      BY <1>2, <1>5, <2>1, <3>1 DEF Honest
    <3>4. b.month \notin late =>
            /\ h.realized # None => m.realized = h.realized
            /\ h.pnl # None => m.pnl = h.pnl
      BY <1>5, <2>1, <3>1 DEF Honest
    <3> QED BY <1>3, <1>5, <2>1, <3>1, <3>2, <3>3, <3>4 DEF Honest, m
  <2>2. CASE g.realized = None
    <3>1. m.realized = h.realized /\ m.pnl = h.pnl
      BY <1>3, <2>2 DEF Honest
    <3> QED BY <1>3, <1>5, <3>1 DEF Honest, m
  <2> QED BY <2>1, <2>2
<1> QED BY <1>4, <1>5

-----------------------------------------------------------------------------
(* The inductive invariant.                                                *)

Staged == UNION {[S -> GradeType] : S \in SUBSET Row}

PassType == [phase : {"idle", "paper", "sheet"}, todo : SUBSET Register, staged : Staged]

IngestType == [running : BOOLEAN, docs : Seq(Auction), step : 1 .. 3]

\* The crr job: what a run has to load is posted, what a table holds too.
IngestOK ==
    /\ posted \in Seq(Auction) /\ table \in [Tables -> SUBSET Auction]
    /\ ingest \in IngestType /\ (ingest.running \/ ingest = Idle)
    /\ \A t \in Tables : table[t] \subseteq Range(posted)
    /\ Range(ingest.docs) \subseteq Range(posted)
    /\ view \subseteq table["crr_awards"]

\* The scoring passes.
PassesOK ==
    /\ over \in Nat /\ dam \in [Endpoint -> SUBSET Nat] /\ skipped \subseteq 1 .. LastMonth
    /\ DaysInOrder
    /\ row \in [Row -> GradeType] /\ pass \in [Pass -> PassType]

\* A grade that is written or about to be is one that the bid can get.
GradesHonest ==
    /\ \A b \in PaperBid : row[b] = Unscored \/ Honest(b, row[b], skipped)
    /\ \A p \in Pass : \A b \in PaperBid :
            b \in DOMAIN pass[p].staged => Honest(b, pass[p].staged[b], skipped)

\* All prices of an auction's report are loaded.
AllPriced(a) ==
    \A r \in PointPrice[a] :
        PointKey(a, r) \in DOMAIN points /\ points[PointKey(a, r)] = r.price

\* They are before its bids are.
PricedFirst ==
    /\ \A a \in table["crr_bids"] : AllPriced(a)
    /\ ingest.docs # <<>> /\ ingest.step = 3 => AllPriced(Head(ingest.docs))

GradingInv == IngestOK /\ PassesOK /\ GradesHonest /\ PricedFirst

-----------------------------------------------------------------------------
(* Sequences of auctions.                                                  *)

LEMMA RangeOfCons ==
    ASSUME NEW S, NEW s \in Seq(S), NEW a \in S
    PROVE  <<a>> \o s \in Seq(S) /\ Range(<<a>> \o s) = {a} \cup Range(s)
<1> DEFINE t == <<a>> \o s
<1>1. t \in Seq(S) /\ Len(t) = Len(s) + 1 /\ t[1] = a
  OBVIOUS
<1>2. \A i \in 1 .. Len(s) : t[i + 1] = s[i]
  OBVIOUS
<1>3. \A i \in 1 .. Len(t) : i = 1 \/ (i - 1 \in 1 .. Len(s) /\ t[i] = s[i - 1])
  BY <1>1, <1>2
<1>4. DOMAIN t = 1 .. Len(t) /\ DOMAIN s = 1 .. Len(s)
  BY <1>1
<1>5. Range(t) \subseteq {a} \cup Range(s)
  <2> HIDE DEF t
  <2> QED BY <1>1, <1>3, <1>4 DEF Range
<1>6. {a} \cup Range(s) \subseteq Range(t)
  <2>1. a \in Range(t)
    <3> HIDE DEF t
    <3> QED BY <1>1, <1>4 DEF Range
  <2>2. ASSUME NEW i \in 1 .. Len(s) PROVE s[i] \in Range(t)
    <3>1. i + 1 \in 1 .. Len(t) /\ t[i + 1] = s[i]
      BY <1>1, <1>2
    <3> HIDE DEF t
    <3> QED BY <1>4, <3>1 DEF Range
  <2> QED BY <1>4, <2>1, <2>2 DEF Range
<1> QED BY <1>1, <1>5, <1>6

LEMMA RangeOfTail ==
    ASSUME NEW S, NEW s \in Seq(S), s # <<>>
    PROVE  Tail(s) \in Seq(S) /\ Range(Tail(s)) \subseteq Range(s) /\ Head(s) \in Range(s) /\ Head(s) \in S
<1>1. Tail(s) \in Seq(S) /\ Len(Tail(s)) = Len(s) - 1 /\ Len(s) > 0 /\ Head(s) = s[1]
  OBVIOUS
<1>2. \A i \in 1 .. Len(s) - 1 : Tail(s)[i] = s[i + 1]
  OBVIOUS
<1>3. DOMAIN s = 1 .. Len(s) /\ DOMAIN Tail(s) = 1 .. Len(s) - 1
  BY <1>1
<1>4. ASSUME NEW i \in 1 .. Len(s) - 1 PROVE Tail(s)[i] \in Range(s)
  <2>1. i + 1 \in DOMAIN s
    BY <1>1, <1>3
  <2> QED BY <1>2, <2>1 DEF Range
<1> QED BY <1>1, <1>3, <1>4 DEF Range

LEMMA RangeOfPrefix ==
    ASSUME NEW S, NEW s \in Seq(S), NEW n \in Nat, n <= Len(s)
    PROVE  SubSeq(s, 1, n) \in Seq(S) /\ Range(SubSeq(s, 1, n)) \subseteq Range(s)
<1> DEFINE t == SubSeq(s, 1, n)
<1>1. t \in Seq(S) /\ Len(t) = n
  OBVIOUS
<1>2. \A i \in 1 .. n : t[i] = s[i] /\ i \in 1 .. Len(s)
  OBVIOUS
<1>3. DOMAIN t = 1 .. n /\ DOMAIN s = 1 .. Len(s)
  BY <1>1
<1> HIDE DEF t
<1>4. Range(t) \subseteq Range(s)
  BY <1>2, <1>3 DEF Range
<1> QED BY <1>1, <1>4 DEF t

LEMMA Nothing ==
    /\ \A S : <<>> \in Seq(S)
    /\ Range(<<>>) = {} /\ DOMAIN <<>> = {}
    /\ <<>> \in Staged
<1>1. DOMAIN <<>> = {}
  OBVIOUS
<1>2. Range(<<>>) = {}
  BY <1>1 DEF Range
<1>3. <<>> \in [{} -> GradeType]
  OBVIOUS
<1>4. {} \in SUBSET Row
  OBVIOUS
<1>5. <<>> \in Staged
  BY <1>3, <1>4 DEF Staged
<1> QED BY <1>1, <1>2, <1>5

\* What a step of the system is to the crr job.
LEMMA StepOfIngest ==
    ASSUME [Next]_vars
    PROVE  \/ UNCHANGED <<posted, table, points, view, ingest>>
           \/ \E a \in Auction : PostResults(a)
           \/ StartIngest \/ LoadStep \/ ReportFails \/ EndIngest \/ IngestDies
BY DEF Next, vars, crrVars, MonthEnds, LoadDam, PassStep, BeginPass, ReadAndGrade,
       CommitGrades, NextPhase, PassFails, IngestStep

\* What it is to the scoring.
LEMMA StepOfGrading ==
    ASSUME [Next]_vars
    PROVE  \/ UNCHANGED gradeVars
           \/ MonthEnds \/ (\E e \in Endpoint : LoadDam(e))
           \/ \E p \in Pass : \/ BeginPass(p) \/ ReadAndGrade(p) \/ CommitGrades(p)
                              \/ NextPhase(p) \/ PassFails(p)
BY DEF Next, vars, PassStep

-----------------------------------------------------------------------------
(* The ingest.                                                             *)

LEMMA InitIngest ==
    ASSUME Init
    PROVE  IngestOK /\ PricedFirst
BY Nothing DEF Init, CrrInit, IngestOK, PricedFirst, IngestType, Idle, Tables

LEMMA IngestKept ==
    ASSUME IngestOK, [Next]_vars
    PROVE  IngestOK'
<1> USE DEF IngestOK
<1>1. CASE UNCHANGED <<posted, table, points, view, ingest>>
  BY <1>1
<1>2. CASE \E a \in Auction : PostResults(a)
  <2>1. PICK a \in Auction : PostResults(a)
    BY <1>2
  <2>2. posted' \in Seq(Auction) /\ Range(posted) \subseteq Range(posted')
    BY <2>1, RangeOfCons DEF PostResults
  <2>3. UNCHANGED <<table, view, ingest>>
    BY <2>1 DEF PostResults
  <2> QED BY <2>2, <2>3
<1>3. CASE StartIngest
  <2> DEFINE n == IF Len(posted) < Limit THEN Len(posted) ELSE Limit
  <2>1. UNCHANGED <<posted, table, view>>
    BY <1>3 DEF StartIngest
  <2>2. n \in Nat /\ n <= Len(posted)
    BY LimitAssumption
  <2>3. ingest' = [running |-> TRUE, docs |-> SubSeq(posted, 1, n), step |-> 1]
    BY <1>3 DEF StartIngest, Idle
  <2>4. SubSeq(posted, 1, n) \in Seq(Auction) /\ Range(SubSeq(posted, 1, n)) \subseteq Range(posted)
    BY <2>2, RangeOfPrefix
  <2> HIDE DEF n
  <2> QED BY <2>1, <2>3, <2>4 DEF IngestType
<1>4. CASE LoadStep
  <2>1. UNCHANGED <<posted, view>> /\ ingest' = AfterStep /\ ingest.docs # <<>> /\ ingest.running
    BY <1>4 DEF LoadStep
  <2>2. Head(ingest.docs) \in Auction /\ Head(ingest.docs) \in Range(posted)
    BY <2>1, RangeOfTail DEF IngestType
  <2>3. Tail(ingest.docs) \in Seq(Auction) /\ Range(Tail(ingest.docs)) \subseteq Range(posted)
    BY <2>1, RangeOfTail DEF IngestType
  <2>4. ingest' \in IngestType /\ ingest'.running /\ Range(ingest'.docs) \subseteq Range(posted)
    <3>1. CASE ingest.step < 3
      <4>1. ingest' = [running |-> ingest.running, docs |-> ingest.docs, step |-> ingest.step + 1]
        BY <2>1, <3>1 DEF AfterStep, IngestType
      <4> QED BY <2>1, <3>1, <4>1 DEF IngestType
    <3>2. CASE ~(ingest.step < 3)
      <4>1. ingest' = [running |-> ingest.running, docs |-> Tail(ingest.docs), step |-> 1]
        BY <2>1, <3>2 DEF AfterStep, IngestType
      <4> QED BY <2>1, <2>3, <4>1 DEF IngestType
    <3> QED BY <3>1, <3>2
  <2>5. \/ UNCHANGED table
        \/ \E t \in Tables : table' = [table EXCEPT ![t] = @ \cup {Head(ingest.docs)}]
    BY <1>4 DEF LoadStep, Tables
  <2>6. /\ table' \in [Tables -> SUBSET Auction]
        /\ \A t \in Tables : table'[t] \subseteq Range(posted) /\ table[t] \subseteq table'[t]
    BY <2>2, <2>5
  <2>7. view' \subseteq table'["crr_awards"]
    BY <2>1, <2>6 DEF Tables
  <2> QED BY <2>1, <2>4, <2>6, <2>7
<1>5. CASE ReportFails
  <2>1. /\ UNCHANGED <<posted, table, view>> /\ ingest.docs # <<>> /\ ingest.running
        /\ ingest' = [ingest EXCEPT !.step = 1, !.docs = Tail(@)]
    BY <1>5 DEF ReportFails
  <2>2. Tail(ingest.docs) \in Seq(Auction) /\ Range(Tail(ingest.docs)) \subseteq Range(posted)
    BY <2>1, RangeOfTail DEF IngestType
  <2>3. ingest' = [running |-> TRUE, docs |-> Tail(ingest.docs), step |-> 1]
    BY <2>1 DEF IngestType
  <2>4. ingest' \in IngestType /\ ingest'.running /\ Range(ingest'.docs) \subseteq Range(posted)
    BY <2>2, <2>3 DEF IngestType
  <2> QED BY <2>1, <2>4
<1>6. CASE EndIngest \/ IngestDies
  <2>1. /\ UNCHANGED <<posted, table>> /\ ingest' = Idle
        /\ view' = view \/ view' = table["crr_awards"]
    BY <1>6 DEF EndIngest, IngestDies
  <2> QED BY <2>1, Nothing DEF IngestType, Idle
<1> QED BY <1>1, <1>2, <1>3, <1>4, <1>5, <1>6, StepOfIngest

\* The upsert writes the report's price under each of its keys, and no key of another
\* auction.
LEMMA UpsertPrices ==
    ASSUME NEW a \in Auction, NEW new \in PointPrices(a),
           points' = [k \in DOMAIN points \cup DOMAIN new |->
                        IF k \in DOMAIN new THEN new[k] ELSE points[k]]
    PROVE  /\ AllPriced(a)'
           /\ \A c \in Auction : AllPriced(c) => AllPriced(c)'
<1> DEFINE keys == {PointKey(a, r) : r \in PointPrice[a]}
<1>1. DOMAIN new = keys
  BY DEF PointPrices
<1>2. \A k \in keys : \E r \in PointPrice[a] : k = PointKey(a, r) /\ new[k] = r.price
  BY DEF PointPrices
<1>3. ASSUME NEW r \in PointPrice[a] PROVE new[PointKey(a, r)] = r.price
  <2>1. PICK s \in PointPrice[a] : PointKey(a, r) = PointKey(a, s) /\ new[PointKey(a, r)] = s.price
    BY <1>2
  <2>2. r.node = s.node /\ r.tou = s.tou /\ r.month = s.month
    BY <2>1 DEF PointKey
  <2> QED BY <2>1, <2>2, ReportAssumption
<1> HIDE DEF keys
<1>4. AllPriced(a)'
  BY <1>1, <1>3 DEF AllPriced, keys
<1>5. ASSUME NEW c \in Auction, AllPriced(c), c # a PROVE AllPriced(c)'
  <2>1. ASSUME NEW r \in PointPrice[c] PROVE PointKey(c, r) \notin keys
    BY <1>5 DEF PointKey, keys
  <2> QED BY <1>1, <1>5, <2>1 DEF AllPriced
<1> QED BY <1>4, <1>5

LEMMA PricedFirstKept ==
    ASSUME IngestOK, PricedFirst, [Next]_vars
    PROVE  PricedFirst'
<1> USE DEF PricedFirst
<1>1. CASE UNCHANGED <<posted, table, points, view, ingest>>
  BY <1>1 DEF AllPriced
<1>2. CASE (\E a \in Auction : PostResults(a)) \/ EndIngest \/ IngestDies
  <2>1. UNCHANGED <<table, points>> /\ (UNCHANGED ingest \/ ingest' = Idle)
    BY <1>2 DEF PostResults, EndIngest, IngestDies
  <2> QED BY <2>1 DEF AllPriced, Idle
<1>3. CASE StartIngest \/ ReportFails
  <2>1. UNCHANGED <<table, points>> /\ ingest'.step = 1
    BY <1>3 DEF StartIngest, ReportFails, Idle, IngestOK, IngestType
  <2> QED BY <2>1 DEF AllPriced
<1>4. CASE LoadStep
  <2>1. /\ Head(ingest.docs) \in Auction /\ ingest.docs # <<>> /\ ingest \in IngestType
        /\ ingest' = AfterStep
    BY <1>4, RangeOfTail DEF LoadStep, IngestOK, IngestType
  <2>2. PICK a \in Auction : a = Head(ingest.docs)
    BY <2>1
  <2>3. CASE ingest.step = 1
    <3>1. UNCHANGED points /\ table'["crr_bids"] = table["crr_bids"] /\ ingest'.step = 2
      BY <1>4, <2>1, <2>3 DEF LoadStep, AfterStep, IngestOK, IngestType, Tables
    <3> QED BY <3>1 DEF AllPriced
  <2>4. CASE ingest.step = 2
    <3>1. ingest.step # 1 /\ ingest.step # 3
      BY <2>4
    <3>2. \E new \in PointPrices(a) :
            points' = [k \in DOMAIN points \cup DOMAIN new |->
                         IF k \in DOMAIN new THEN new[k] ELSE points[k]]
      BY <1>4, <2>2, <3>1, Zenon DEF LoadStep
    <3>3. UNCHANGED table /\ ingest'.docs = ingest.docs
      BY <1>4, <2>1, <2>4 DEF LoadStep, AfterStep, IngestType
    <3>4. AllPriced(a)' /\ \A c \in Auction : AllPriced(c) => AllPriced(c)'
      BY <3>2, UpsertPrices
    <3>5. table["crr_bids"] \subseteq Auction
      BY DEF IngestOK, Tables
    <3> QED BY <2>2, <3>3, <3>4, <3>5
  <2>5. CASE ingest.step = 3
    <3>1. UNCHANGED points /\ table'["crr_bids"] = table["crr_bids"] \cup {a} /\ ingest'.step = 1
      BY <1>4, <2>1, <2>2, <2>5 DEF LoadStep, AfterStep, IngestOK, IngestType, Tables
    <3>2. AllPriced(a)
      BY <2>1, <2>2, <2>5
    <3> QED BY <3>1, <3>2 DEF AllPriced
  <2> QED BY <2>1, <2>3, <2>4, <2>5 DEF IngestType
<1> QED BY <1>1, <1>2, <1>3, <1>4, StepOfIngest

-----------------------------------------------------------------------------
(* The scoring.                                                            *)

LEMMA InitPasses ==
    ASSUME Init
    PROVE  PassesOK /\ GradesHonest
<1>1. Unscored \in GradeType
  BY DEF Unscored, GradeType
<1>2. NoPass \in PassType
  BY Nothing DEF NoPass, PassType
<1>3. /\ row \in [Row -> GradeType] /\ pass \in [Pass -> PassType] /\ over \in Nat
      /\ dam \in [Endpoint -> SUBSET Nat] /\ skipped \subseteq 1 .. LastMonth
  BY <1>1, <1>2 DEF Init
<1>6. DaysInOrder
  BY DEF Init, DaysInOrder
<1>4. \A b \in PaperBid : row[b] = Unscored
  BY DEF Init, Row
<1>5. \A p \in Pass : DOMAIN pass[p].staged = {}
  BY Nothing DEF Init, NoPass
<1> QED BY <1>3, <1>4, <1>5, <1>6 DEF PassesOK, GradesHonest

LEMMA ScopeTyped ==
    ASSUME NEW kind
    PROVE  Scope(kind) \in SUBSET Register
BY DEF Scope

LEMMA StagedTyped ==
    ASSUME NEW S \in SUBSET Row
    PROVE  [b \in S |-> Grade(b)] \in Staged
<1>1. [b \in S |-> Grade(b)] \in [S -> GradeType]
  BY GradeTyped
<1> QED BY <1>1, Zenon DEF Staged

\* A staged grade is of a row, and has the type of one.
LEMMA StagedGrades ==
    ASSUME PassesOK, NEW p \in Pass
    PROVE  /\ DOMAIN pass[p].staged \subseteq Row
           /\ \A b \in DOMAIN pass[p].staged : pass[p].staged[b] \in GradeType
<1>1. pass[p].staged \in Staged
  BY DEF PassesOK, PassType
<1>2. PICK S \in SUBSET Row : pass[p].staged \in [S -> GradeType]
  BY <1>1 DEF Staged
<1> QED BY <1>2

\* What a step of a pass makes of it: only one that reads stages grades.
LEMMA PassChanges ==
    ASSUME PassesOK, NEW p \in Pass,
           BeginPass(p) \/ ReadAndGrade(p) \/ CommitGrades(p) \/ NextPhase(p) \/ PassFails(p)
    PROVE  /\ pass' \in [Pass -> PassType]
           /\ \A q \in Pass : q # p => pass'[q] = pass[q]
           /\ \/ pass'[p].staged = pass[p].staged
              \/ pass'[p].staged = <<>>
              \/ \E S \in SUBSET Row : pass'[p].staged = [b \in S |-> Grade(b)]
<1>1. pass \in [Pass -> PassType] /\ pass[p] \in PassType
  BY DEF PassesOK
<1>2. ASSUME NEW new \in PassType, pass' = [pass EXCEPT ![p] = new]
      PROVE  /\ pass' \in [Pass -> PassType] /\ pass'[p] = new
             /\ \A q \in Pass : q # p => pass'[q] = pass[q]
  BY <1>1, <1>2
<1>3. CASE BeginPass(p)
  <2> DEFINE new == [NoPass EXCEPT !.phase = "paper", !.todo = Scope("paper")]
  <2>1. pass' = [pass EXCEPT ![p] = new]
    BY <1>3 DEF BeginPass
  <2>2. new \in PassType /\ new.staged = <<>>
    BY ScopeTyped, Nothing DEF PassType, NoPass
  <2> HIDE DEF new
  <2> QED BY <1>2, <2>1, <2>2
<1>4. CASE ReadAndGrade(p)
  <2>1. PICK r \in pass[p].todo, S \in SUBSET Row :
            pass' = IF AuctionOf(r) \notin table["crr_awards"] \/ S = {}
                    THEN [pass EXCEPT ![p].todo = @ \ {r}]
                    ELSE [pass EXCEPT ![p].todo = @ \ {r}, ![p].staged = [b \in S |-> Grade(b)]]
    <3> DEFINE rows(r) == {b \in RowsOf(r) : IsPaper(b) \/ row[b].cleared = None \/ row[b].realized = None}
    <3>1. \A r : rows(r) \in SUBSET Row
      BY DEF RowsOf
    <3>2. \E r \in pass[p].todo :
            pass' = IF AuctionOf(r) \notin table["crr_awards"] \/ rows(r) = {}
                    THEN [pass EXCEPT ![p].todo = @ \ {r}]
                    ELSE [pass EXCEPT ![p].todo = @ \ {r}, ![p].staged = [b \in rows(r) |-> Grade(b)]]
      BY <1>4, Zenon DEF ReadAndGrade
    <3> HIDE DEF rows
    <3> QED BY <3>1, <3>2
  <2>2. CASE pass' = [pass EXCEPT ![p].todo = @ \ {r}]
    <3> DEFINE new == [pass[p] EXCEPT !.todo = @ \ {r}]
    <3>1. pass' = [pass EXCEPT ![p] = new]
      BY <2>2
    <3>2. new \in PassType /\ new.staged = pass[p].staged
      BY <1>1 DEF PassType
    <3> HIDE DEF new
    <3> QED BY <1>2, <3>1, <3>2
  <2>3. CASE pass' = [pass EXCEPT ![p].todo = @ \ {r}, ![p].staged = [b \in S |-> Grade(b)]]
    <3> DEFINE grades == [b \in S |-> Grade(b)]
    <3>1. grades \in Staged
      BY StagedTyped
    <3>2. pass' = [pass EXCEPT ![p].todo = @ \ {r}, ![p].staged = grades]
      BY <2>3
    <3> DEFINE new == [pass[p] EXCEPT !.todo = @ \ {r}, !.staged = grades]
    <3> HIDE DEF grades
    <3>3. pass' = [pass EXCEPT ![p] = new]
      BY <1>1, <3>2
    <3>4. new \in PassType /\ new.staged = grades
      BY <1>1, <3>1 DEF PassType
    <3> HIDE DEF new
    <3>5. pass'[p].staged = grades
      BY <1>2, <3>3, <3>4
    <3> QED BY <1>2, <3>3, <3>4, <3>5 DEF grades
  <2> QED BY <2>1, <2>2, <2>3
<1>5. CASE CommitGrades(p)
  <2> DEFINE new == [pass[p] EXCEPT !.staged = <<>>]
  <2>1. pass' = [pass EXCEPT ![p] = new]
    BY <1>5 DEF CommitGrades
  <2>2. new \in PassType /\ new.staged = <<>>
    BY <1>1, Nothing DEF PassType
  <2> HIDE DEF new
  <2> QED BY <1>2, <2>1, <2>2
<1>6. CASE NextPhase(p) \/ PassFails(p)
  <2> DEFINE sheets == [phase |-> "sheet", todo |-> Scope("sheet"), staged |-> <<>>]
  <2>1. pass' = [pass EXCEPT ![p] = sheets] \/ pass' = [pass EXCEPT ![p] = NoPass]
    BY <1>6 DEF NextPhase, PassFails, NoPass
  <2>2. sheets \in PassType /\ NoPass \in PassType
    BY ScopeTyped, Nothing DEF PassType, NoPass
  <2>3. sheets.staged = <<>> /\ NoPass.staged = <<>>
    BY DEF NoPass
  <2> HIDE DEF sheets
  <2> QED BY <1>2, <2>1, <2>2, <2>3
<1> QED BY <1>3, <1>4, <1>5, <1>6

\* The scoring columns change by a commit only, and by one that merges.
LEMMA RowChanges ==
    ASSUME PassesOK, [Next]_vars
    PROVE  \/ row' = row
           \/ \E p \in Pass : /\ CommitGrades(p)
                              /\ row' = [b \in Row |-> IF b \in DOMAIN pass[p].staged
                                                       THEN Merge(pass[p].staged[b], row[b])
                                                       ELSE row[b]]
BY StepOfGrading DEF gradeVars, MonthEnds, LoadDam, BeginPass, ReadAndGrade, NextPhase,
                     PassFails, CommitGrades

\* Prices stay, and a month whose days come out of order is skipped from then on.
LEMMA PricesKept ==
    ASSUME PassesOK, [Next]_vars
    PROVE  /\ over' \in Nat /\ dam' \in [Endpoint -> SUBSET Nat]
           /\ skipped \subseteq skipped' /\ skipped' \subseteq 1 .. LastMonth /\ DaysInOrder'
<1>1. CASE MonthEnds
  BY <1>1 DEF MonthEnds, PassesOK, DaysInOrder
<1>2. ASSUME NEW e \in Endpoint, LoadDam(e)
      PROVE  /\ over' \in Nat /\ dam' \in [Endpoint -> SUBSET Nat]
             /\ skipped \subseteq skipped' /\ skipped' \subseteq 1 .. LastMonth /\ DaysInOrder'
  <2> DEFINE Late(d) == {m \in 1 .. LastMonth :
                          d \in DaysOf(m) /\ \E x \in DaysOf(m) : x < d /\ x \notin dam[e]}
  <2>1. PICK d \in 1 .. MonthDays * LastMonth :
            /\ dam' = [dam EXCEPT ![e] = @ \cup {d}]
            /\ skipped' = skipped \cup Late(d) /\ over' = over
    BY <1>2 DEF LoadDam
  <2>2. d \in Nat
    BY GradingAssumption
  <2>3. /\ dam' \in [Endpoint -> SUBSET Nat] /\ dam'[e] = dam[e] \cup {d}
        /\ \A f \in Endpoint : f # e => dam'[f] = dam[f]
    BY <2>1, <2>2 DEF PassesOK
  <2>4. ASSUME NEW m \in 1 .. LastMonth, m \notin skipped', NEW f \in Endpoint,
               NEW y \in dam'[f] \cap DaysOf(m), NEW x \in DaysOf(m), x < y
        PROVE  x \in dam'[f]
    <3>1. m \notin skipped /\ m \notin Late(d)
      BY <2>1, <2>4
    <3> HIDE DEF Late
    <3>2. CASE y \in dam[f]
      BY <2>3, <2>4, <3>1, <3>2 DEF PassesOK, DaysInOrder
    <3>3. CASE y \notin dam[f]
      <4>1. f = e /\ y = d
        BY <2>3, <2>4, <3>3
      <4>2. x \in dam[e]
        BY <2>4, <3>1, <4>1 DEF Late
      <4> QED BY <2>3, <4>1, <4>2
    <3> QED BY <3>2, <3>3
  <2>5. DaysInOrder'
    <3> SUFFICES ASSUME NEW m \in 1 .. LastMonth, m \notin skipped', NEW f \in Endpoint,
                        NEW y \in dam'[f] \cap DaysOf(m), NEW x \in DaysOf(m), x < y
                 PROVE  x \in dam'[f]
      BY DEF DaysInOrder, DaysOf
    <3> QED BY <2>4
  <2> QED BY <2>1, <2>3, <2>5 DEF PassesOK
<1>3. CASE UNCHANGED <<over, dam, skipped>>
  BY <1>3 DEF PassesOK, DaysInOrder, DaysOf
<1> QED BY <1>1, <1>2, <1>3, StepOfGrading
        DEF gradeVars, BeginPass, ReadAndGrade, CommitGrades, NextPhase, PassFails

LEMMA PassesKept ==
    ASSUME PassesOK, [Next]_vars
    PROVE  PassesOK'
<1>1. over' \in Nat /\ dam' \in [Endpoint -> SUBSET Nat] /\ skipped' \subseteq 1 .. LastMonth /\ DaysInOrder'
  BY PricesKept
<1>2. row' \in [Row -> GradeType]
  <2>1. CASE row' = row
    BY <2>1 DEF PassesOK
  <2>2. ASSUME NEW p \in Pass,
               row' = [b \in Row |-> IF b \in DOMAIN pass[p].staged
                                     THEN Merge(pass[p].staged[b], row[b]) ELSE row[b]]
        PROVE  row' \in [Row -> GradeType]
    <3>1. \A b \in Row : row[b] \in GradeType
      BY DEF PassesOK
    <3>2. \A b \in Row : b \in DOMAIN pass[p].staged => Merge(pass[p].staged[b], row[b]) \in GradeType
      BY <3>1, StagedGrades, MergeTyped
    <3> QED BY <2>2, <3>1, <3>2
  <2> QED BY <2>1, <2>2, RowChanges
<1>3. pass' \in [Pass -> PassType]
  <2>1. CASE pass' = pass
    BY <2>1 DEF PassesOK
  <2>2. ASSUME NEW p \in Pass,
               BeginPass(p) \/ ReadAndGrade(p) \/ CommitGrades(p) \/ NextPhase(p) \/ PassFails(p)
        PROVE  pass' \in [Pass -> PassType]
    BY <2>2, PassChanges
  <2> QED BY <2>1, <2>2, StepOfGrading DEF gradeVars, MonthEnds, LoadDam
<1> QED BY <1>1, <1>2, <1>3 DEF PassesOK

\* What a bid can get it still can when a month more is skipped.
LEMMA HonestStays ==
    ASSUME NEW b, NEW g, NEW late, NEW later, late \subseteq later, Honest(b, g, late)
    PROVE  Honest(b, g, later)
BY DEF Honest

LEMMA GradesHonestKept ==
    ASSUME PassesOK, GradesHonest, [Next]_vars
    PROVE  GradesHonest'
<1> USE DEF GradesHonest
<1>1. ASSUME NEW b \in PaperBid PROVE row'[b] = Unscored \/ Honest(b, row'[b], skipped)
  <2>1. CASE row' = row
    BY <2>1
  <2>2. ASSUME NEW p \in Pass,
               row' = [c \in Row |-> IF c \in DOMAIN pass[p].staged
                                     THEN Merge(pass[p].staged[c], row[c]) ELSE row[c]]
        PROVE  row'[b] = Unscored \/ Honest(b, row'[b], skipped)
    <3>1. row'[b] = IF b \in DOMAIN pass[p].staged THEN Merge(pass[p].staged[b], row[b]) ELSE row[b]
      BY <2>2 DEF Row
    <3> QED BY <3>1, MergeHonest
  <2> QED BY <2>1, <2>2, RowChanges
<1>2. ASSUME NEW q \in Pass, NEW b \in PaperBid, b \in DOMAIN pass'[q].staged
      PROVE  Honest(b, pass'[q].staged[b], skipped)
  <2>1. CASE pass' = pass
    BY <1>2, <2>1
  <2>2. ASSUME NEW p \in Pass,
               BeginPass(p) \/ ReadAndGrade(p) \/ CommitGrades(p) \/ NextPhase(p) \/ PassFails(p)
        PROVE  Honest(b, pass'[q].staged[b], skipped)
    <3>1. CASE pass'[q].staged = pass[q].staged
      BY <1>2, <3>1
    <3>2. CASE q = p /\ pass'[p].staged = <<>>
      BY <1>2, <3>2, Nothing
    <3>3. ASSUME NEW S \in SUBSET Row, q = p, pass'[p].staged = [c \in S |-> Grade(c)]
          PROVE  Honest(b, pass'[q].staged[b], skipped)
      <4>1. pass'[q].staged[b] = Grade(b)
        BY <1>2, <3>3
      <4> QED BY <4>1, GradeHonest DEF PassesOK
    <3> QED BY <2>2, <3>1, <3>2, <3>3, PassChanges
  <2> QED BY <2>1, <2>2, StepOfGrading DEF gradeVars, MonthEnds, LoadDam
<1>3. skipped \subseteq skipped'
  BY PricesKept
<1> QED BY <1>1, <1>2, <1>3, HonestStays

-----------------------------------------------------------------------------
(* Theorems.                                                               *)

LEMMA GradingInvariant == Spec => []GradingInv
<1>1. Init => GradingInv
  BY InitIngest, InitPasses DEF GradingInv
<1>2. GradingInv /\ [Next]_vars => GradingInv'
  BY IngestKept, PricedFirstKept, PassesKept, GradesHonestKept DEF GradingInv
<1> QED BY <1>1, <1>2, PTL DEF Spec

\* The tables hold what their columns allow, and a pass only rows and registers there
\* are (scoring.py: score_paper, score_sheets; crr.py: ingest_auction).
THEOREM GradingTypes == Spec => []TypeOK
<1>1. GradingInv => TypeOK
  <2> SUFFICES ASSUME GradingInv PROVE TypeOK
    OBVIOUS
  <2>1. Range(posted) \subseteq Auction
    BY DEF GradingInv, IngestOK, Range
  <2>2. ASSUME NEW p \in Pass
        PROVE  pass[p].todo \subseteq Register /\ DOMAIN pass[p].staged \subseteq Row
    BY StagedGrades DEF GradingInv, PassesOK, PassType
  <2> QED BY <2>1, <2>2 DEF TypeOK, GradingInv, IngestOK, IngestType, PassesOK
<1> QED BY <1>1, GradingInvariant, PTL

\* A paper bid is realized no sooner than its last day is priced at both endpoints, and
\* then over its whole delivery month unless its days came out of order; its P&L is
\* over the same days, of a bid that filled, at no more megawatts than the auction
\* awarded on its path, whatever passes overlap or fail and whenever prices come
\* (scoring.py: score_paper).
THEOREM BidsGradedInFull == Spec => []GradedInFull
<1>1. GradingInv => GradedInFull
  <2> SUFFICES ASSUME GradingInv, NEW b \in PaperBid
      PROVE  /\ row[b].realized # None =>
                 /\ LastDay(b.month) \in row[b].realized
                 /\ b.month \notin skipped => row[b].realized = DaysOf(b.month)
             /\ row[b].cleared = TRUE /\ row[b].realized # None => row[b].pnl # None
             /\ row[b].pnl # None =>
                 /\ row[b].cleared = TRUE /\ row[b].pnl.days = row[b].realized
                 /\ row[b].pnl.mw <= MapThenSumSet(LAMBDA w : w.mw,
                                         {w \in Awarded[b.auction] : w.key = b.key})
    BY Zenon DEF GradedInFull
  <2> DEFINE sold == MapThenSumSet(LAMBDA w : w.mw, {w \in Awarded[b.auction] : w.key = b.key})
             pnl == [days |-> row[b].realized, clear |-> Clear(b), mw |-> Size(b)]
  <2>1. row[b] = Unscored \/ Honest(b, row[b], skipped)
    BY DEF GradingInv, GradesHonest
  <2>2. CASE row[b] = Unscored
    <3>1. row[b].realized = None /\ row[b].pnl = None
      BY <2>2 DEF Unscored
    <3> QED BY <3>1
  <2>3. CASE Honest(b, row[b], skipped)
    <3>1. Size(b) <= sold
      BY SizeTyped DEF Row
    <3>2. row[b].realized # None /\ Filled(b) => pnl # None
      <4>1. row[b].realized # None => row[b].realized \in SUBSET DaysOf(b.month)
        BY <2>3 DEF Honest
      <4> QED BY <4>1, ValueOf
    <3>3. pnl.days = row[b].realized /\ pnl.mw = Size(b) /\ Filled(b) \in BOOLEAN
      BY DEF Filled
    <3> HIDE DEF sold
    <3>4. row[b].pnl # None => row[b].realized # None /\ Filled(b) /\ row[b].pnl = pnl
      BY <2>3 DEF Honest
    <3>5. row[b].realized # None /\ Filled(b) => row[b].pnl = pnl
      BY <2>3 DEF Honest
    <3> HIDE DEF pnl
    <3>6. /\ row[b].realized # None =>
              /\ LastDay(b.month) \in row[b].realized
              /\ b.month \notin skipped => row[b].realized = DaysOf(b.month)
          /\ row[b].cleared = Filled(b)
      BY <2>3 DEF Honest
    <3>7. /\ row[b].cleared = TRUE /\ row[b].realized # None => row[b].pnl # None
          /\ row[b].pnl # None =>
              /\ row[b].cleared = TRUE /\ row[b].pnl.days = row[b].realized
              /\ row[b].pnl.mw <= sold
      BY <3>1, <3>2, <3>3, <3>4, <3>5, <3>6
    <3> QED BY <3>6, <3>7 DEF sold
  <2> QED BY <2>1, <2>2, <2>3
<1> QED BY <1>1, GradingInvariant, PTL

\* An auction whose bids are loaded has the price of every node, block and month of its
\* report: the bids are written after the prices, and no report's upsert touches
\* another's (crr.py: POINT_PRICE_KEY, ingest_auction).
THEOREM PricesBeforeBids == Spec => []EveryMonthPriced
<1>1. GradingInv => EveryMonthPriced
  <2> SUFFICES ASSUME GradingInv, NEW a \in table["crr_bids"], NEW r \in PointPrice[a]
      PROVE  \E k \in DOMAIN points : /\ k.auction = a /\ k.node = r.node /\ k.tou = r.tou
                                      /\ points[k] = r.price
    BY DEF EveryMonthPriced
  <2>1. PointKey(a, r) \in DOMAIN points /\ points[PointKey(a, r)] = r.price
    BY DEF GradingInv, PricedFirst, AllPriced
  <2>2. PointKey(a, r).auction = a /\ PointKey(a, r).node = r.node /\ PointKey(a, r).tou = r.tou
    BY DEF PointKey
  <2> QED BY <2>1, <2>2
<1> QED BY <1>1, GradingInvariant, PTL

\* No pass, however late it commits what it read early, takes back a fill, a value or a
\* P&L, nor changes one but in a month with a day out of order (scoring.py:171:
\* coalesce).
THEOREM NothingTakenBack == Spec => RegisterKeeps
<1> DEFINE Kept == \A b \in PaperBid :
            /\ row[b].cleared # None => row'[b].cleared = row[b].cleared
            /\ row[b].realized # None =>
                /\ row'[b].realized # None
                /\ b.month \notin skipped => row'[b].realized = row[b].realized
            /\ row[b].pnl # None =>
                /\ row'[b].pnl # None
                /\ b.month \notin skipped => row'[b].pnl = row[b].pnl
<1>1. ASSUME GradingInv, [Next]_vars PROVE [Kept]_vars
  <2> SUFFICES ASSUME NEW b \in PaperBid
      PROVE  /\ row[b].cleared # None => row'[b].cleared = row[b].cleared
             /\ row[b].realized # None =>
                 /\ row'[b].realized # None
                 /\ b.month \notin skipped => row'[b].realized = row[b].realized
             /\ row[b].pnl # None =>
                 /\ row'[b].pnl # None
                 /\ b.month \notin skipped => row'[b].pnl = row[b].pnl
    OBVIOUS
  <2>1. CASE row' = row
    BY <2>1
  <2>2. ASSUME NEW p \in Pass,
               row' = [c \in Row |-> IF c \in DOMAIN pass[p].staged
                                     THEN Merge(pass[p].staged[c], row[c]) ELSE row[c]]
        PROVE  /\ row[b].cleared # None => row'[b].cleared = row[b].cleared
               /\ row[b].realized # None =>
                   /\ row'[b].realized # None
                   /\ b.month \notin skipped => row'[b].realized = row[b].realized
               /\ row[b].pnl # None =>
                   /\ row'[b].pnl # None
                   /\ b.month \notin skipped => row'[b].pnl = row[b].pnl
    <3>1. row'[b] = IF b \in DOMAIN pass[p].staged THEN Merge(pass[p].staged[b], row[b]) ELSE row[b]
      BY <2>2 DEF Row
    <3>2. b \in DOMAIN pass[p].staged => Honest(b, pass[p].staged[b], skipped)
      BY <1>1 DEF GradingInv, GradesHonest
    <3>3. row[b] = Unscored \/ Honest(b, row[b], skipped)
      BY <1>1 DEF GradingInv, GradesHonest
    <3> QED BY <3>1, <3>2, <3>3, MergeHonest
  <2> QED BY <1>1, <2>1, <2>2, RowChanges DEF GradingInv
<1>2. GradingInv /\ [Next]_vars => [Kept]_vars
  BY <1>1
<1> QED BY <1>2, GradingInvariant, PTL DEF Spec, RegisterKeeps

=============================================================================
