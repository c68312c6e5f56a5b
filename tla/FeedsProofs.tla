----------------------------- MODULE FeedsProofs -----------------------------
(***************************************************************************)
(* After a run of a loader that came to its end with every read answered,  *)
(* the newest rows stand: for every set of documents, every page size and  *)
(* window, every course of posts, faults and kills.                        *)
(*                                                                         *)
(* The first part is about what FeedRows makes of a sequence of entries:   *)
(* folds and filters, reasoned about by least counterexample.  The second  *)
(* is about Plan: which loader reads what, and that what it reads of a     *)
(* document has the keys of the document.  The third is the invariant      *)
(* FeedInv and its preservation, one lemma per action.                     *)
(*                                                                         *)
(* At its end is the job of the outage plan: no malformed edition costs a  *)
(* well-formed one.  That argument is about the oldest day of the window,  *)
(* today - Back: the run of today is the last that lists it, and takes it  *)
(* first.                                                                  *)
(***************************************************************************)
EXTENDS Feeds, FiniteSetTheorems, SequenceTheorems, WellFoundedInduction, TLAPS

-----------------------------------------------------------------------------
(* Sequences, their elements and what is kept of them. *)

\* Every set of natural numbers has a least one.
LEMMA LeastNumber ==
    ASSUME NEW S \in SUBSET Nat, S # {}
    PROVE  \E n \in S : \A m \in S : n <= m
<1> DEFINE R == OpToRel(<, Nat)
<1>1. IsWellFoundedOn(R, Nat)
    BY NatLessThanWellFounded
<1>2. PICK n \in S : \A m \in S : <<m, n>> \notin R
  <2> HIDE DEF R
  <2> QED BY <1>1, WFMin
<1>3. ASSUME NEW m \in S PROVE n <= m
  <2>1. ~(m < n)
    BY <1>2 DEF OpToRel
  <2> QED BY <2>1
<1> QED BY <1>3

\* Induction up to a number, stated with a set.
LEMMA UptoInductive ==
    ASSUME NEW N \in Nat, NEW Q, 0 \in Q, \A n \in 0 .. N - 1 : n \in Q => n + 1 \in Q
    PROVE  0 .. N \subseteq Q
<1> SUFFICES ASSUME (0 .. N) \ Q # {} PROVE FALSE OBVIOUS
<1> DEFINE W == (0 .. N) \ Q
<1>0. W \in SUBSET Nat /\ W # {} OBVIOUS
<1>1. PICK n \in W : \A m \in W : n <= m
  <2> HIDE DEF W
  <2> QED BY <1>0, LeastNumber
<1>2. n # 0 OBVIOUS
<1>3. n - 1 \in Q /\ n - 1 \in 0 .. N - 1 BY <1>1, <1>2
<1>4. n \in Q BY <1>1, <1>3
<1> QED BY <1>1, <1>4

\* What Among has kept of the first elements of s, for each number of them in N.
Keeps(g, s, S, N) ==
    \A i \in N : g[i] = IF i = 0 THEN <<>>
                        ELSE IF s[i] \in S THEN Append(g[i - 1], s[i]) ELSE g[i - 1]

\* The function that Among folds with exists.
LEMMA KeepsExists ==
    ASSUME NEW T, NEW s \in Seq(T), NEW S
    PROVE  \E g \in [0 .. Len(s) -> Seq(T)] : Keeps(g, s, S, 0 .. Len(s))
<1> DEFINE Q == {n \in Nat : \E g \in [0 .. n -> Seq(T)] : Keeps(g, s, S, 0 .. n)}
<1>1. 0 \in Q
  <2> DEFINE g == [i \in 0 .. 0 |-> <<>>]
  <2>1. g \in [0 .. 0 -> Seq(T)] /\ Keeps(g, s, S, 0 .. 0)
    BY DEF Keeps
  <2> QED BY <2>1
<1>2. ASSUME NEW n \in 0 .. Len(s) - 1, n \in Q PROVE n + 1 \in Q
  <2>1. PICK g \in [0 .. n -> Seq(T)] : Keeps(g, s, S, 0 .. n)
    BY <1>2
  <2> DEFINE x == IF s[n + 1] \in S THEN Append(g[n], s[n + 1]) ELSE g[n]
             h == [i \in 0 .. n + 1 |-> IF i = n + 1 THEN x ELSE g[i]]
  <2>2. n + 1 \in 1 .. Len(s) /\ s[n + 1] \in T /\ n \in 0 .. n /\ g[n] \in Seq(T) /\ n + 1 # 0
    OBVIOUS
  <2>3. x \in Seq(T)
    BY <2>2
  <2> HIDE DEF x
  <2>4. h \in [0 .. n + 1 -> Seq(T)]
    BY <2>1, <2>3
  <2>5. h[n + 1] = x /\ h[n] = g[n] /\ \A i \in 0 .. n : h[i] = g[i]
    BY <2>2
  <2>6. ASSUME NEW i \in 0 .. n + 1
        PROVE  h[i] = IF i = 0 THEN <<>>
                      ELSE IF s[i] \in S THEN Append(h[i - 1], s[i]) ELSE h[i - 1]
    <3> HIDE DEF h
    <3>1. CASE i = n + 1
      <4>1. i - 1 = n /\ i # 0
        BY <3>1
      <4> QED BY <2>5, <3>1, <4>1, <2>2 DEF x
    <3>2. CASE i \in 0 .. n /\ i # 0
      <4>1. i - 1 \in 0 .. n
        BY <3>2
      <4> QED BY <2>1, <2>5, <3>2, <4>1 DEF Keeps
    <3>3. CASE i = 0
      BY <2>1, <2>5, <3>3 DEF Keeps
    <3> QED BY <3>1, <3>2, <3>3
  <2>7. Keeps(h, s, S, 0 .. n + 1)
    BY <2>6 DEF Keeps
  <2> HIDE DEF h
  <2> QED BY <2>4, <2>7, <2>2
<1>3. Len(s) \in Q
  <2>1. Len(s) \in Nat
    OBVIOUS
  <2> HIDE DEF Q
  <2>2. 0 .. Len(s) \subseteq Q
    BY <1>1, <1>2, <2>1, UptoInductive
  <2> QED BY <2>1, <2>2
<1> QED BY <1>3

\* Which of the first n elements of s are in r: those in S, each after the others
\* of them that come before it.
KeepsOf(r, s, S, T, n) ==
    /\ r \in Seq(T) /\ Len(r) <= n
    /\ \A x : (\E j \in 1 .. Len(r) : r[j] = x) <=> x \in S /\ \E j \in 1 .. n : s[j] = x
    /\ (\A j \in 1 .. n : s[j] \in S) => Len(r) = n /\ \A j \in 1 .. n : r[j] = s[j]
    /\ \A j \in 1 .. Len(r) : \E m \in 1 .. n :
          s[m] = r[j] /\ \A l \in 1 .. m - 1 : s[l] \in S => \E i \in 1 .. j - 1 : r[i] = s[l]

\* One element more.
LEMMA KeepsStep ==
    ASSUME NEW T, NEW s \in Seq(T), NEW S, NEW n \in 0 .. Len(s) - 1, NEW r,
           KeepsOf(r, s, S, T, n),
           NEW q, q = IF s[n + 1] \in S THEN Append(r, s[n + 1]) ELSE r
    PROVE  KeepsOf(q, s, S, T, n + 1)
<1>1. s[n + 1] \in T /\ n + 1 \in 1 .. n + 1 /\ r \in Seq(T) /\ Len(r) \in Nat
  BY DEF KeepsOf
<1>2. CASE s[n + 1] \in S
  <2>1. /\ q \in Seq(T) /\ Len(q) = Len(r) + 1 /\ q[Len(r) + 1] = s[n + 1]
        /\ \A j \in 1 .. Len(r) : q[j] = r[j]
    BY <1>1, <1>2
  <2>2. q \in Seq(T) /\ Len(q) <= n + 1
    BY <2>1, <1>1 DEF KeepsOf
  <2>3. ASSUME NEW x
        PROVE  (\E j \in 1 .. Len(q) : q[j] = x) <=> x \in S /\ \E j \in 1 .. n + 1 : s[j] = x
    <3>1. (\E j \in 1 .. Len(q) : q[j] = x) <=> x = s[n + 1] \/ \E j \in 1 .. Len(r) : r[j] = x
      <4>1. \A j \in 1 .. Len(q) : j \in 1 .. Len(r) \/ j = Len(r) + 1
        BY <2>1, <1>1
      <4>2. \A j \in 1 .. Len(r) : j \in 1 .. Len(q)
        BY <2>1, <1>1
      <4>3. Len(r) + 1 \in 1 .. Len(q)
        BY <2>1, <1>1
      <4> QED BY <4>1, <4>2, <4>3, <2>1
    <3>2. (\E j \in 1 .. n + 1 : s[j] = x) <=> x = s[n + 1] \/ \E j \in 1 .. n : s[j] = x
      <4>1. \A j \in 1 .. n + 1 : j \in 1 .. n \/ j = n + 1
        OBVIOUS
      <4>2. \A j \in 1 .. n : j \in 1 .. n + 1
        OBVIOUS
      <4> QED BY <4>1, <4>2, <1>1
    <3> QED BY <3>1, <3>2, <1>2 DEF KeepsOf
  <2>4. ASSUME \A j \in 1 .. n + 1 : s[j] \in S
        PROVE  Len(q) = n + 1 /\ \A j \in 1 .. n + 1 : q[j] = s[j]
    <3>1. Len(r) = n /\ \A j \in 1 .. n : r[j] = s[j]
      BY <2>4 DEF KeepsOf
    <3> QED BY <3>1, <2>1
  <2>5. ASSUME NEW j \in 1 .. Len(q)
        PROVE  \E m \in 1 .. n + 1 : s[m] = q[j] /\
                  \A l \in 1 .. m - 1 : s[l] \in S => \E i \in 1 .. j - 1 : q[i] = s[l]
    <3>1. CASE j \in 1 .. Len(r)
      <4>1. PICK m \in 1 .. n : s[m] = r[j] /\
                \A l \in 1 .. m - 1 : s[l] \in S => \E i \in 1 .. j - 1 : r[i] = s[l]
        BY <3>1 DEF KeepsOf
      <4>2. m \in 1 .. n + 1 /\ \A i \in 1 .. j - 1 : q[i] = r[i]
        BY <2>1, <3>1, <1>1
      <4> QED BY <4>1, <4>2, <2>1, <3>1
    <3>2. CASE j = Len(r) + 1
      <4>1. ASSUME NEW l \in 1 .. (n + 1) - 1, s[l] \in S PROVE \E i \in 1 .. j - 1 : q[i] = s[l]
        <5>1. l \in 1 .. n
          OBVIOUS
        <5>2. PICK i \in 1 .. Len(r) : r[i] = s[l]
          BY <4>1, <5>1 DEF KeepsOf
        <5> QED BY <5>2, <2>1, <3>2, <1>1
      <4>2. s[n + 1] = q[j]
        BY <3>2, <2>1
      <4> QED BY <4>1, <4>2, <1>1
    <3>3. j \in 1 .. Len(r) \/ j = Len(r) + 1
      BY <2>1, <1>1
    <3> QED BY <3>1, <3>2, <3>3
  <2> QED BY <2>2, <2>3, <2>4, <2>5 DEF KeepsOf
<1>3. CASE s[n + 1] \notin S
  <2>1. q = r
    BY <1>3
  <2>2. \A j \in 1 .. n : j \in 1 .. n + 1
    OBVIOUS
  <2>3. \A j \in 1 .. n + 1 : j \in 1 .. n \/ j = n + 1
    OBVIOUS
  <2>4. Len(r) <= n + 1
    BY <1>1 DEF KeepsOf
  <2>5. ASSUME NEW x
        PROVE  (\E j \in 1 .. Len(r) : r[j] = x) <=> x \in S /\ \E j \in 1 .. n + 1 : s[j] = x
    BY <1>3, <2>2, <2>3 DEF KeepsOf
  <2>6. ASSUME NEW j \in 1 .. Len(r)
        PROVE  \E m \in 1 .. n + 1 : s[m] = r[j] /\
                  \A l \in 1 .. m - 1 : s[l] \in S => \E i \in 1 .. j - 1 : r[i] = s[l]
    BY <2>2 DEF KeepsOf
  <2>7. ~\A j \in 1 .. n + 1 : s[j] \in S
    BY <1>1, <1>3
  <2> QED BY <1>1, <2>1, <2>4, <2>5, <2>6, <2>7 DEF KeepsOf
<1> QED BY <1>2, <1>3

\* What Among returns.
LEMMA AmongKeeps ==
    ASSUME NEW T, NEW s \in Seq(T), NEW S
    PROVE  KeepsOf(Among(s, S), s, S, T, Len(s))
<1> DEFINE Body(f) == [i \in 0 .. Len(s) |->
                IF i = 0 THEN <<>>
                ELSE IF s[i] \in S THEN Append(f[i - 1], s[i]) ELSE f[i - 1]]
           kept == CHOOSE f : f = Body(f)
<1>1. PICK g \in [0 .. Len(s) -> Seq(T)] : Keeps(g, s, S, 0 .. Len(s))
  BY KeepsExists
<1>2. g = Body(g)
  BY <1>1 DEF Keeps
<1>3. kept = Body(kept)
  BY <1>2
<1>4. Among(s, S) = kept[Len(s)]
  BY DEF Among
<1>5. Keeps(kept, s, S, 0 .. Len(s))
  BY <1>3 DEF Keeps
<1> HIDE DEF kept
<1> DEFINE Q == {n \in 0 .. Len(s) : KeepsOf(kept[n], s, S, T, n)}
<1>6. 0 \in Q
  <2>1. Len(s) \in Nat /\ 0 \in 0 .. Len(s)
    OBVIOUS
  <2>2. kept[0] = <<>>
    BY <1>5, <2>1 DEF Keeps
  <2>3. KeepsOf(<<>>, s, S, T, 0)
    BY DEF KeepsOf
  <2> QED BY <2>1, <2>2, <2>3
<1>7. ASSUME NEW n \in 0 .. Len(s) - 1, n \in Q PROVE n + 1 \in Q
  <2>1. n + 1 \in 0 .. Len(s) /\ n + 1 # 0 /\ (n + 1) - 1 = n
    OBVIOUS
  <2>2. kept[n + 1] = IF s[n + 1] \in S THEN Append(kept[n], s[n + 1]) ELSE kept[n]
    BY <1>5, <2>1 DEF Keeps
  <2>3. KeepsOf(kept[n], s, S, T, n)
    BY <1>7
  <2>4. KeepsOf(kept[n + 1], s, S, T, n + 1)
    BY <2>2, <2>3, KeepsStep
  <2> QED BY <2>1, <2>4
<1>8. Len(s) \in Q
  <2>1. Len(s) \in Nat
    OBVIOUS
  <2> HIDE DEF Q
  <2>2. 0 .. Len(s) \subseteq Q
    BY <1>6, <1>7, <2>1, UptoInductive
  <2> QED BY <2>1, <2>2
<1> QED BY <1>4, <1>8

\* A set of numbers up to a bound has a greatest one.
LEMMA GreatestNumber ==
    ASSUME NEW N \in Nat, NEW S \in SUBSET (0 .. N), S # {}
    PROVE  \E n \in S : \A m \in S : m <= n
<1> DEFINE D == {N - n : n \in S}
<1>0. \A n \in S : n \in 0 .. N /\ N - n \in Nat
  OBVIOUS
<1>1. D \in SUBSET Nat /\ D # {}
  BY <1>0
<1>2. PICK d \in D : \A e \in D : d <= e
  <2> HIDE DEF D
  <2> QED BY <1>1, LeastNumber
<1>3. PICK n \in S : d = N - n
  BY <1>2
<1>4. ASSUME NEW m \in S PROVE m <= n
  <2>1. N - m \in D
    OBVIOUS
  <2>2. d <= N - m
    BY <1>2, <2>1
  <2> QED BY <1>3, <2>2
<1> QED BY <1>4

\* x is an element of sequence r.
In(r, x) == \E j \in DOMAIN r : r[j] = x

\* A table of one of the rows of each key.
Picks(es, d) ==
    /\ \A k : k \in DOMAIN d <=> \E e : In(es, e) /\ e.key = k
    /\ \A k \in DOMAIN d : d[k].key = k /\ In(es, d[k])

\* A function from the keys to elements with these keys picks.
LEMMA PicksOfKeys ==
    ASSUME NEW E, NEW es \in Seq(E), NEW d, DOMAIN d = Keys(es),
           \A k \in DOMAIN d : d[k].key = k /\ \E i \in DOMAIN es : d[k] = es[i]
    PROVE  Picks(es, d)
<1>1. ASSUME NEW k
      PROVE  k \in Keys(es) <=> \E e : In(es, e) /\ e.key = k
  BY DEF Keys, In
<1>2. ASSUME NEW k \in DOMAIN d PROVE d[k].key = k /\ In(es, d[k])
  BY DEF In
<1> QED BY <1>1, <1>2 DEF Picks

\* The last of a key is one of its rows.
LEMMA LastPicks ==
    ASSUME NEW E, NEW es \in Seq(E)
    PROVE  Picks(es, LastOfKey(es))
<1>1. ASSUME NEW k \in Keys(es)
      PROVE  \E i \in DOMAIN es : es[i].key = k /\ \A j \in DOMAIN es : es[j].key = k => j <= i
  <2> DEFINE S == {i \in DOMAIN es : es[i].key = k}
  <2>1. S \in SUBSET (0 .. Len(es)) /\ S # {} /\ Len(es) \in Nat
    BY <1>1 DEF Keys
  <2>2. \E n \in S : \A m \in S : m <= n
    <3> HIDE DEF S
    <3> QED BY <2>1, GreatestNumber
  <2> QED BY <2>2
<1> DEFINE d == LastOfKey(es)
<1>2. DOMAIN d = Keys(es)
  BY DEF LastOfKey
<1>3. ASSUME NEW k \in Keys(es)
      PROVE  d[k].key = k /\ \E i \in DOMAIN es : d[k] = es[i]
  BY <1>1 DEF LastOfKey
<1> HIDE DEF d
<1>4. Picks(es, d)
  BY <1>2, <1>3, PicksOfKeys
<1> QED BY <1>4 DEF d

\* The first of a key is one of its rows.
LEMMA FirstPicks ==
    ASSUME NEW E, NEW es \in Seq(E)
    PROVE  Picks(es, FirstOfKey(es))
<1>1. ASSUME NEW k \in Keys(es)
      PROVE  \E i \in DOMAIN es : es[i].key = k /\ \A j \in DOMAIN es : es[j].key = k => i <= j
  <2> DEFINE S == {i \in DOMAIN es : es[i].key = k}
  <2>1. S \in SUBSET Nat /\ S # {}
    BY <1>1 DEF Keys
  <2>2. \E n \in S : \A m \in S : n <= m
    <3> HIDE DEF S
    <3> QED BY <2>1, LeastNumber
  <2> QED BY <2>2
<1> DEFINE d == FirstOfKey(es)
<1>2. DOMAIN d = Keys(es)
  BY DEF FirstOfKey
<1>3. ASSUME NEW k \in Keys(es)
      PROVE  d[k].key = k /\ \E i \in DOMAIN es : d[k] = es[i]
  BY <1>1 DEF FirstOfKey
<1> HIDE DEF d
<1>4. Picks(es, d)
  BY <1>2, <1>3, PicksOfKeys
<1> QED BY <1>4 DEF d

\* The row kept of a key is one of its rows, and where all of them have a posting time
\* no older than the others.
LEMMA NewestPicks ==
    ASSUME NEW E, NEW es \in Seq(E), NEW N \in Nat, \A e \in E : e.n \in 0 .. N
    PROVE  /\ Picks(es, NewestOfKey(es))
           /\ \A i \in DOMAIN es :
                (\A j \in DOMAIN es : es[j].key = es[i].key => es[j].n \notin Unstamped) =>
                    es[i].n <= NewestOfKey(es)[es[i].key].n
<1> DEFINE Of(k) == {i \in DOMAIN es : es[i].key = k}
           Since(k) == {i \in Of(k) : \A j \in Of(k) : es[j].n \in Unstamped => j < i}
           Best(k, i) == \A j \in Since(k) : es[j].n < es[i].n \/ (es[j].n = es[i].n /\ i <= j)
<1>0. \A i \in DOMAIN es : es[i].n \in 0 .. N
  OBVIOUS
<1>1. ASSUME NEW k, Since(k) # {}
      PROVE  \E i \in Since(k) : Best(k, i)
  <2>0. Since(k) \subseteq DOMAIN es
    OBVIOUS
  <2>1. PICK C : C = Since(k)
    OBVIOUS
  <2> HIDE DEF Since
  <2> DEFINE S == {es[i].n : i \in C}
  <2>2. S \in SUBSET (0 .. N) /\ S # {}
    BY <1>0, <1>1, <2>0, <2>1
  <2>3. PICK n \in S : \A m \in S : m <= n
    <3> HIDE DEF S
    <3> QED BY <2>2, GreatestNumber
  <2> DEFINE F == {j \in C : es[j].n = n}
  <2>4. F \in SUBSET Nat /\ F # {}
    BY <2>0, <2>1
  <2>5. PICK i \in F : \A j \in F : i <= j
    <3> HIDE DEF F
    <3> QED BY <2>4, LeastNumber
  <2>6. ASSUME NEW j \in C
        PROVE  es[j].n < es[i].n \/ (es[j].n = es[i].n /\ i <= j)
    <3>1. es[j].n \in S /\ es[i].n = n /\ es[j].n \in 0 .. N /\ n \in 0 .. N
      BY <1>0, <2>0, <2>1
    <3>2. es[j].n <= n
      BY <3>1, <2>3
    <3>3. CASE es[j].n = n
      BY <3>3, <3>1, <2>5
    <3>4. CASE es[j].n # n
      BY <3>4, <3>1, <3>2
    <3> QED BY <3>3, <3>4
  <2> QED BY <2>1, <2>5, <2>6
<1> DEFINE d == NewestOfKey(es)
<1>2. d = [k \in Keys(es) |-> IF Since(k) = {} THEN LastOfKey(es)[k]
                              ELSE es[CHOOSE i \in Since(k) : Best(k, i)]]
  BY DEF NewestOfKey
<1>3. ASSUME NEW k \in Keys(es), Since(k) # {}
      PROVE  \E i \in Since(k) : Best(k, i) /\ d[k] = es[i]
  <2>1. d[k] = es[CHOOSE i \in Since(k) : Best(k, i)]
    <3> HIDE DEF Since, Best, d
    <3> QED BY <1>2, <1>3
  <2>2. \E i \in Since(k) : Best(k, i)
    BY <1>1, <1>3
  <2> HIDE DEF Since, Best, d
  <2> QED BY <2>1, <2>2, ZenonT(60)
<1>4. ASSUME NEW k \in Keys(es), Since(k) = {}
      PROVE  d[k] = LastOfKey(es)[k]
  <2> HIDE DEF Since, Best, d
  <2> QED BY <1>2, <1>4
<1>5. Picks(es, d)
  <2>1. DOMAIN d = Keys(es)
    <3> HIDE DEF Since, Best, d
    <3> QED BY <1>2
  <2>2. ASSUME NEW k \in Keys(es)
        PROVE  d[k].key = k /\ \E i \in DOMAIN es : d[k] = es[i]
    <3>1. CASE Since(k) = {}
      <4>1. PICK l : l = LastOfKey(es)
        OBVIOUS
      <4>2. Picks(es, l) /\ d[k] = l[k]
        BY <1>4, <3>1, <4>1, LastPicks
      <4>3. \E i \in DOMAIN es : es[i].key = k
        BY <2>2 DEF Keys
      <4> HIDE DEF Since, Best, d
      <4>4. k \in DOMAIN l
        BY <4>2, <4>3 DEF Picks, In
      <4> QED BY <4>2, <4>4 DEF Picks, In
    <3>2. CASE Since(k) # {}
      <4>1. PICK i \in Since(k) : d[k] = es[i]
        BY <1>3, <3>2
      <4>2. i \in DOMAIN es /\ es[i].key = k
        OBVIOUS
      <4> HIDE DEF Since, Best, d
      <4> QED BY <4>1, <4>2
    <3> QED BY <3>1, <3>2
  <2> HIDE DEF d
  <2> QED BY <2>1, <2>2, PicksOfKeys
<1>6. ASSUME NEW j \in DOMAIN es,
             \A i \in DOMAIN es : es[i].key = es[j].key => es[i].n \notin Unstamped
      PROVE  es[j].n <= d[es[j].key].n
  <2>1. es[j].key \in Keys(es)
    BY DEF Keys
  <2>2. j \in Since(es[j].key)
    BY <1>6
  <2>3. PICK i \in Since(es[j].key) : Best(es[j].key, i) /\ d[es[j].key] = es[i]
    BY <1>3, <2>1, <2>2
  <2>4. i \in DOMAIN es
    OBVIOUS
  <2>5. es[j].n < es[i].n \/ es[j].n = es[i].n
    <3> HIDE DEF Since
    <3> QED BY <2>2, <2>3
  <2> HIDE DEF d, Since, Best
  <2> QED BY <1>0, <2>3, <2>4, <2>5
<1> QED BY <1>5, <1>6

\* Whatever the database takes of a key is one of its rows.
LEMMA AnyPicks ==
    ASSUME NEW E, NEW es \in Seq(E)
    PROVE  /\ AnyOfKey(es) # {}
           /\ \A d \in AnyOfKey(es) : Picks(es, d)
<1> DEFINE Of(p) == \A k \in Keys(es) : \E e \in p : e.key = k /\ \A f \in p : f.key = k => f = e
           picks == {p \in SUBSET ToSet(es) : Of(p)}
<1>1. AnyOfKey(es) = {[k \in Keys(es) |-> CHOOSE e \in p : e.key = k] : p \in picks}
  BY DEF AnyOfKey
<1>2. picks # {}
  <2> DEFINE one(k) == CHOOSE e \in ToSet(es) : e.key = k
             p == {one(k) : k \in Keys(es)}
  <2>1. \A k \in Keys(es) : one(k) \in ToSet(es) /\ one(k).key = k
    BY DEF Keys, ToSet
  <2> HIDE DEF one
  <2>2. p \in SUBSET ToSet(es)
    BY <2>1
  <2>3. Of(p)
    BY <2>1
  <2> QED BY <2>2, <2>3
<1>3. ASSUME NEW p \in picks
      PROVE  Picks(es, [k \in Keys(es) |-> CHOOSE e \in p : e.key = k])
  <2> DEFINE d == [k \in Keys(es) |-> CHOOSE e \in p : e.key = k]
  <2>1. ASSUME NEW k \in Keys(es) PROVE d[k] \in p /\ d[k].key = k
    OBVIOUS
  <2>2. DOMAIN d = Keys(es)
    OBVIOUS
  <2>3. p \subseteq ToSet(es)
    OBVIOUS
  <2> HIDE DEF d, picks
  <2>4. Picks(es, d)
    BY <2>1, <2>2, <2>3, PicksOfKeys DEF ToSet
  <2> QED BY <2>4 DEF d
<1> DEFINE D(p) == [k \in Keys(es) |-> CHOOSE e \in p : e.key = k]
<1>4. AnyOfKey(es) = {D(p) : p \in picks}
  BY <1>1
<1>5. \A p \in picks : Picks(es, D(p))
  BY <1>3
<1> HIDE DEF picks, D
<1> QED BY <1>2, <1>4, <1>5

\* The elements of two sequences put together.
LEMMA InConcat ==
    ASSUME NEW T, NEW a \in Seq(T), NEW b \in Seq(T), NEW x
    PROVE  In(a \o b, x) <=> In(a, x) \/ In(b, x)
<1> DEFINE c == a \o b
<1>1. /\ Len(c) = Len(a) + Len(b) /\ Len(a) \in Nat /\ Len(b) \in Nat
      /\ DOMAIN a = 1 .. Len(a) /\ DOMAIN b = 1 .. Len(b) /\ DOMAIN c = 1 .. Len(c)
  OBVIOUS
<1>2. ASSUME NEW j \in 1 .. Len(a) PROVE c[j] = a[j]
  OBVIOUS
<1>3. ASSUME NEW j \in 1 .. Len(b) PROVE c[Len(a) + j] = b[j]
  OBVIOUS
<1> HIDE DEF c
<1>4. ASSUME NEW j \in DOMAIN a, a[j] = x PROVE \E i \in DOMAIN c : c[i] = x
  <2>1. j \in 1 .. Len(a) /\ j \in DOMAIN c
    BY <1>1
  <2> QED BY <2>1, <1>2, <1>4
<1>5. ASSUME NEW j \in DOMAIN b, b[j] = x PROVE \E i \in DOMAIN c : c[i] = x
  <2>1. j \in 1 .. Len(b) /\ Len(a) + j \in DOMAIN c
    BY <1>1
  <2> QED BY <2>1, <1>3, <1>5
<1>6. ASSUME NEW j \in DOMAIN c, c[j] = x
      PROVE  (\E i \in DOMAIN a : a[i] = x) \/ (\E i \in DOMAIN b : b[i] = x)
  <2>1. CASE j <= Len(a)
    <3>1. j \in 1 .. Len(a)
      BY <2>1, <1>1
    <3> QED BY <3>1, <1>1, <1>2, <1>6
  <2>2. CASE ~(j <= Len(a))
    <3> DEFINE l == j - Len(a)
    <3>1. l \in 1 .. Len(b) /\ Len(a) + l = j
      BY <2>2, <1>1
    <3> HIDE DEF l
    <3> QED BY <3>1, <1>1, <1>3, <1>6
  <2> QED BY <2>1, <2>2
<1> QED BY <1>4, <1>5, <1>6 DEF c, In

\* The first i of some sequences, put together.
Joins(g, q, N) == \A i \in N : g[i] = IF i = 1 THEN q[i] ELSE g[i - 1] \o q[i]

\* The function that FlattenSeq folds with exists.
LEMMA JoinsExist ==
    ASSUME NEW T, NEW q \in Seq(Seq(T)), q # <<>>
    PROVE  \E g \in [1 .. Len(q) -> Seq(T)] : Joins(g, q, 1 .. Len(q))
<1> DEFINE Q == {n \in Nat : \E g \in [1 .. n + 1 -> Seq(T)] : Joins(g, q, 1 .. n + 1)}
<1>0. Len(q) \in Nat \ {0} /\ \A i \in 1 .. Len(q) : q[i] \in Seq(T)
  OBVIOUS
<1>1. 0 \in Q
  <2> DEFINE g == [i \in 1 .. 0 + 1 |-> q[1]]
  <2>1. g \in [1 .. 0 + 1 -> Seq(T)]
    BY <1>0
  <2>2. Joins(g, q, 1 .. 0 + 1)
    BY DEF Joins
  <2> QED BY <2>1, <2>2
<1>2. ASSUME NEW n \in 0 .. (Len(q) - 1) - 1, n \in Q PROVE n + 1 \in Q
  <2> DEFINE m == n + 1
  <2>1. PICK g \in [1 .. m -> Seq(T)] : Joins(g, q, 1 .. m)
    BY <1>2
  <2>2. m \in 1 .. m /\ m + 1 \in 1 .. Len(q) /\ m \in Nat /\ m + 1 # 1 /\ (m + 1) - 1 = m
    BY <1>0
  <2> HIDE DEF m
  <2> DEFINE x == g[m] \o q[m + 1]
             h == [i \in 1 .. m + 1 |-> IF i = m + 1 THEN x ELSE g[i]]
  <2>3. x \in Seq(T)
    <3>1. g[m] \in Seq(T) /\ q[m + 1] \in Seq(T)
      BY <1>0, <2>1, <2>2
    <3> QED BY <3>1
  <2> HIDE DEF x
  <2>4. h \in [1 .. m + 1 -> Seq(T)]
    BY <2>1, <2>2, <2>3
  <2>5. h[m + 1] = x /\ h[m] = g[m] /\ \A i \in 1 .. m : h[i] = g[i]
    BY <2>2
  <2>6. ASSUME NEW i \in 1 .. m + 1
        PROVE  h[i] = IF i = 1 THEN q[i] ELSE h[i - 1] \o q[i]
    <3> HIDE DEF h
    <3>1. CASE i = m + 1
      BY <2>2, <2>5, <3>1 DEF x
    <3>2. CASE i \in 1 .. m /\ i # 1
      <4>1. i - 1 \in 1 .. m
        BY <3>2, <2>2
      <4> QED BY <2>1, <2>5, <3>2, <4>1 DEF Joins
    <3>3. CASE i = 1 /\ i \in 1 .. m
      BY <2>1, <2>5, <3>3 DEF Joins
    <3> QED BY <3>1, <3>2, <3>3, <2>2
  <2>7. Joins(h, q, 1 .. m + 1)
    BY <2>6 DEF Joins
  <2> HIDE DEF h
  <2>8. m \in Q
    BY <2>4, <2>7, <2>2
  <2> QED BY <2>8 DEF m
<1>3. Len(q) - 1 \in Q
  <2>1. Len(q) - 1 \in Nat /\ Len(q) - 1 \in 0 .. Len(q) - 1
    BY <1>0
  <2> HIDE DEF Q
  <2>2. 0 .. Len(q) - 1 \subseteq Q
    BY <1>1, <1>2, <2>1, UptoInductive
  <2> QED BY <2>1, <2>2
<1> QED BY <1>0, <1>3

\* The elements of sequences that are put together.
LEMMA FlattenFacts ==
    ASSUME NEW T, NEW q \in Seq(Seq(T))
    PROVE  /\ FlattenSeq(q) \in Seq(T)
           /\ \A x : In(FlattenSeq(q), x) <=> \E i \in DOMAIN q : In(q[i], x)
<1>1. CASE q = <<>>
  <2>1. FlattenSeq(q) = <<>>
    BY <1>1 DEF FlattenSeq
  <2>2. DOMAIN q = {} /\ DOMAIN FlattenSeq(q) = {} /\ <<>> \in Seq(T)
    BY <1>1, <2>1
  <2> QED BY <2>1, <2>2 DEF In
<1>2. CASE q # <<>>
  <2> DEFINE Body(f) == [i \in 1 .. Len(q) |-> IF i = 1 THEN q[i] ELSE f[i - 1] \o q[i]]
             flat == CHOOSE f : f = Body(f)
  <2>1. PICK g \in [1 .. Len(q) -> Seq(T)] : Joins(g, q, 1 .. Len(q))
    BY <1>2, JoinsExist
  <2>2. g = Body(g)
    BY <2>1 DEF Joins
  <2>3. flat = Body(flat)
    BY <2>2
  <2>4. FlattenSeq(q) = flat[Len(q)]
    BY <1>2 DEF FlattenSeq
  <2>5. Joins(flat, q, 1 .. Len(q))
    BY <2>3 DEF Joins
  <2> HIDE DEF flat
  <2>6. Len(q) \in Nat \ {0} /\ DOMAIN q = 1 .. Len(q) /\ \A i \in 1 .. Len(q) : q[i] \in Seq(T)
    BY <1>2
  <2> DEFINE Good(i) == flat[i] \in Seq(T) /\ \A x : In(flat[i], x) <=> \E l \in 1 .. i : In(q[l], x)
             Q == {n \in Nat : Good(n + 1)}
  <2>7. 0 \in Q
    <3>1. flat[1] = q[1] /\ 1 \in 1 .. Len(q)
      BY <2>5, <2>6 DEF Joins
    <3>2. \A l \in 1 .. 1 : l = 1
      OBVIOUS
    <3>3. Good(1)
      BY <3>1, <3>2, <2>6
    <3>4. 0 + 1 = 1
      OBVIOUS
    <3> HIDE DEF Good
    <3> QED BY <3>3, <3>4
  <2>8. ASSUME NEW n \in 0 .. (Len(q) - 1) - 1, n \in Q PROVE n + 1 \in Q
    <3> DEFINE m == n + 1
    <3>1. m \in Nat /\ m + 1 \in 1 .. Len(q) /\ m + 1 # 1 /\ (m + 1) - 1 = m
      BY <2>6
    <3>2. Good(m)
      BY <2>8
    <3> HIDE DEF m
    <3>3. flat[m + 1] = flat[m] \o q[m + 1]
      BY <2>5, <3>1 DEF Joins
    <3>4. flat[m] \in Seq(T) /\ q[m + 1] \in Seq(T)
      BY <3>1, <3>2, <2>6
    <3>5. flat[m + 1] \in Seq(T)
      BY <3>3, <3>4
    <3>6. ASSUME NEW x PROVE In(flat[m + 1], x) <=> In(flat[m], x) \/ In(q[m + 1], x)
      BY <3>3, <3>4, InConcat
    <3>7. ASSUME NEW x PROVE In(flat[m + 1], x) <=> \E l \in 1 .. m + 1 : In(q[l], x)
      <4>1. \A l \in 1 .. m + 1 : l \in 1 .. m \/ l = m + 1
        BY <3>1
      <4>2. \A l \in 1 .. m : l \in 1 .. m + 1
        BY <3>1
      <4>3. m + 1 \in 1 .. m + 1
        BY <3>1
      <4> QED BY <4>1, <4>2, <4>3, <3>2, <3>6
    <3>8. Good(m + 1)
      <4> QED BY <3>5, <3>7
    <3> HIDE DEF Good
    <3>9. m \in Q
      BY <3>1, <3>8
    <3> QED BY <3>9 DEF m
  <2>9. Len(q) - 1 \in Q
    <3>1. Len(q) - 1 \in Nat /\ Len(q) - 1 \in 0 .. Len(q) - 1
      BY <2>6
    <3> HIDE DEF Q
    <3>2. 0 .. Len(q) - 1 \subseteq Q
      BY <2>7, <2>8, <3>1, UptoInductive
    <3> QED BY <3>1, <3>2
  <2>10. Good(Len(q))
    <3>1. (Len(q) - 1) + 1 = Len(q)
      BY <2>6
    <3> HIDE DEF Good
    <3> QED BY <2>9, <3>1
  <2> QED BY <2>4, <2>6, <2>10
<1> QED BY <1>1, <1>2

\* A finite set in some order.
LEMMA InSomeOrder ==
    ASSUME NEW S, IsFiniteSet(S), NEW o \in SetToSeqs(S)
    PROVE  /\ o \in Seq(S)
           /\ \A x \in S : \E i \in DOMAIN o : o[i] = x
<1> DEFINE D == 1 .. Cardinality(S)
<1>1. Cardinality(S) \in Nat
  BY FS_CardinalityType
<1>2. o \in [D -> S] /\ \A i, j \in D : i # j => o[i] # o[j]
  BY DEF SetToSeqs
<1>3. o \in Injection(D, S)
  BY <1>2 DEF Injection, IsInjective
<1>4. Cardinality(D) = Cardinality(S)
  BY <1>1, FS_Interval
<1>5. o \in Surjection(D, S)
  <2> HIDE DEF D
  <2> QED BY <1>3, <1>4, FS_Injection
<1>6. \A x \in S : \E i \in D : o[i] = x
  BY <1>5 DEF Surjection
<1> QED BY <1>1, <1>2, <1>6

-----------------------------------------------------------------------------
(* What FeedRows makes of the rows of documents. *)

\* A row as it is read: about what, which, from which document, and its flaw.
Key == (Nat \ {0}) \X Nat
Entry == [key : Key, n : Nat, flaw : STRING]

\* Among keeps the elements that are in S, and no others.
LEMMA AmongFacts ==
    ASSUME NEW T, NEW s \in Seq(T), NEW S
    PROVE  /\ Among(s, S) \in Seq(T)
           /\ \A x : In(Among(s, S), x) <=> In(s, x) /\ x \in S
<1> DEFINE r == Among(s, S)
<1>1. KeepsOf(r, s, S, T, Len(s))
  BY AmongKeeps
<1> HIDE DEF r
<1>2. r \in Seq(T) /\ DOMAIN r = 1 .. Len(r) /\ DOMAIN s = 1 .. Len(s)
  BY <1>1 DEF KeepsOf
<1>3. ASSUME NEW x PROVE In(r, x) <=> In(s, x) /\ x \in S
  BY <1>1, <1>2 DEF KeepsOf, In
<1> QED BY <1>2, <1>3 DEF r

\* It leaves a sequence alone all of whose elements are in S.
LEMMA AmongAll ==
    ASSUME NEW T, NEW s \in Seq(T), NEW S, \A x : In(s, x) => x \in S
    PROVE  Among(s, S) = s
<1> DEFINE r == Among(s, S)
<1>1. KeepsOf(r, s, S, T, Len(s))
  BY AmongKeeps
<1> HIDE DEF r
<1>2. r \in Seq(T) /\ Len(s) \in Nat
  BY <1>1 DEF KeepsOf
<1>3. \A j \in 1 .. Len(s) : s[j] \in S
  BY DEF In
<1>4. Len(r) = Len(s) /\ \A j \in 1 .. Len(s) : r[j] = s[j]
  BY <1>1, <1>3 DEF KeepsOf
<1>5. r = s
  BY <1>2, <1>4
<1> QED BY <1>5 DEF r

\* Without leaves out the entries with a flaw of F.
LEMMA WithoutFacts ==
    ASSUME NEW E, NEW es \in Seq(E), NEW F
    PROVE  /\ Without(es, F) \in Seq(E)
           /\ \A e : In(Without(es, F), e) <=> In(es, e) /\ e.flaw \notin F
           /\ F = {} => Without(es, F) = es
<1> DEFINE S == {e \in ToSet(es) : e.flaw \notin F}
<1>1. Without(es, F) = Among(es, S)
  BY DEF Without
<1>2. \A e : In(es, e) /\ e \in S <=> In(es, e) /\ e.flaw \notin F
  BY DEF In, ToSet
<1> HIDE DEF S
<1>3. /\ Among(es, S) \in Seq(E)
      /\ \A x : In(Among(es, S), x) <=> In(es, x) /\ x \in S
  BY AmongFacts
<1>4. ASSUME F = {} PROVE Among(es, S) = es
  <2>1. \A x : In(es, x) => x \in S
    BY <1>2, <1>4
  <2> QED BY <2>1, AmongAll
<1> QED BY <1>1, <1>2, <1>3, <1>4

\* What ingest_rtd makes of its rows.
LEMMA RtdFacts ==
    ASSUME NEW es \in Seq(Entry)
    PROVE  /\ RtdRows(es) # {}
           /\ \A d \in RtdRows(es) :
                /\ \A k : k \in DOMAIN d <=>
                      \E e : /\ In(es, e) /\ e.flaw \notin {"undated", "unnamed"}
                             /\ k = <<e.key[1], e.key[2], e.n>>
                /\ \A k \in DOMAIN d : d[k].key = k /\ d[k].n = k[3]
<1> DEFINE rows == Without(es, {"undated", "unnamed"})
           of(e) == [e EXCEPT !.key = <<@[1], @[2], e.n>>]
           vs == [i \in DOMAIN rows |-> of(rows[i])]
           E == [key : Nat \X Nat \X Nat, n : Nat, flaw : STRING]
<1>1. rows \in Seq(Entry) /\ \A e : In(rows, e) <=> In(es, e) /\ e.flaw \notin {"undated", "unnamed"}
  BY WithoutFacts
<1>2. RtdRows(es) = AnyOfKey(vs)
  BY DEF RtdRows
<1> HIDE DEF rows
<1>3. ASSUME NEW e \in Entry
      PROVE  of(e) \in E /\ of(e).key = <<e.key[1], e.key[2], e.n>> /\ of(e).n = e.n
  <2>1. e.key[1] \in Nat /\ e.key[2] \in Nat /\ e.n \in Nat
    BY DEF Entry, Key
  <2> QED BY <2>1 DEF Entry
<1>4. \A i \in DOMAIN rows : rows[i] \in Entry
  BY <1>1
<1> HIDE DEF of, E
<1>5. vs \in Seq(E)
  <2>1. DOMAIN rows = 1 .. Len(rows) /\ Len(rows) \in Nat
    BY <1>1
  <2>2. \A i \in DOMAIN rows : of(rows[i]) \in E
    BY <1>3, <1>4
  <2> QED BY <2>1, <2>2
<1>6. \A x : In(vs, x) <=> \E e : In(rows, e) /\ x = of(e)
  BY DEF In
<1> HIDE DEF vs, E
<1>7. AnyOfKey(vs) # {} /\ \A d \in AnyOfKey(vs) : Picks(vs, d)
  BY <1>5, AnyPicks
<1>8. \A e : In(rows, e) => e \in Entry
  BY <1>4 DEF In
<1>9. ASSUME NEW d \in AnyOfKey(vs)
      PROVE  /\ \A k : k \in DOMAIN d <=>
                   \E e : /\ In(es, e) /\ e.flaw \notin {"undated", "unnamed"}
                          /\ k = <<e.key[1], e.key[2], e.n>>
             /\ \A k \in DOMAIN d : d[k].key = k /\ d[k].n = k[3]
  <2>1. Picks(vs, d)
    BY <1>7
  <2>2. ASSUME NEW k
        PROVE  k \in DOMAIN d <=>
                 \E e : /\ In(es, e) /\ e.flaw \notin {"undated", "unnamed"}
                        /\ k = <<e.key[1], e.key[2], e.n>>
    <3>1. k \in DOMAIN d <=> \E x : In(vs, x) /\ x.key = k
      BY <2>1 DEF Picks
    <3>2. (\E x : In(vs, x) /\ x.key = k) <=> \E e : In(rows, e) /\ of(e).key = k
      BY <1>6
    <3>3. \A e : In(rows, e) => of(e).key = <<e.key[1], e.key[2], e.n>>
      BY <1>3, <1>8
    <3> QED BY <3>1, <3>2, <3>3, <1>1
  <2>3. ASSUME NEW k \in DOMAIN d PROVE d[k].key = k /\ d[k].n = k[3]
    <3>1. d[k].key = k /\ In(vs, d[k])
      BY <2>1 DEF Picks
    <3>2. PICK e : In(rows, e) /\ d[k] = of(e)
      BY <3>1, <1>6
    <3>3. of(e).key = <<e.key[1], e.key[2], e.n>> /\ of(e).n = e.n
      BY <3>2, <1>3, <1>8
    <3>4. k = <<e.key[1], e.key[2], e.n>> /\ d[k].n = e.n
      BY <3>1, <3>2, <3>3
    <3>5. k[3] = e.n
      BY <3>4
    <3> QED BY <3>1, <3>4, <3>5
  <2> QED BY <2>2, <2>3
<1> QED BY <1>2, <1>7, <1>9

\* Every row of d is one of es, under a key about the same.
ComesFrom(d, es) ==
    \A k \in DOMAIN d : d[k].key = k /\ \E e : In(es, e) /\ d[k].n = e.n /\ k[1] = e.key[1]

\* Rows that are picked from entries with other keys come from the entries.
LEMMA PicksRekeyed ==
    ASSUME NEW vs, NEW es, NEW d, Picks(vs, d),
           \A x : In(vs, x) => \E e : In(es, e) /\ x.n = e.n /\ x.key[1] = e.key[1]
    PROVE  ComesFrom(d, es)
<1>1. ASSUME NEW k \in DOMAIN d
      PROVE  d[k].key = k /\ \E e : In(es, e) /\ d[k].n = e.n /\ k[1] = e.key[1]
  <2>1. d[k].key = k /\ In(vs, d[k])
    BY DEF Picks
  <2>2. PICK e : In(es, e) /\ d[k].n = e.n /\ d[k].key[1] = e.key[1]
    BY <2>1
  <2> QED BY <2>1, <2>2
<1> QED BY <1>1 DEF ComesFrom

\* So do rows that are picked from what is left of them.
LEMMA PicksComeFrom ==
    ASSUME NEW E, NEW es \in Seq(E), NEW F, NEW d, Picks(Without(es, F), d)
    PROVE  ComesFrom(d, es)
<1>1. \A e : In(Without(es, F), e) => In(es, e)
  BY WithoutFacts
<1> QED BY <1>1, PicksRekeyed

\* Constraints without an id are one.
LEMMA DamFacts ==
    ASSUME NEW es \in Seq(Entry)
    PROVE  \E d : DamFile(es) = {d} /\ ComesFrom(d, es)
<1> DEFINE rows == Without(es, {"undated"})
           of(e) == IF e.flaw = "unnamed" THEN [e EXCEPT !.key = <<@[1], 0>>] ELSE e
           vs == [i \in DOMAIN rows |-> of(rows[i])]
           d == LastOfKey(vs)
<1>1. rows \in Seq(Entry) /\ \A e : In(rows, e) => In(es, e)
  BY WithoutFacts
<1>2. DamFile(es) = {d}
  BY DEF DamFile
<1> HIDE DEF rows
<1>3. ASSUME NEW e \in Entry
      PROVE  of(e) \in Entry /\ of(e).n = e.n /\ of(e).key[1] = e.key[1]
  <2>1. e.key[1] \in Nat \ {0} /\ e.key[2] \in Nat /\ e.key = <<e.key[1], e.key[2]>>
    BY DEF Entry, Key
  <2> QED BY <2>1 DEF Entry, Key
<1>4. DOMAIN rows = 1 .. Len(rows) /\ Len(rows) \in Nat /\ \A i \in DOMAIN rows : rows[i] \in Entry
  BY <1>1
<1> HIDE DEF of
<1>5. vs \in Seq(Entry)
  <2>1. \A i \in DOMAIN rows : of(rows[i]) \in Entry
    BY <1>3, <1>4
  <2> QED BY <2>1, <1>4
<1>6. ASSUME NEW x, In(vs, x)
      PROVE  \E e : In(es, e) /\ x.n = e.n /\ x.key[1] = e.key[1]
  <2>1. PICK i \in DOMAIN rows : x = of(rows[i])
    BY <1>6 DEF In
  <2>2. In(es, rows[i]) /\ rows[i] \in Entry
    BY <1>1, <1>4 DEF In
  <2> QED BY <2>1, <2>2, <1>3
<1> HIDE DEF vs
<1>7. Picks(vs, d)
  BY <1>5, LastPicks
<1> HIDE DEF d
<1>8. ComesFrom(d, es)
  BY <1>6, <1>7, PicksRekeyed
<1> QED BY <1>2, <1>8

\* The offers to sell are known by their number.
LEMMA OfferFacts ==
    ASSUME NEW es \in Seq(Entry)
    PROVE  \E d : /\ OfferRows(es) = {d} /\ ComesFrom(d, es)
                  /\ \A k \in DOMAIN d : k[2] \in Nat
<1> DEFINE sells == Without(es, {"buy"})
           of(i) == [sells[i] EXCEPT !.key = <<@[1], i>>]
           vs == [i \in DOMAIN sells |-> of(i)]
           d == LastOfKey(Without(vs, {"undated"}))
<1>1. sells \in Seq(Entry) /\ \A e : In(sells, e) => In(es, e)
  BY WithoutFacts
<1>2. OfferRows(es) = {d}
  BY DEF OfferRows
<1> HIDE DEF sells
<1>3. ASSUME NEW i \in DOMAIN sells
      PROVE  of(i) \in Entry /\ of(i).n = sells[i].n /\ of(i).key[1] = sells[i].key[1]
  <2>1. sells[i] \in Entry /\ i \in Nat
    BY <1>1
  <2>2. sells[i].key[1] \in Nat \ {0}
    BY <2>1 DEF Entry, Key
  <2> QED BY <2>1, <2>2 DEF Entry, Key
<1> HIDE DEF of
<1>4. vs \in Seq(Entry)
  <2>1. DOMAIN sells = 1 .. Len(sells) /\ Len(sells) \in Nat
    BY <1>1
  <2>2. \A i \in DOMAIN sells : of(i) \in Entry
    BY <1>3
  <2> QED BY <2>1, <2>2
<1>5. ASSUME NEW x, In(vs, x)
      PROVE  /\ \E e : In(es, e) /\ x.n = e.n /\ x.key[1] = e.key[1]
             /\ x.key[2] \in Nat
  <2>1. PICK i \in DOMAIN sells : x = of(i)
    BY <1>5 DEF In
  <2>2. In(es, sells[i]) /\ x \in Entry
    BY <2>1, <1>1, <1>3 DEF In
  <2> QED BY <2>1, <2>2, <1>3 DEF Entry, Key
<1> HIDE DEF vs
<1>6. /\ Without(vs, {"undated"}) \in Seq(Entry)
      /\ \A e : In(Without(vs, {"undated"}), e) => In(vs, e)
  BY <1>4, WithoutFacts
<1>7. Picks(Without(vs, {"undated"}), d)
  BY <1>6, LastPicks
<1> HIDE DEF d
<1>8. ComesFrom(d, es)
  BY <1>5, <1>6, <1>7, PicksRekeyed
<1>9. \A k \in DOMAIN d : k[2] \in Nat
  BY <1>5, <1>6, <1>7 DEF Picks
<1> QED BY <1>2, <1>8, <1>9

\* The flaws for which a loader leaves a row out.
Drops ==
    IF feed \in {"resource_outages", "constraint_history", "constraints"} THEN {"undated", "unnamed"}
    ELSE IF feed \in {"gis", "tpit", "deck", "notices", "points"} THEN {"unnamed"}
    ELSE IF feed \in {"renewables", "load", "script_dam", "script_rtm", "script_lmp5"} THEN {"undated"}
    ELSE IF feed = "rtm" THEN {"undated", "unnamed", "series"}
    ELSE {}

\* The loaders that leave the keys as they are.
PlainFeed == feed \notin {"dam_constraints", "ruc_constraints", "offers", "rtd"}

\* The rows of key k all have a posting time.
AllStamped(es, k) == \A e : In(es, e) /\ e.key = k => e.n \notin Unstamped

\* A plain loader's rows have one of the rows left of each key, and those of the
\* forecasts the newest where all of them have a posting time.
LEMMA PlainRows ==
    ASSUME PlainFeed, NEW E, NEW es \in Seq(E), NEW N \in Nat, \A e \in E : e.n \in 0 .. N
    PROVE  /\ Rows(es) # {}
           /\ \A d \in Rows(es) :
                /\ Picks(Without(es, Drops), d)
                /\ feed \in {"renewables", "load"} =>
                      \A e : In(Without(es, Drops), e) /\ AllStamped(Without(es, Drops), e.key) =>
                          e.n <= d[e.key].n
<1> DEFINE R == Without(es, Drops)
           newest(d) == \A e : In(R, e) /\ AllStamped(R, e.key) => e.n <= d[e.key].n
<1>1. R \in Seq(E)
  BY WithoutFacts
<1>2. Picks(R, LastOfKey(R)) /\ Picks(R, FirstOfKey(R))
  <2> HIDE DEF R
  <2> QED BY <1>1, LastPicks, FirstPicks
<1>3. AnyOfKey(R) # {} /\ \A d \in AnyOfKey(R) : Picks(R, d)
  <2> HIDE DEF R
  <2> QED BY <1>1, AnyPicks
<1>4. Picks(R, NewestOfKey(R)) /\ newest(NewestOfKey(R))
  <2> HIDE DEF R
  <2>1. /\ Picks(R, NewestOfKey(R))
        /\ \A i \in DOMAIN R :
              (\A j \in DOMAIN R : R[j].key = R[i].key => R[j].n \notin Unstamped) =>
                  R[i].n <= NewestOfKey(R)[R[i].key].n
    BY <1>1, NewestPicks
  <2> QED BY <2>1 DEF In, AllStamped
<1>5. CASE feed \in {"resource_outages", "constraint_history", "constraints", "gis", "tpit"}
  <2>1. Rows(es) = {LastOfKey(R)}
    BY <1>5 DEF Rows, Drops, OutageSheet, WindowRows, ConstraintRows, GisSheets, TpitSheets
  <2> HIDE DEF R
  <2> QED BY <1>2, <2>1, <1>5 DEF R
<1>6. CASE feed \in {"deck", "notices", "points"}
  <2>1. Rows(es) = {FirstOfKey(R)}
    BY <1>6 DEF Rows, Drops, DeckMetrics, NoticeRows, PointRows
  <2> HIDE DEF R
  <2> QED BY <1>2, <2>1, <1>6 DEF R
<1>7. CASE feed \in {"renewables", "load"}
  <2>1. Rows(es) = {NewestOfKey(R)}
    BY <1>7 DEF Rows, Drops, RenewableRows, LoadRows
  <2> HIDE DEF R
  <2> QED BY <1>4, <2>1 DEF R
<1>8. CASE feed \in {"script_dam", "script_rtm", "script_lmp5", "rtm"}
  <2>1. Rows(es) = AnyOfKey(R)
    BY <1>8 DEF Rows, Drops, ScriptDamRows, ScriptRtmRows, ScriptLmp5Rows, RtmRows
  <2> HIDE DEF R
  <2> QED BY <1>3, <2>1, <1>8 DEF R
<1>9. CASE feed \notin {"resource_outages", "constraint_history", "constraints", "gis", "tpit",
                        "deck", "notices", "points", "renewables", "load",
                        "script_dam", "script_rtm", "script_lmp5", "rtm"}
  <2>1. Drops = {}
    BY <1>9 DEF Drops
  <2>2. R = es
    BY <2>1, WithoutFacts
  <2>3. Rows(es) = {LastOfKey(es)}
    BY <1>9 DEF Rows, PlainFeed
  <2>4. Rows(es) = {LastOfKey(R)}
    BY <2>2, <2>3
  <2> HIDE DEF R
  <2> QED BY <1>2, <2>4, <1>9 DEF R
<1> QED BY <1>5, <1>6, <1>7, <1>8, <1>9

\* The rows that document n has.
LEMMA EntriesFacts ==
    ASSUME posted \in Seq(Doc), NEW n \in DOMAIN posted
    PROVE  /\ Entries(n) \in Seq(Entry)
           /\ \A e : In(Entries(n), e) <=>
                \E i \in DOMAIN posted[n].rows :
                    e = [key |-> <<posted[n].about, posted[n].rows[i].k>>, n |-> n,
                         flaw |-> posted[n].rows[i].flaw]
           /\ \A e : In(Entries(n), e) => e.n = n /\ e.key[1] = posted[n].about
<1> DEFINE d == posted[n]
           of(i) == [key |-> <<d.about, d.rows[i].k>>, n |-> n, flaw |-> d.rows[i].flaw]
<1>1. d \in Doc /\ n \in Nat
  OBVIOUS
<1>2. d.about \in Nat \ {0} /\ d.rows \in Seq([k : Nat, flaw : STRING])
  BY <1>1, DocAssumption
<1>3. Entries(n) = [i \in DOMAIN d.rows |-> of(i)]
  BY DEF Entries
<1> HIDE DEF d
<1>4. DOMAIN d.rows = 1 .. Len(d.rows) /\ Len(d.rows) \in Nat
      /\ \A i \in DOMAIN d.rows : d.rows[i] \in [k : Nat, flaw : STRING]
  <2>1. ASSUME NEW T, NEW r \in Seq(T)
        PROVE  DOMAIN r = 1 .. Len(r) /\ Len(r) \in Nat /\ \A i \in DOMAIN r : r[i] \in T
    OBVIOUS
  <2> QED BY <1>2, <2>1
<1>5. \A i \in DOMAIN d.rows : of(i) \in Entry
  BY <1>1, <1>2, <1>4 DEF Entry, Key
<1>6. \A i \in DOMAIN d.rows : of(i).n = n /\ of(i).key[1] = d.about
  OBVIOUS
<1> HIDE DEF of
<1>7. Entries(n) \in Seq(Entry)
  BY <1>3, <1>4, <1>5
<1>8. \A e : In(Entries(n), e) <=> \E i \in DOMAIN d.rows : e = of(i)
  BY <1>3 DEF In
<1>9. \A e : In(Entries(n), e) => e.n = n /\ e.key[1] = d.about
  BY <1>6, <1>8
<1> QED BY <1>7, <1>8, <1>9 DEF d, of

\* A row of a document about a day of window w.
WindowEntry(w, e) ==
    \E n \in DOMAIN posted : posted[n].about \in w[1] .. w[2] /\ In(Entries(n), e)

\* Among the rows of a window it is the current one.
CurrentEntry(w, e) ==
    \A f : WindowEntry(w, f) /\ f.key = e.key /\ f.flaw = e.flaw => f.n <= e.n

\* What an answer for a window holds.
LEMMA WindowFacts ==
    ASSUME posted \in Seq(Doc), NEW w, NEW es \in WindowAnswers(w)
    PROVE  /\ es \in Seq(Entry)
           /\ \A e : In(es, e) <=> WindowEntry(w, e) /\ (HoldsVintages \/ CurrentEntry(w, e))
<1> DEFINE docs == {n \in DOMAIN posted : posted[n].about \in w[1] .. w[2]}
           q(o) == [i \in DOMAIN o |-> Entries(o[i])]
           all == {FlattenSeq(q(o)) : o \in SetToSeqs(docs)}
           C(fs) == {e \in ToSet(fs) : \A f \in ToSet(fs) :
                        f.key = e.key /\ f.flaw = e.flaw => f.n <= e.n}
           Current(fs) == Among(fs, C(fs))
<1>1. WindowAnswers(w) = IF HoldsVintages THEN all ELSE {Current(fs) : fs \in all}
  BY DEF WindowAnswers
<1>2. IsFiniteSet(docs)
  <2>1. IsFiniteSet(1 .. Len(posted)) /\ DOMAIN posted = 1 .. Len(posted)
    BY FS_Interval
  <2> QED BY <2>1, FS_Subset
<1>3. ASSUME NEW fs \in all
      PROVE  fs \in Seq(Entry) /\ \A e : In(fs, e) <=> WindowEntry(w, e)
  <2>1. PICK o \in SetToSeqs(docs) : fs = FlattenSeq(q(o))
    BY <1>3
  <2>2. o \in Seq(docs) /\ \A x \in docs : \E i \in DOMAIN o : o[i] = x
    <3> HIDE DEF docs
    <3> QED BY <1>2, InSomeOrder
  <2>3. DOMAIN o = 1 .. Len(o) /\ Len(o) \in Nat /\ \A i \in DOMAIN o : o[i] \in docs
    <3> HIDE DEF docs
    <3> QED BY <2>2
  <2>4. \A n \in docs : Entries(n) \in Seq(Entry)
    BY EntriesFacts
  <2>5. q(o) \in Seq(Seq(Entry))
    <3> HIDE DEF docs
    <3> QED BY <2>3, <2>4
  <2>6. \A i \in DOMAIN o : q(o)[i] = Entries(o[i])
    OBVIOUS
  <2>7. DOMAIN q(o) = DOMAIN o
    OBVIOUS
  <2> HIDE DEF q
  <2>8. /\ fs \in Seq(Entry)
        /\ \A x : In(fs, x) <=> \E i \in DOMAIN q(o) : In(q(o)[i], x)
    BY <2>1, <2>5, FlattenFacts
  <2>9. ASSUME NEW e PROVE In(fs, e) <=> \E n \in docs : In(Entries(n), e)
    <3> HIDE DEF docs
    <3> QED BY <2>2, <2>3, <2>6, <2>7, <2>8
  <2> QED BY <2>8, <2>9 DEF WindowEntry
<1>4. CASE HoldsVintages
  <2> HIDE DEF all
  <2> QED BY <1>1, <1>3, <1>4
<1>5. CASE ~HoldsVintages
  <2>1. PICK fs \in all : es = Current(fs)
    <3> HIDE DEF all, Current
    <3> QED BY <1>1, <1>5
  <2> HIDE DEF all
  <2>2. fs \in Seq(Entry) /\ \A e : In(fs, e) <=> WindowEntry(w, e)
    BY <1>3
  <2>3. \A e : e \in C(fs) <=> In(fs, e) /\ \A f : In(fs, f) /\ f.key = e.key /\ f.flaw = e.flaw => f.n <= e.n
    BY DEF In, ToSet
  <2>4. \A e : In(fs, e) /\ e \in C(fs) <=> WindowEntry(w, e) /\ CurrentEntry(w, e)
    <3> HIDE DEF C
    <3> QED BY <2>2, <2>3 DEF CurrentEntry
  <2> HIDE DEF C
  <2>5. /\ Among(fs, C(fs)) \in Seq(Entry)
        /\ \A x : In(Among(fs, C(fs)), x) <=> In(fs, x) /\ x \in C(fs)
    BY <2>2, AmongFacts
  <2> QED BY <2>1, <2>4, <2>5, <1>5
<1> QED BY <1>4, <1>5

-----------------------------------------------------------------------------
(* What a loader reads and makes of it. *)

ArchiveFeeds == {"dam_constraints", "ruc_constraints", "resource_outages"}
NewestFeeds == {"gis", "tpit", "deck", "offers"}
WindowsFeeds == {"constraint_history", "script_dam", "script_rtm", "script_lmp5"}

\* Which loader does what.
LEMMA PlanFacts ==
    /\ Plan.parts \in {"archive", "windows", "window", "newest", "notices", "loaded", "sites"}
    /\ Plan.onError \in {"skip", "raise"}
    /\ Plan.commit \in {"each", "end", "batch"}
    /\ Plan.parts = "archive" <=> feed \in ArchiveFeeds
    /\ Plan.parts = "newest"  <=> feed \in NewestFeeds
    /\ Plan.parts = "notices" <=> feed = "notices"
    /\ Plan.parts = "loaded"  <=> feed = "lt_prices"
    /\ Plan.parts = "sites"   <=> feed = "weather"
    /\ Plan.parts = "windows" <=> feed \in WindowsFeeds
    /\ Plan.commit = "each"   <=> Plan.parts \in {"archive", "windows", "window", "loaded"}
    /\ Plan.commit = "batch"  <=> feed = "offers"
    /\ Plan.onError = "skip"  <=> Plan.parts \in {"archive", "sites"} \/ feed = "constraint_history"
<1> USE DEF Plan, Loader, ArchiveFeeds, NewestFeeds, WindowsFeeds
<1>1. CASE feed \in ArchiveFeeds
  BY <1>1 DEF DamConstraints, RucConstraints, ResourceOutages
<1>2. CASE feed \in WindowsFeeds
  BY <1>2 DEF ConstraintHistory, RangeScript
<1>3. CASE feed \in NewestFeeds
  BY <1>3 DEF GisQueue, TransmissionPlan, LargeLoads, CrrOffers
<1>4. CASE feed \in {"notices", "lt_prices", "weather"}
  BY <1>4 DEF MarketNotices, LtPointPrices, Weather
<1>5. CASE feed \notin ArchiveFeeds \cup WindowsFeeds \cup NewestFeeds \cup {"notices", "lt_prices", "weather"}
  BY <1>5 DEF ApiJob
<1> QED BY <1>1, <1>2, <1>3, <1>4, <1>5

\* The loaders that read documents, not answers to a query.
DocLoads == Plan.parts \in {"archive", "newest", "notices", "loaded"}

\* Which loaders these are.
LEMMA DocFeeds ==
    DocLoads <=> feed \in {"dam_constraints", "ruc_constraints", "resource_outages", "gis", "tpit",
                           "deck", "offers", "notices", "lt_prices"}
BY PlanFacts DEF DocLoads, ArchiveFeeds, NewestFeeds

\* What a loader makes of one document: a table of rows of it, as new as it is.
LEMMA DocRows ==
    ASSUME posted \in Seq(Doc), NEW n \in DOMAIN posted, DocLoads
    PROVE  \E d : /\ Rows(Entries(n)) = {d} /\ KeysOf(n) = DOMAIN d
                  /\ \A k \in DOMAIN d : /\ d[k].key = k /\ d[k].n = n
                                         /\ k[1] = posted[n].about
                                         /\ feed = "offers" => k[2] \in Nat
<1> DEFINE es == Entries(n)
<1>1. es \in Seq(Entry) /\ \A e : In(es, e) => e.n = n /\ e.key[1] = posted[n].about
  BY EntriesFacts
<1>2. \E d : Rows(es) = {d} /\ ComesFrom(d, es) /\ (feed = "offers" => \A k \in DOMAIN d : k[2] \in Nat)
  <2> HIDE DEF es
  <2>1. CASE feed \in {"dam_constraints", "ruc_constraints"}
    <3>1. Rows(es) = DamFile(es)
      BY <2>1 DEF Rows, RucFile
    <3> QED BY <3>1, <1>1, DamFacts, <2>1
  <2>2. CASE feed = "offers"
    <3>1. Rows(es) = OfferRows(es)
      BY <2>2 DEF Rows
    <3> QED BY <3>1, <1>1, OfferFacts
  <2>3. CASE feed \in {"resource_outages", "gis", "tpit", "deck", "notices", "lt_prices"}
    <3>1. \E d : Rows(es) = {d}
      BY <2>3 DEF Rows, OutageSheet, GisSheets, TpitSheets, DeckMetrics, NoticeRows
    <3>2. PICK d : Rows(es) = {d}
      BY <3>1
    <3>3. PlainFeed
      BY <2>3 DEF PlainFeed
    <3> DEFINE E == {e \in Entry : e.n = n}
    <3>4. n \in Nat /\ n \in 0 .. n /\ \A i \in DOMAIN es : es[i] \in E
      BY <1>1 DEF In
    <3>5. es \in Seq(E) /\ \A e \in E : e.n \in 0 .. n
      BY <1>1, <3>4
    <3> HIDE DEF E
    <3>6. Picks(Without(es, Drops), d)
      BY <3>2, <3>3, <3>4, <3>5, PlainRows
    <3>7. ComesFrom(d, es)
      BY <3>5, <3>6, PicksComeFrom
    <3> QED BY <3>2, <3>7, <2>3
  <2> QED BY <2>1, <2>2, <2>3, DocFeeds
<1>3. PICK d : /\ Rows(es) = {d} /\ ComesFrom(d, es)
               /\ feed = "offers" => \A k \in DOMAIN d : k[2] \in Nat
  BY <1>2
<1>4. KeysOf(n) = DOMAIN d
  <2>1. feed # "weather"
    BY DocFeeds
  <2>2. Without(es, {}) = es
    BY <1>1, WithoutFacts
  <2>3. KeysOf(n) = DOMAIN (CHOOSE x \in Rows(es) : TRUE)
    BY <2>1, <2>2 DEF KeysOf
  <2> QED BY <2>3, <1>3
<1>5. ASSUME NEW k \in DOMAIN d
      PROVE  d[k].key = k /\ d[k].n = n /\ k[1] = posted[n].about
  <2>1. PICK e : d[k].key = k /\ In(es, e) /\ d[k].n = e.n /\ k[1] = e.key[1]
    BY <1>3 DEF ComesFrom
  <2> QED BY <2>1, <1>1
<1> QED BY <1>3, <1>4, <1>5

\* Every row of table d is the row of a document, under a key about the same.
Sound(d) ==
    \A k \in DOMAIN d : /\ d[k].key = k /\ d[k].n \in DOMAIN posted
                        /\ k[1] = posted[d[k].n].about

\* An entry of a document is one of its rows.
LEMMA EntryOfRow ==
    ASSUME posted \in Seq(Doc), NEW n \in DOMAIN posted, NEW e, In(Entries(n), e)
    PROVE  \E i \in DOMAIN posted[n].rows :
              /\ e.key = <<posted[n].about, posted[n].rows[i].k>>
              /\ e.flaw = posted[n].rows[i].flaw
<1>1. PICK i \in DOMAIN posted[n].rows :
          e = [key |-> <<posted[n].about, posted[n].rows[i].k>>, n |-> n,
               flaw |-> posted[n].rows[i].flaw]
  <2>1. In(Entries(n), e) <=>
                \E i \in DOMAIN posted[n].rows :
                    e = [key |-> <<posted[n].about, posted[n].rows[i].k>>, n |-> n,
                         flaw |-> posted[n].rows[i].flaw]
    BY EntriesFacts
  <2> QED BY <2>1
<1> QED BY <1>1

\* The keys of a document, for a plain loader.
LEMMA PlainKeys ==
    ASSUME posted \in Seq(Doc), NEW n \in DOMAIN posted, PlainFeed, feed # "weather"
    PROVE  \A k : k \in KeysOf(n) <=> \E e : In(Entries(n), e) /\ e.flaw \notin Drops /\ e.key = k
<1> DEFINE es == Entries(n)
           E == {e \in Entry : e.n = n}
<1>1. es \in Seq(Entry) /\ \A e : In(es, e) => e.n = n
  BY EntriesFacts
<1>2. Without(es, {}) = es
  <2> HIDE DEF es
  <2> QED BY <1>1, WithoutFacts
<1>3. KeysOf(n) = DOMAIN (CHOOSE x \in Rows(es) : TRUE)
  BY <1>2 DEF KeysOf
<1> HIDE DEF es
<1>4. es \in Seq(E) /\ n \in Nat /\ \A e \in E : e.n \in 0 .. n
  <2>1. n \in Nat /\ \A i \in DOMAIN es : es[i] \in E
    BY <1>1 DEF In
  <2> QED BY <2>1, <1>1
<1> HIDE DEF E
<1>5. Rows(es) # {} /\ \A d \in Rows(es) : Picks(Without(es, Drops), d)
  BY <1>4, PlainRows
<1>6. PICK d : KeysOf(n) = DOMAIN d /\ Picks(Without(es, Drops), d)
  BY <1>3, <1>5
<1>7. \A e : In(Without(es, Drops), e) <=> In(es, e) /\ e.flaw \notin Drops
  BY <1>1, WithoutFacts
<1>8. \A k : k \in KeysOf(n) <=> \E e : In(es, e) /\ e.flaw \notin Drops /\ e.key = k
  BY <1>6, <1>7 DEF Picks
<1> QED BY <1>8 DEF es

\* The keys of a document, for RTD: every run is a vintage.
LEMMA RtdKeys ==
    ASSUME posted \in Seq(Doc), NEW n \in DOMAIN posted, feed = "rtd"
    PROVE  \A k : k \in KeysOf(n) <=>
              \E e : /\ In(Entries(n), e) /\ e.flaw \notin {"undated", "unnamed"}
                     /\ k = <<e.key[1], e.key[2], e.n>>
<1> DEFINE es == Entries(n)
<1>1. es \in Seq(Entry)
  BY EntriesFacts
<1>2. Without(es, {}) = es
  <2> HIDE DEF es
  <2> QED BY <1>1, WithoutFacts
<1>3. KeysOf(n) = DOMAIN (CHOOSE x \in RtdRows(es) : TRUE)
  BY <1>2 DEF KeysOf, Rows
<1> HIDE DEF es
<1>4. /\ RtdRows(es) # {}
      /\ \A d \in RtdRows(es) : \A k : k \in DOMAIN d <=>
            \E e : /\ In(es, e) /\ e.flaw \notin {"undated", "unnamed"}
                   /\ k = <<e.key[1], e.key[2], e.n>>
  BY <1>1, RtdFacts
<1>5. PICK d \in RtdRows(es) : KeysOf(n) = DOMAIN d
  BY <1>3, <1>4
<1> QED BY <1>4, <1>5 DEF es

\* Table t has a row of key k, of document n or of a newer one if n is to stand.
Holds(t, k, n) == k \in DOMAIN t /\ (n \in Stamped => t[k].n >= n)

\* A loader of windows reads all the keys of the documents about them, each as new as
\* the newest of these documents that has it, if all about the same have a posting time.
LEMMA WindowRead ==
    ASSUME posted \in Seq(Doc), Plan.parts \in {"windows", "window"},
           NEW w, NEW es \in WindowAnswers(w), NEW d \in Rows(es)
    PROVE  /\ Sound(d)
           /\ \A k \in DOMAIN d : k[1] \in w[1] .. w[2]
           /\ feed = "rtd" => \A k \in DOMAIN d : d[k].n = k[3]
           /\ \A n \in DOMAIN posted : \A k \in KeysOf(n) :
                 /\ k[1] = posted[n].about
                 /\ feed = "rtd" => k[3] = n
                 /\ posted[n].about \in w[1] .. w[2] => Holds(d, k, n)
<1>0. DOMAIN posted = 1 .. Len(posted) /\ Len(posted) \in Nat
  OBVIOUS
<1>1. /\ es \in Seq(Entry)
      /\ \A e : In(es, e) <=> WindowEntry(w, e) /\ (HoldsVintages \/ CurrentEntry(w, e))
  BY WindowFacts
<1>2. ASSUME NEW e, WindowEntry(w, e)
      PROVE  /\ e \in Entry /\ e.n \in DOMAIN posted /\ e.key[1] = posted[e.n].about
             /\ e.key[1] \in w[1] .. w[2] /\ In(Entries(e.n), e)
  <2>1. PICK n \in DOMAIN posted : posted[n].about \in w[1] .. w[2] /\ In(Entries(n), e)
    BY <1>2 DEF WindowEntry
  <2>2. /\ Entries(n) \in Seq(Entry)
        /\ \A x : In(Entries(n), x) => x.n = n /\ x.key[1] = posted[n].about
    BY EntriesFacts
  <2>3. e \in Entry
    BY <2>1, <2>2 DEF In
  <2> QED BY <2>1, <2>2, <2>3
<1>3. ASSUME ComesFrom(d, es)
      PROVE  Sound(d) /\ \A k \in DOMAIN d : k[1] \in w[1] .. w[2]
  <2>1. ASSUME NEW k \in DOMAIN d
        PROVE  d[k].key = k /\ d[k].n \in DOMAIN posted /\ k[1] = posted[d[k].n].about
               /\ k[1] \in w[1] .. w[2]
    <3>1. PICK e : d[k].key = k /\ In(es, e) /\ d[k].n = e.n /\ k[1] = e.key[1]
      BY <1>3 DEF ComesFrom
    <3> QED BY <3>1, <1>1, <1>2
  <2> QED BY <2>1 DEF Sound
<1>4. CASE feed = "rtd"
  <2>1. Rows(es) = RtdRows(es) /\ HoldsVintages
    BY <1>4 DEF Rows, HoldsVintages
  <2>2. /\ \A k : k \in DOMAIN d <=>
              \E e : /\ In(es, e) /\ e.flaw \notin {"undated", "unnamed"}
                     /\ k = <<e.key[1], e.key[2], e.n>>
        /\ \A k \in DOMAIN d : d[k].key = k /\ d[k].n = k[3]
    BY <2>1, <1>1, RtdFacts
  <2>3. ComesFrom(d, es)
    <3>1. ASSUME NEW k \in DOMAIN d
          PROVE  d[k].key = k /\ \E e : In(es, e) /\ d[k].n = e.n /\ k[1] = e.key[1]
      <4>1. PICK e : In(es, e) /\ k = <<e.key[1], e.key[2], e.n>>
        BY <2>2
      <4>2. k[1] = e.key[1] /\ k[3] = e.n
        BY <4>1
      <4> QED BY <2>2, <4>1, <4>2
    <3> QED BY <3>1 DEF ComesFrom
  <2>4. ASSUME NEW n \in DOMAIN posted, NEW k \in KeysOf(n)
        PROVE  /\ k[1] = posted[n].about /\ k[3] = n
               /\ posted[n].about \in w[1] .. w[2] => Holds(d, k, n)
    <3>1. PICK e : /\ In(Entries(n), e) /\ e.flaw \notin {"undated", "unnamed"}
                   /\ k = <<e.key[1], e.key[2], e.n>>
      BY <1>4, RtdKeys
    <3>2. e.n = n /\ e.key[1] = posted[n].about
      BY <3>1, EntriesFacts
    <3>3. k[1] = posted[n].about /\ k[3] = n
      BY <3>1, <3>2
    <3>4. ASSUME posted[n].about \in w[1] .. w[2] PROVE Holds(d, k, n)
      <4>1. In(es, e)
        BY <3>1, <3>4, <1>1, <2>1 DEF WindowEntry
      <4>2. k \in DOMAIN d
        BY <4>1, <3>1, <2>2
      <4> QED BY <4>2, <2>2, <3>3, <1>0 DEF Holds
    <3> QED BY <3>3, <3>4
  <2> QED BY <2>2, <2>3, <2>4, <1>3
<1>5. CASE feed # "rtd"
  <2>1. PlainFeed /\ feed # "weather"
    BY <1>5, PlanFacts DEF PlainFeed, ArchiveFeeds, NewestFeeds
  <2> DEFINE E == {e \in Entry : e.n \in 0 .. Len(posted)}
  <2>2. es \in Seq(E) /\ \A e \in E : e.n \in 0 .. Len(posted)
    <3>1. \A i \in DOMAIN es : In(es, es[i]) /\ es[i] \in Entry
      BY <1>1 DEF In
    <3>2. \A i \in DOMAIN es : es[i].n \in 0 .. Len(posted)
      BY <3>1, <1>0, <1>1, <1>2
    <3>3. \A i \in DOMAIN es : es[i] \in E
      BY <3>1, <3>2
    <3>4. DOMAIN es = 1 .. Len(es) /\ Len(es) \in Nat
      BY <1>1
    <3> QED BY <3>3, <3>4, <1>1
  <2> HIDE DEF E
  <2>3. /\ Picks(Without(es, Drops), d)
        /\ feed \in {"renewables", "load"} =>
              \A e : In(Without(es, Drops), e) /\ AllStamped(Without(es, Drops), e.key) =>
                  e.n <= d[e.key].n
    BY <2>1, <2>2, <1>0, PlainRows
  <2>4. \A e : In(Without(es, Drops), e) <=> In(es, e) /\ e.flaw \notin Drops
    BY <1>1, WithoutFacts
  <2>5. ComesFrom(d, es)
    BY <1>1, <2>3, PicksComeFrom
  <2>6. ASSUME NEW n \in DOMAIN posted, NEW k \in KeysOf(n)
        PROVE  /\ k[1] = posted[n].about
               /\ posted[n].about \in w[1] .. w[2] => Holds(d, k, n)
    <3>1. PICK e : In(Entries(n), e) /\ e.flaw \notin Drops /\ e.key = k
      BY <2>1, PlainKeys
    <3>2. e.n = n /\ e.key[1] = posted[n].about
      BY <3>1, EntriesFacts
    <3>3. ASSUME posted[n].about \in w[1] .. w[2] PROVE Holds(d, k, n)
      <4>1. WindowEntry(w, e)
        BY <3>1, <3>3 DEF WindowEntry
      <4>2. CASE HoldsVintages
        <5>1. feed \in {"renewables", "load"}
          BY <4>2, <1>5 DEF HoldsVintages
        <5>2. In(Without(es, Drops), e)
          BY <4>1, <4>2, <1>1, <2>4, <3>1
        <5>3. k \in DOMAIN d
          BY <5>2, <2>3, <3>1 DEF Picks
        <5>4. d[k].n \in DOMAIN posted
          BY <5>3, <2>5, <1>3 DEF Sound
        <5>5. ASSUME n \in Stamped PROVE AllStamped(Without(es, Drops), k)
          <6>1. ASSUME NEW f, In(Without(es, Drops), f), f.key = k PROVE f.n \notin Unstamped
            <7>1. f.n \in DOMAIN posted /\ f.key[1] = posted[f.n].about
              BY <6>1, <2>4, <1>1, <1>2
            <7>2. posted[f.n].about = posted[n].about
              BY <7>1, <6>1, <3>1, <3>2
            <7> QED BY <5>1, <5>5, <7>1, <7>2 DEF Stamped
          <6> QED BY <6>1 DEF AllStamped
        <5>6. n \in Stamped => n <= d[k].n
          BY <5>1, <5>2, <5>5, <2>3, <3>1, <3>2
        <5> QED BY <5>3, <5>4, <5>6, <1>0 DEF Holds
      <4>3. CASE ~HoldsVintages
        <5> DEFINE Same(f) == WindowEntry(w, f) /\ f.key = e.key /\ f.flaw = e.flaw
                   S == {m \in DOMAIN posted : \E f : Same(f) /\ f.n = m}
        <5>1. n \in S
          BY <4>1, <3>2
        <5>2. S \in SUBSET (0 .. Len(posted)) /\ S # {}
          BY <5>1, <1>0
        <5>3. PICK m \in S : \A l \in S : l <= m
          <6> HIDE DEF S
          <6> QED BY <5>2, <1>0, GreatestNumber
        <5>4. PICK f : Same(f) /\ f.n = m
          BY <5>3
        <5>5. CurrentEntry(w, f)
          <6>1. ASSUME NEW g, WindowEntry(w, g), g.key = f.key, g.flaw = f.flaw PROVE g.n <= f.n
            <7>1. g.n \in S
              BY <6>1, <5>4, <1>2
            <7> QED BY <7>1, <5>3, <5>4
          <6> QED BY <6>1 DEF CurrentEntry
        <5>6. In(Without(es, Drops), f) /\ f.key = k
          BY <5>4, <5>5, <1>1, <2>4, <3>1
        <5>7. k \in DOMAIN d
          BY <5>6, <2>3 DEF Picks
        <5> DEFINE g == d[k]
        <5>8. In(es, g) /\ g.key = k
          BY <5>7, <2>3, <2>4 DEF Picks
        <5> HIDE DEF g
        <5>9. WindowEntry(w, g) /\ CurrentEntry(w, g)
          BY <5>8, <4>3, <1>1
        <5>10. PICK c \in DOMAIN posted : c = g.n /\ In(Entries(c), g)
          BY <5>9, <1>2
        <5>11. PICK i \in DOMAIN posted[c].rows :
                  /\ g.key = <<posted[c].about, posted[c].rows[i].k>>
                  /\ g.flaw = posted[c].rows[i].flaw
          BY <5>10, EntryOfRow
        <5>12. PICK j \in DOMAIN posted[n].rows :
                  /\ e.key = <<posted[n].about, posted[n].rows[j].k>>
                  /\ e.flaw = posted[n].rows[j].flaw
          <6>1. In(Entries(n), e)
            BY <3>1
          <6> QED BY <6>1, EntryOfRow
        <5>14. /\ posted[c].about = posted[n].about
               /\ posted[c].rows[i].k = posted[n].rows[j].k
          <6>1. g.key = e.key
            BY <5>8, <3>1
          <6>2. ASSUME NEW a, NEW b, NEW x, NEW y, <<a, b>> = <<x, y>> PROVE a = x /\ b = y
            BY <6>2
          <6>3. <<posted[c].about, posted[c].rows[i].k>> = <<posted[n].about, posted[n].rows[j].k>>
            BY <5>11, <5>12, <6>1, Zenon
          <6> QED BY <6>2, <6>3
        <5>15. PICK l \in DOMAIN posted[n].rows : posted[n].rows[l] = posted[c].rows[i]
          <6>1. posted[n] \in Doc /\ posted[c] \in Doc
            BY <5>10
          <6> QED BY <6>1, <5>14, DocAssumption
        <5> DEFINE h == [key |-> <<posted[n].about, posted[n].rows[l].k>>, n |-> n,
                         flaw |-> posted[n].rows[l].flaw]
        <5>16. In(Entries(n), h)
          BY EntriesFacts
        <5>17. h.key = g.key /\ h.flaw = g.flaw /\ h.n = n
          BY <5>11, <5>14, <5>15
        <5> HIDE DEF h
        <5>18. WindowEntry(w, h)
          BY <5>16, <3>3 DEF WindowEntry
        <5>19. n <= g.n
          BY <5>9, <5>17, <5>18 DEF CurrentEntry
        <5> QED BY <5>7, <5>19, <5>10, <1>0 DEF g, Holds
      <4> QED BY <4>2, <4>3
    <3> QED BY <3>1, <3>2, <3>3
  <2> QED BY <2>5, <2>6, <1>3, <1>5
<1> QED BY <1>4, <1>5

\* What Open-Meteo answers for a site is all from the latest model run.
LEMMA SiteRead ==
    ASSUME posted \in Seq(Doc), feed = "weather", NEW s \in Sites, NEW d \in Rows(SiteAnswer(s))
    PROVE  /\ Sound(d)
           /\ \A k \in DOMAIN d : k[3] = s /\ d[k].n = Len(posted)
           /\ posted # <<>> => \A h \in KeysOf(Len(posted)) :
                 /\ h = <<h[1], h[2]>> /\ <<h[1], h[2], s>> \in DOMAIN d
                 /\ h[1] = posted[Len(posted)].about
<1> DEFINE es == SiteAnswer(s)
<1>1. \A fs : Rows(fs) = {LastOfKey(fs)}
  BY DEF Rows
<1>2. d = LastOfKey(es)
  BY <1>1
<1>3. CASE posted = <<>>
  <2>1. es = <<>>
    BY <1>3 DEF SiteAnswer
  <2>2. DOMAIN d = {}
    BY <1>2, <2>1 DEF LastOfKey, Keys
  <2> QED BY <2>2, <1>3 DEF Sound
<1>4. CASE posted # <<>>
  <2> DEFINE n == Len(posted)
             fs == Without(Entries(n), {"undated"})
             at(e) == [e EXCEPT !.key = <<@[1], @[2], s>>]
             SiteEntry == [key : Nat \X Nat \X Sites, n : Nat, flaw : STRING]
  <2>1. n \in DOMAIN posted
    BY <1>4
  <2>2. es = [i \in DOMAIN fs |-> at(fs[i])]
    BY <1>4 DEF SiteAnswer
  <2> HIDE DEF n
  <2>3. /\ Entries(n) \in Seq(Entry)
        /\ \A e : In(Entries(n), e) => e.n = n /\ e.key[1] = posted[n].about
    BY <2>1, EntriesFacts
  <2>4. fs \in Seq(Entry) /\ \A e : In(fs, e) => In(Entries(n), e)
    BY <2>3, WithoutFacts
  <2>5. KeysOf(n) = DOMAIN LastOfKey(fs)
    BY <1>1 DEF KeysOf
  <2> HIDE DEF fs, es
  <2>6. ASSUME NEW e \in Entry
        PROVE  at(e) \in SiteEntry /\ at(e).n = e.n /\ at(e).key = <<e.key[1], e.key[2], s>>
    <3>1. e.key[1] \in Nat /\ e.key[2] \in Nat /\ e.n \in Nat
      BY DEF Entry, Key
    <3> QED BY <3>1 DEF Entry
  <2> HIDE DEF at, SiteEntry
  <2>7. DOMAIN fs = 1 .. Len(fs) /\ Len(fs) \in Nat /\ \A i \in DOMAIN fs : fs[i] \in Entry
    BY <2>4
  <2>8. es \in Seq(SiteEntry)
    <3>1. \A i \in DOMAIN fs : at(fs[i]) \in SiteEntry
      BY <2>6, <2>7
    <3> QED BY <3>1, <2>2, <2>7
  <2>9. Picks(es, d) /\ Picks(fs, LastOfKey(fs))
    BY <2>4, <2>8, <1>2, LastPicks
  <2>10. \A x : In(es, x) <=> \E i \in DOMAIN fs : x = at(fs[i])
    BY <2>2 DEF In
  <2>11. \A i \in DOMAIN fs : fs[i].n = n /\ fs[i].key[1] = posted[n].about
    BY <2>3, <2>4 DEF In
  <2>12. ASSUME NEW k \in DOMAIN d
         PROVE  d[k].key = k /\ d[k].n = n /\ k[1] = posted[n].about /\ k[3] = s
    <3>1. d[k].key = k /\ In(es, d[k])
      BY <2>9 DEF Picks
    <3>2. PICK i \in DOMAIN fs : d[k] = at(fs[i])
      BY <3>1, <2>10
    <3>3. k = <<fs[i].key[1], fs[i].key[2], s>> /\ d[k].n = fs[i].n
      BY <3>1, <3>2, <2>6, <2>7
    <3>4. k[1] = fs[i].key[1] /\ k[3] = s
      BY <3>3
    <3> QED BY <3>1, <3>3, <3>4, <2>11
  <2>13. ASSUME NEW h \in KeysOf(n)
         PROVE  h = <<h[1], h[2]>> /\ <<h[1], h[2], s>> \in DOMAIN d /\ h[1] = posted[n].about
    <3>1. PICK e : In(fs, e) /\ e.key = h
      BY <2>5, <2>9 DEF Picks
    <3>2. PICK i \in DOMAIN fs : fs[i] = e
      BY <3>1 DEF In
    <3>3. In(es, at(e)) /\ at(e).key = <<h[1], h[2], s>>
      BY <3>1, <3>2, <2>6, <2>7, <2>10
    <3>4. <<h[1], h[2], s>> \in DOMAIN d
      BY <3>3, <2>9 DEF Picks
    <3>5. h = <<h[1], h[2]>>
      BY <3>1, <3>2, <2>7 DEF Entry, Key
    <3> QED BY <3>1, <3>2, <3>4, <3>5, <2>11
  <2>14. Sound(d)
    BY <2>1, <2>12 DEF Sound
  <2> QED BY <2>12, <2>13, <2>14, <1>4 DEF n
<1> QED BY <1>3, <1>4

\* A mean is as new as one of the rows it is made of, and stands for all the sites.
LEMMA MeansFacts ==
    ASSUME NEW b, Sound(b), posted \in Seq(Doc)
    PROVE  /\ Sound(Means(b))
           /\ \A h \in DOMAIN Means(b) : \A s \in Sites : <<h[1], h[2], s>> \in DOMAIN b
           /\ \A x, y : (\A s \in Sites : <<x, y, s>> \in DOMAIN b) => <<x, y>> \in DOMAIN Means(b)
           /\ \A h \in DOMAIN Means(b) : \E s \in Sites : Means(b)[h].n = b[<<h[1], h[2], s>>].n
<1> DEFINE m == Means(b)
           at(h, s) == <<h[1], h[2], s>>
           hours == {<<k[1], k[2]>> : k \in DOMAIN b}
           full == {h \in hours : \A s \in Sites : at(h, s) \in DOMAIN b}
<1>1. /\ DOMAIN m = full
      /\ \A h \in full : m[h].key = h /\ m[h].n = Min({b[at(h, s)].n : s \in Sites})
  BY DEF Means
<1>2. DOMAIN posted = 1 .. Len(posted) /\ Len(posted) \in Nat
  OBVIOUS
<1>3. ASSUME NEW h \in full
      PROVE  /\ \E s \in Sites : m[h].n = b[at(h, s)].n
             /\ m[h].n \in DOMAIN posted /\ h[1] = posted[m[h].n].about
  <2>1. at(h, 1) \in DOMAIN b /\ at(h, 2) \in DOMAIN b
    BY DEF Sites
  <2> DEFINE p == b[at(h, 1)].n
             q == b[at(h, 2)].n
  <2>2. p \in DOMAIN posted /\ q \in DOMAIN posted /\ at(h, 1)[1] = posted[p].about
        /\ at(h, 2)[1] = posted[q].about
    BY <2>1 DEF Sound
  <2>3. {b[at(h, s)].n : s \in Sites} = {p, q}
    BY DEF Sites
  <2>4. at(h, 1)[1] = h[1] /\ at(h, 2)[1] = h[1]
    OBVIOUS
  <2> HIDE DEF at, p, q
  <2>5. Min({p, q}) \in {p, q}
    <3>1. p \in Nat /\ q \in Nat
      BY <2>2, <1>2
    <3>2. \E x \in {p, q} : \A y \in {p, q} : x <= y
      BY <3>1
    <3> QED BY <3>2 DEF Min
  <2>6. m[h].n \in {p, q}
    BY <1>1, <2>3, <2>5
  <2>7. \E s \in Sites : m[h].n = b[at(h, s)].n
    BY <2>6, <2>3
  <2> QED BY <2>2, <2>4, <2>6, <2>7
<1>4. ASSUME NEW x, NEW y, \A s \in Sites : <<x, y, s>> \in DOMAIN b
      PROVE  <<x, y>> \in full
  <2>1. <<x, y, 1>> \in DOMAIN b
    BY <1>4 DEF Sites
  <2>2. <<x, y, 1>>[1] = x /\ <<x, y, 1>>[2] = y
    OBVIOUS
  <2>3. <<x, y>> \in hours
    BY <2>1, <2>2
  <2>4. \A s \in Sites : at(<<x, y>>, s) = <<x, y, s>>
    OBVIOUS
  <2> HIDE DEF hours, at
  <2> QED BY <2>3, <2>4, <1>4
<1> HIDE DEF m
<1>5. Sound(m)
  BY <1>1, <1>3 DEF Sound
<1>6. \A h \in DOMAIN m : \A s \in Sites : <<h[1], h[2], s>> \in DOMAIN b
  BY <1>1
<1>7. \A x, y : (\A s \in Sites : <<x, y, s>> \in DOMAIN b) => <<x, y>> \in DOMAIN m
  BY <1>1, <1>4
<1>8. \A h \in DOMAIN m : \E s \in Sites : m[h].n = b[<<h[1], h[2], s>>].n
  BY <1>1, <1>3
<1> QED BY <1>5, <1>6, <1>7, <1>8 DEF m

-----------------------------------------------------------------------------
(* The invariant. *)

\* What a run may have to read.
Part ==
    IF Plan.parts \in {"windows", "window"} THEN Int \X Int
    ELSE IF Plan.parts = "sites" THEN Sites ELSE DOMAIN posted

RunRecord ==
    [phase : {"idle", "listing", "reading", "writing", "archiving", "ended", "dead"},
     page : Nat \ {0}, found : Seq(DOMAIN posted), todo : Seq(Part), buffer : {run.buffer},
     seen : 0 .. Len(posted), clean : BOOLEAN]

\* At most NoticePages pages of notices come after the first day.
Reaches == feed = "notices" => MaxDocs <= OldDocs + NoticePages * PageSize

\* A table is a function.
IsTable(t) == t = [k \in DOMAIN t |-> t[k]]

\* What the tables hold comes from documents.
Types ==
    /\ feed \in Feed /\ posted \in Seq(Doc) /\ Len(posted) <= MaxDocs
    /\ runs \in 0 .. MaxRuns /\ faults \in 0 .. MaxFaults
    /\ run \in RunRecord
    /\ Sound(table) /\ Sound(run.buffer) /\ IsTable(run.buffer)
    /\ archived \subseteq Sites \X DOMAIN posted
    /\ feed = "weather" => \A k \in DOMAIN run.buffer : k[3] \in Sites
    /\ feed = "offers" => \A k \in DOMAIN run.buffer : k[2] \in Nat
    /\ feed = "rtd" => \A k \in DOMAIN table : table[k].n = k[3]
    /\ run.todo # <<>> => run.phase = "reading"
    /\ run.buffer # <<>> => Plan.commit # "each"
    /\ run.phase = "listing" => Paged
    /\ run.phase = "archiving" => feed = "weather"

\* The results of an auction and a notice are posted once.
Once ==
    feed \in {"lt_prices", "offers", "notices"} =>
        \A m, n \in DOMAIN posted : posted[m].about = posted[n].about => m = n

\* A listing has found every document it was to find, or will: nothing that is posted
\* meanwhile moves a document to a page before the one to come.  What an archive lists
\* comes after all that is newer.
Listings ==
    run.phase = "listing" =>
        /\ \A n \in 1 .. run.seen : Newer(n) =>
              In(run.found, n) \/ n <= Len(posted) - (run.page - 1) * PageSize
        /\ Plan.parts = "archive" =>
              \A j \in DOMAIN run.found : \A n \in 1 .. run.seen :
                  Newer(n) /\ run.found[j] < n => \E i \in DOMAIN run.found : i < j /\ run.found[i] = n
        /\ Plan.parts = "notices" => run.page <= NoticePages

\* Document n is loaded, as far as the run has come.
Kept(n) ==
    \A k \in KeysOf(n) :
        \/ Plan.commit # "each" /\ Holds(run.buffer, k, n)
        \/ Plan.commit # "end" /\ Holds(table, k, n)

\* What is not loaded is still to be read, and whatever is older is read before.
Readings ==
    Reaches /\ DocLoads /\ run.phase \in {"reading", "writing"} /\ run.clean =>
        /\ \A n \in 1 .. run.seen : InScope(n) => In(run.todo, n) \/ Kept(n)
        /\ \A i \in DOMAIN run.todo : \A n \in 1 .. run.seen :
              InScope(n) /\ posted[n].about = posted[run.todo[i]].about /\ run.todo[i] < n =>
                  \E j \in DOMAIN run.todo : i < j /\ run.todo[j] = n

\* Or a window about it is still to be asked for.
Windows ==
    Plan.parts \in {"windows", "window"} /\ run.phase \in {"reading", "writing"} /\ run.clean =>
        \A n \in 1 .. run.seen :
            Kept(n) \/ \E i \in DOMAIN run.todo : posted[n].about \in run.todo[i][1] .. run.todo[i][2]

\* Or its site.
SiteReadings ==
    feed = "weather" /\ run.phase \in {"reading", "writing"} /\ run.clean
    /\ run.seen = Len(posted) /\ run.seen # 0 =>
        \A h \in KeysOf(run.seen) : \A s \in Sites :
            \/ In(run.todo, s)
            \/ /\ <<h[1], h[2], s>> \in DOMAIN run.buffer
               /\ run.buffer[<<h[1], h[2], s>>].n = run.seen

Done ==
    Reaches /\ run.phase \in {"ended", "archiving"} /\ run.clean =>
        \A n \in 1 .. run.seen : InScope(n) => \A k \in KeysOf(n) : Holds(table, k, n)

FeedInv == Types /\ Once /\ Listings /\ Readings /\ Windows /\ SiteReadings /\ Done

\* What a document is, and what a loader is to make of it, stays.
LEMMA Frozen ==
    ASSUME posted \in Seq(Doc), feed' = feed,
           \A n \in DOMAIN posted : n \in DOMAIN posted' /\ posted'[n] = posted[n]
    PROVE  /\ Plan' = Plan /\ Paged' = Paged /\ DocLoads' = DocLoads /\ Reaches' = Reaches
           /\ \A n \in DOMAIN posted : KeysOf(n)' = KeysOf(n)
           /\ feed # "weather" => \A n \in DOMAIN posted : run.seen' = run.seen => (InScope(n)' <=> InScope(n))
           /\ \A n \in DOMAIN posted : n \in Stamped' => n \in Stamped
           /\ posted' = posted => Stamped' = Stamped
<1>1. Plan' = Plan
  BY DEF Plan
<1>2. Paged' = Paged /\ DocLoads' = DocLoads /\ Reaches' = Reaches
  BY <1>1 DEF Paged, DocLoads, Reaches
<1>3. ASSUME NEW n \in DOMAIN posted PROVE KeysOf(n)' = KeysOf(n)
  <2>1. Entries(n)' = Entries(n)
    BY DEF Entries
  <2>2. ASSUME NEW es PROVE Rows(es)' = Rows(es)
    BY DEF Rows
  <2> QED BY <2>1, <2>2 DEF KeysOf
<1>4. ASSUME feed # "weather", NEW n \in DOMAIN posted, run.seen' = run.seen
      PROVE  InScope(n)' <=> InScope(n)
  <2>1. Plan.parts # "sites"
    BY <1>4, PlanFacts
  <2>2. posted'[n] = posted[n]
    OBVIOUS
  <2>3. CASE Paged
    <3>1. (InScope(n) <=> Newer(n) /\ posted[n].readable) /\ (InScope(n)' <=> Newer(n)' /\ posted'[n].readable)
      <4>1. Plan.parts \notin {"newest", "loaded", "sites"} /\ Plan'.parts \notin {"newest", "loaded", "sites"}
        BY <1>1, <2>3 DEF Paged
      <4> QED BY <1>2, <2>3, <4>1 DEF InScope
    <3> QED BY <2>2, <3>1 DEF Newer
  <2>4. CASE ~Paged /\ Plan.parts = "newest"
    BY <1>1, <1>2, <1>4, <2>4 DEF InScope
  <2>5. CASE ~Paged /\ Plan.parts = "loaded"
    <3>1. (InScope(n) <=> posted[n].about \in Loaded) /\ (InScope(n)' <=> posted'[n].about \in Loaded)
      BY <1>1, <1>2, <2>5 DEF InScope
    <3> QED BY <2>2, <3>1
  <2>6. CASE ~Paged /\ Plan.parts \notin {"newest", "loaded"}
    BY <1>1, <1>2, <2>1, <2>6 DEF InScope
  <2> QED BY <2>3, <2>4, <2>5, <2>6
<1>5. ASSUME NEW n \in DOMAIN posted, n \in Stamped' PROVE n \in Stamped
  BY <1>5 DEF Stamped
<1>6. posted' = posted => Stamped' = Stamped
  BY DEF Stamped
<1> QED BY <1>1, <1>2, <1>3, <1>4, <1>5, <1>6

\* The tables stay as they are.
LEMMA TablesKept ==
    ASSUME Types, UNCHANGED <<feed, posted, table, archived>>
    PROVE  /\ feed' \in Feed /\ posted' \in Seq(Doc) /\ Len(posted') <= MaxDocs
           /\ Sound(table)'
           /\ archived' \subseteq Sites \X DOMAIN posted'
           /\ feed' = "rtd" => \A k \in DOMAIN table' : table'[k].n = k[3]
           /\ posted \in Seq(Doc) /\ Plan' = Plan /\ Paged' = Paged /\ DocLoads' = DocLoads /\ Reaches' = Reaches
           /\ Part' = Part
           /\ \A n \in DOMAIN posted : KeysOf(n)' = KeysOf(n)
           /\ Stamped' = Stamped
<1>1. /\ Plan' = Plan /\ Paged' = Paged /\ DocLoads' = DocLoads /\ Reaches' = Reaches
      /\ \A n \in DOMAIN posted : KeysOf(n)' = KeysOf(n)
      /\ Stamped' = Stamped
  BY Frozen DEF Types
<1>2. Part' = Part
  BY <1>1 DEF Part
<1>3. Sound(table)'
  BY DEF Types, Sound
<1>4. /\ feed' \in Feed /\ posted' \in Seq(Doc) /\ Len(posted') <= MaxDocs /\ posted \in Seq(Doc)
      /\ archived' \subseteq Sites \X DOMAIN posted'
      /\ feed' = "rtd" => \A k \in DOMAIN table' : table'[k].n = k[3]
  BY DEF Types
<1> QED BY <1>1, <1>2, <1>3, <1>4

\* Nothing is posted.
LEMMA OnceKept ==
    ASSUME Once, UNCHANGED <<feed, posted>>
    PROVE  Once'
BY DEF Once

\* A run that has not begun, or died, says nothing.
LEMMA DeadStep ==
    ASSUME FeedInv, UNCHANGED <<feed, posted, table, archived>>,
           run' = [NoRun EXCEPT !.phase = "dead"],
           runs' \in 0 .. MaxRuns, faults' \in 0 .. MaxFaults
    PROVE  FeedInv'
<1>0. Types /\ Once
  BY DEF FeedInv
<1>1. /\ run'.phase = "dead" /\ run'.page = 1 /\ run'.found = <<>> /\ run'.todo = <<>>
      /\ run'.buffer = <<>> /\ run'.seen = 0 /\ run'.clean = TRUE
      /\ run' = [phase |-> "dead", page |-> 1, found |-> <<>>, todo |-> <<>>,
                 buffer |-> <<>>, seen |-> 0, clean |-> TRUE]
  BY DEF NoRun
<1>2. run' \in RunRecord'
  <2>1. Len(posted') \in Nat
    BY <1>0, TablesKept
  <2>2. <<>> \in Seq(DOMAIN posted') /\ <<>> \in Seq(Part')
    OBVIOUS
  <2> DEFINE b == run'.buffer
             R == [phase : {"idle", "listing", "reading", "writing", "archiving", "ended", "dead"},
                   page : Nat \ {0}, found : Seq(DOMAIN posted'), todo : Seq(Part'), buffer : {b},
                   seen : 0 .. Len(posted'), clean : BOOLEAN]
  <2>3. RunRecord' = R
    BY DEF RunRecord
  <2>4. b = <<>> /\ 0 \in 0 .. Len(posted')
    BY <1>1, <2>1
  <2> HIDE DEF b
  <2>5. [phase |-> "dead", page |-> 1, found |-> <<>>, todo |-> <<>>,
         buffer |-> b, seen |-> 0, clean |-> TRUE] \in R
    BY <2>2, <2>4
  <2> QED BY <1>1, <2>3, <2>4, <2>5
<1>3. Sound(run.buffer)' /\ IsTable(run.buffer)'
  <2>1. IsTable(<<>>)
    BY DEF IsTable
  <2>2. IsTable(run.buffer)'
    BY <1>1, <2>1 DEF IsTable
  <2> QED BY <1>1, <2>2 DEF Sound
<1>4. Types'
  BY <1>0, <1>1, <1>2, <1>3, TablesKept DEF Types
<1>5. Once'
  BY <1>0, OnceKept
<1>6. Listings' /\ Readings' /\ Windows' /\ SiteReadings' /\ Done'
  BY <1>1 DEF Listings, Readings, Windows, SiteReadings, Done
<1> QED BY <1>4, <1>5, <1>6 DEF FeedInv

\* A document more.
LEMMA PostStep ==
    ASSUME FeedInv, NEW d \in Doc, Post(d)
    PROVE  FeedInv'
<1>0. /\ Types /\ Once /\ Listings /\ Readings /\ Windows /\ SiteReadings /\ Done
      /\ posted \in Seq(Doc) /\ DOMAIN posted = 1 .. Len(posted) /\ Len(posted) \in Nat
  BY DEF FeedInv, Types
<1>1. UNCHANGED <<feed, table, archived, run, runs, faults>>
  BY DEF Post
<1>2. /\ posted' \in Seq(Doc) /\ Len(posted') = Len(posted) + 1 /\ Len(posted') <= MaxDocs
      /\ DOMAIN posted' = 1 .. Len(posted) + 1
      /\ posted'[Len(posted) + 1] = d
      /\ \A n \in DOMAIN posted : n \in DOMAIN posted' /\ posted'[n] = posted[n]
  BY <1>0, FeedsAssumption DEF Post
<1>3. /\ Plan' = Plan /\ Paged' = Paged /\ DocLoads' = DocLoads /\ Reaches' = Reaches
      /\ \A n \in DOMAIN posted : KeysOf(n)' = KeysOf(n)
      /\ feed # "weather" => \A n \in DOMAIN posted : InScope(n)' <=> InScope(n)
      /\ \A n \in DOMAIN posted : n \in Stamped' => n \in Stamped
  BY <1>0, <1>1, <1>2, Frozen
<1>4. /\ run \in RunRecord /\ run.seen \in 0 .. Len(posted) /\ run.found \in Seq(DOMAIN posted)
      /\ run.todo \in Seq(Part) /\ run.page \in Nat \ {0}
      /\ \A n \in 1 .. run.seen : n \in DOMAIN posted
  BY <1>0 DEF Types, RunRecord
<1>5. Part \subseteq Part' /\ (DocLoads => Part = DOMAIN posted)
  BY <1>2, <1>3 DEF Part, DocLoads
<1>6. run' \in RunRecord'
  <2>1. Seq(DOMAIN posted) \subseteq Seq(DOMAIN posted') /\ Seq(Part) \subseteq Seq(Part')
    <3>1. ASSUME NEW S, NEW T, S \subseteq T PROVE Seq(S) \subseteq Seq(T)
      BY <3>1
    <3>2. DOMAIN posted \subseteq DOMAIN posted'
      BY <1>2
    <3> QED BY <3>1, <3>2, <1>5
  <2>2. 0 .. Len(posted) \subseteq 0 .. Len(posted')
    BY <1>0, <1>2
  <2> QED BY <1>1, <1>4, <2>1, <2>2 DEF RunRecord
<1>7. ASSUME NEW t, Sound(t)
      PROVE  \A k \in DOMAIN t : /\ t[k].key = k /\ t[k].n \in DOMAIN posted'
                                 /\ k[1] = posted'[t[k].n].about
  BY <1>2, <1>7 DEF Sound
<1>8. Types'
  <2>1. Sound(table)' /\ Sound(run.buffer)' /\ IsTable(run.buffer)'
    BY <1>0, <1>1, <1>7, SMTT(30) DEF Types, Sound, IsTable
  <2>2. archived' \subseteq Sites \X DOMAIN posted'
    BY <1>0, <1>1, <1>2 DEF Types
  <2> QED BY <1>0, <1>1, <1>2, <1>3, <1>6, <2>1, <2>2 DEF Types
<1>9. Once'
  BY <1>0, <1>1, <1>2 DEF Once, Post
<1>10. Listings'
  <2> SUFFICES ASSUME run.phase = "listing" PROVE Listings'
    BY <1>1 DEF Listings
  <2>1. /\ \A n \in 1 .. run.seen : Newer(n) =>
              In(run.found, n) \/ n <= Len(posted) - (run.page - 1) * PageSize
        /\ Plan.parts = "archive" =>
              \A j \in DOMAIN run.found : \A n \in 1 .. run.seen :
                  Newer(n) /\ run.found[j] < n => \E i \in DOMAIN run.found : i < j /\ run.found[i] = n
        /\ Plan.parts = "notices" => run.page <= NoticePages
    BY <1>0 DEF Listings
  <2>2. (run.page - 1) * PageSize \in Int
    BY <1>4, FeedsAssumption
  <2>3. ASSUME NEW n \in 1 .. run.seen, n <= Len(posted) - (run.page - 1) * PageSize
        PROVE  n <= Len(posted') - (run.page - 1) * PageSize
    <3> DEFINE x == (run.page - 1) * PageSize
    <3>1. x \in Int /\ n <= Len(posted) - x /\ n \in Int
      BY <2>2, <2>3
    <3> HIDE DEF x
    <3>2. n <= Len(posted') - x
      BY <1>0, <1>2, <3>1
    <3> QED BY <3>2 DEF x
  <2> QED BY <1>1, <1>3, <2>1, <2>3 DEF Listings, Newer, In, NoticePages
<1>11. ASSUME NEW n \in DOMAIN posted, Kept(n) PROVE Kept(n)'
  BY <1>1, <1>3, <1>11 DEF Kept, Holds
<1>12. Readings'
  <2> SUFFICES ASSUME Reaches, DocLoads, run.phase \in {"reading", "writing"}, run.clean
               PROVE  /\ \A n \in 1 .. run.seen : InScope(n)' => In(run.todo, n) \/ Kept(n)'
                      /\ \A i \in DOMAIN run.todo : \A n \in 1 .. run.seen :
                            InScope(n)' /\ posted'[n].about = posted'[run.todo[i]].about
                            /\ run.todo[i] < n =>
                                \E j \in DOMAIN run.todo : i < j /\ run.todo[j] = n
    BY <1>1, <1>3 DEF Readings, In
  <2>1. feed # "weather"
    BY DocFeeds
  <2>2. ASSUME NEW n \in 1 .. run.seen
        PROVE  /\ n \in DOMAIN posted /\ posted'[n] = posted[n]
               /\ (InScope(n)' <=> InScope(n))
    BY <1>2, <1>3, <1>4, <2>1
  <2>3. \A i \in DOMAIN run.todo : run.todo[i] \in DOMAIN posted
    BY <1>4, <1>5
  <2> QED BY <1>0, <1>2, <1>11, <2>2, <2>3 DEF Readings
<1>13. Windows'
  <2> SUFFICES ASSUME Plan.parts \in {"windows", "window"}, run.phase \in {"reading", "writing"},
                      run.clean, NEW n \in 1 .. run.seen
               PROVE  \/ Kept(n)'
                      \/ \E i \in DOMAIN run.todo :
                            posted'[n].about \in run.todo[i][1] .. run.todo[i][2]
    BY <1>1, <1>3 DEF Windows
  <2>1. n \in DOMAIN posted /\ posted'[n] = posted[n]
    BY <1>2, <1>4
  <2>2. Kept(n) \/ \E i \in DOMAIN run.todo : posted[n].about \in run.todo[i][1] .. run.todo[i][2]
    BY <1>0 DEF Windows
  <2> QED BY <1>11, <2>1, <2>2
<1>14. SiteReadings'
  <2>1. run'.seen # Len(posted')
    BY <1>0, <1>1, <1>2, <1>4
  <2> QED BY <2>1 DEF SiteReadings
<1>15. Done'
  <2> SUFFICES ASSUME Reaches, run.phase \in {"ended", "archiving"}, run.clean,
                      NEW n \in 1 .. run.seen, InScope(n)'
               PROVE  \A k \in KeysOf(n)' : Holds(table, k, n)'
    BY <1>1, <1>3 DEF Done
  <2>1. n \in DOMAIN posted
    BY <1>4
  <2>2. CASE feed # "weather"
    BY <1>0, <1>1, <1>3, <2>1, <2>2 DEF Done, Holds
  <2>3. CASE feed = "weather"
    <3>1. Plan.parts = "sites"
      BY <2>3, PlanFacts
    <3>2. InScope(n)' <=> n = Len(posted')
      BY <1>3, <3>1 DEF InScope, Paged
    <3> QED BY <3>2, <1>0, <1>2, <1>4
  <2> QED BY <2>2, <2>3
<1> QED BY <1>8, <1>9, <1>10, <1>12, <1>13, <1>14, <1>15 DEF FeedInv

-----------------------------------------------------------------------------
(* Windows, parts and pages. *)

\* What an integer quotient is.
LEMMA Quotient ==
    ASSUME NEW a \in Nat, NEW b \in Nat \ {0}
    PROVE  /\ a \div b \in Nat
           /\ b * (a \div b) <= a /\ a < b * (a \div b) + b
OBVIOUS

\* A positive factor on both sides of an inequality.
LEMMA Cancel ==
    ASSUME NEW b \in Nat \ {0}, NEW x \in Int, NEW y \in Int, b * x < b * y
    PROVE  x < y
<1> SUFFICES ASSUME ~(x < y) PROVE FALSE OBVIOUS
<1>1. PICK c \in Nat : x = y + c
  <2>1. x - y \in Nat /\ x = y + (x - y) OBVIOUS
  <2> QED BY <2>1
<1>2. b * x = b * y + b * c
  BY <1>1
<1>3. b * c \in Nat /\ b * y \in Int
  OBVIOUS
<1> QED BY <1>2, <1>3

\* The last day or hour of the range.
LEMMA LastOfRange ==
    /\ LastAbout \in About /\ LastAbout \in Nat /\ LastAbout > 1
    /\ \A a \in About : a \in 1 .. LastAbout
<1>1. \A a \in About : a \in Nat \ {0}
  BY DocAssumption DEF About
<1>2. PICK last \in About : last > 1 /\ \A a \in About : a <= last
  BY RangeAssumption
<1>3. LastAbout \in About /\ \A a \in About : LastAbout >= a
  <2>1. \E x \in About : \A y \in About : x >= y
    BY <1>1, <1>2
  <2> QED BY <2>1 DEF LastAbout, Max
<1>4. LastAbout >= last
  BY <1>2, <1>3
<1> QED BY <1>1, <1>2, <1>3, <1>4

\* The lesser of two numbers.
LEMMA MinOfTwo ==
    ASSUME NEW x \in Int, NEW y \in Int
    PROVE  Min({x, y}) \in {x, y} /\ Min({x, y}) <= x /\ Min({x, y}) <= y
<1>1. \E z \in {x, y} : \A w \in {x, y} : z <= w
  OBVIOUS
<1> QED BY <1>1 DEF Min

\* The windows of a range leave no day out.
LEMMA ChunksCover ==
    ASSUME NEW last \in Nat, last > 1
    PROVE  /\ Chunks(1, last) \in Seq(Int \X Int)
           /\ \A a \in 1 .. last : \E i \in DOMAIN Chunks(1, last) :
                 a \in Chunks(1, last)[i][1] .. Chunks(1, last)[i][2]
<1> DEFINE x == last - 1 + Span
           c == x \div Span
           w(i) == <<1 + (i - 1) * Span, Min({1 + i * Span - 1, last})>>
           ws == Chunks(1, last)
<1>1. Span \in Nat \ {0} /\ x \in Nat
  BY FeedsAssumption
<1>2. ws = [i \in 1 .. c |-> w(i)]
  BY DEF Chunks
<1> HIDE DEF ws
<1>3. c \in Nat /\ Span * c <= x /\ x < Span * c + Span
  <2> HIDE DEF x
  <2> QED BY <1>1, Quotient
<1> HIDE DEF c
<1>4. ASSUME NEW i \in 1 .. c
      PROVE  /\ w(i) \in Int \X Int /\ w(i)[1] = 1 + (i - 1) * Span
             /\ w(i)[2] \in {i * Span, last}
  <2>1. 1 + i * Span - 1 = i * Span /\ i * Span \in Int /\ (i - 1) * Span \in Int
    BY <1>1
  <2>2. Min({i * Span, last}) \in {i * Span, last}
    <3>1. PICK y \in Int : y = i * Span
      BY <2>1
    <3>2. Min({y, last}) \in {y, last}
      <4>1. last \in Int
        OBVIOUS
      <4> QED BY <4>1, MinOfTwo
    <3> QED BY <3>1, <3>2
  <2> HIDE DEF w
  <2>3. w(i) = <<1 + (i - 1) * Span, Min({i * Span, last})>>
    BY <2>1 DEF w
  <2> QED BY <2>1, <2>2, <2>3
<1> HIDE DEF w
<1>5. ws \in Seq(Int \X Int)
  BY <1>2, <1>3, <1>4
<1>6. ASSUME NEW a \in 1 .. last
      PROVE  \E i \in 1 .. c : a \in w(i)[1] .. w(i)[2]
  <2> DEFINE q == (a - 1) \div Span
  <2>1. q \in Nat /\ Span * q <= a - 1 /\ a - 1 < Span * q + Span
    <3>1. a - 1 \in Nat
      OBVIOUS
    <3> QED BY <3>1, <1>1, Quotient
  <2> HIDE DEF q
  <2>2. Span * q \in Nat /\ Span * c \in Nat
    BY <1>1, <1>3, <2>1
  <2>3. Span * q < Span * c
    BY <1>1, <1>3, <2>1, <2>2 DEF x
  <2>4. q < c
    BY <1>1, <1>3, <2>1, <2>3, Cancel
  <2>5. q + 1 \in 1 .. c
    BY <1>3, <2>1, <2>4
  <2>6. w(q + 1)[1] = 1 + Span * q /\ w(q + 1)[2] \in {Span * q + Span, last}
    <3>1. PICK i \in 1 .. c : i = q + 1
      BY <2>5
    <3>2. w(i)[1] = 1 + (i - 1) * Span /\ w(i)[2] \in {i * Span, last}
      BY <1>4
    <3>3. i * Span = Span * q + Span /\ (i - 1) * Span = Span * q
      BY <3>1, <1>1, <2>1
    <3> QED BY <3>1, <3>2, <3>3
  <2>7. a \in w(q + 1)[1] .. w(q + 1)[2]
    BY <1>1, <2>1, <2>2, <2>6
  <2> QED BY <2>5, <2>7
<1>7. DOMAIN ws = 1 .. c /\ \A i \in 1 .. c : ws[i] = w(i)
  BY <1>2
<1> QED BY <1>5, <1>6, <1>7 DEF ws

\* Nor do those that share their ends.
LEMMA SharedEndsCover ==
    ASSUME NEW last \in Nat, last > 1
    PROVE  /\ SharedEnds(1, last) \in Seq(Int \X Int)
           /\ \A a \in 1 .. last : \E i \in DOMAIN SharedEnds(1, last) :
                 a \in SharedEnds(1, last)[i][1] .. SharedEnds(1, last)[i][2]
<1> DEFINE x == last - 1 + Span - 1
           c == x \div Span
           w(i) == <<1 + (i - 1) * Span, Min({1 + i * Span, last})>>
           ws == SharedEnds(1, last)
<1>1. Span \in Nat \ {0} /\ x \in Nat
  BY FeedsAssumption
<1>2. ws = [i \in 1 .. c |-> w(i)]
  BY DEF SharedEnds
<1> HIDE DEF ws
<1>3. c \in Nat /\ Span * c <= x /\ x < Span * c + Span
  <2> HIDE DEF x
  <2> QED BY <1>1, Quotient
<1> HIDE DEF c
<1>4. ASSUME NEW i \in 1 .. c
      PROVE  /\ w(i) \in Int \X Int /\ w(i)[1] = 1 + (i - 1) * Span
             /\ w(i)[2] \in {1 + i * Span, last}
  <2>1. 1 + i * Span \in Int /\ (i - 1) * Span \in Int
    BY <1>1
  <2>2. Min({1 + i * Span, last}) \in {1 + i * Span, last}
    <3>1. PICK y \in Int : y = 1 + i * Span
      BY <2>1
    <3>2. Min({y, last}) \in {y, last}
      <4>1. last \in Int
        OBVIOUS
      <4> QED BY <4>1, MinOfTwo
    <3> QED BY <3>1, <3>2
  <2> QED BY <2>1, <2>2
<1> HIDE DEF w
<1>5. ws \in Seq(Int \X Int)
  BY <1>2, <1>3, <1>4
<1>6. ASSUME NEW a \in 1 .. last
      PROVE  \E i \in 1 .. c : a \in w(i)[1] .. w(i)[2]
  <2> DEFINE b == IF a = 1 THEN 0 ELSE a - 2
             q == b \div Span
  <2>0. b \in Nat /\ b <= last - 2 /\ a - 2 <= b /\ b <= a - 1
    OBVIOUS
  <2> HIDE DEF b
  <2>1. q \in Nat /\ Span * q <= b /\ b < Span * q + Span
    BY <2>0, <1>1, Quotient
  <2> HIDE DEF q
  <2>2. Span * q \in Nat /\ Span * c \in Nat
    BY <1>1, <1>3, <2>1
  <2>3. Span * q < Span * c
    BY <1>1, <1>3, <2>0, <2>1, <2>2 DEF x
  <2>4. q < c
    BY <1>1, <1>3, <2>1, <2>3, Cancel
  <2>5. q + 1 \in 1 .. c
    BY <1>3, <2>1, <2>4
  <2>6. w(q + 1)[1] = 1 + Span * q /\ w(q + 1)[2] \in {1 + (Span * q + Span), last}
    <3>1. PICK i \in 1 .. c : i = q + 1
      BY <2>5
    <3>2. w(i)[1] = 1 + (i - 1) * Span /\ w(i)[2] \in {1 + i * Span, last}
      BY <1>4
    <3>3. i * Span = Span * q + Span /\ (i - 1) * Span = Span * q
      BY <3>1, <1>1, <2>1
    <3> QED BY <3>1, <3>2, <3>3
  <2>7. a \in w(q + 1)[1] .. w(q + 1)[2]
    BY <1>1, <2>0, <2>1, <2>2, <2>6
  <2> QED BY <2>5, <2>7
<1>7. DOMAIN ws = 1 .. c /\ \A i \in 1 .. c : ws[i] = w(i)
  BY <1>2
<1> QED BY <1>5, <1>6, <1>7 DEF ws

\* The same elements, from the last to the first.
LEMMA ReverseFacts ==
    ASSUME NEW T, NEW s \in Seq(T)
    PROVE  /\ Reverse(s) \in Seq(T) /\ Len(Reverse(s)) = Len(s)
           /\ \A i \in 1 .. Len(s) : Reverse(s)[i] = s[Len(s) - i + 1] /\ Len(s) - i + 1 \in 1 .. Len(s)
           /\ \A x : In(Reverse(s), x) <=> In(s, x)
<1> DEFINE r == Reverse(s)
<1>0. Len(s) \in Nat /\ DOMAIN s = 1 .. Len(s) /\ \A i \in 1 .. Len(s) : s[i] \in T
  OBVIOUS
<1>1. r = [i \in 1 .. Len(s) |-> s[(Len(s) - i) + 1]]
  BY DEF Reverse
<1> HIDE DEF r
<1>2. \A i \in 1 .. Len(s) : Len(s) - i + 1 \in 1 .. Len(s)
  BY <1>0
<1>3. r \in Seq(T) /\ Len(r) = Len(s) /\ DOMAIN r = 1 .. Len(s)
  BY <1>0, <1>1, <1>2
<1>4. ASSUME NEW x, In(s, x) PROVE In(r, x)
  <2>1. PICK j \in 1 .. Len(s) : s[j] = x
    BY <1>0, <1>4 DEF In
  <2>2. PICK i \in 1 .. Len(s) : i = Len(s) - j + 1
    BY <1>2
  <2>3. Len(s) - i + 1 = j
    BY <1>0, <2>2
  <2>4. r[i] = s[j]
    BY <1>1, <2>3
  <2> QED BY <1>3, <2>1, <2>4 DEF In
<1>5. ASSUME NEW x, In(r, x) PROVE In(s, x)
  <2>1. PICK j \in 1 .. Len(s) : r[j] = x
    BY <1>3, <1>5 DEF In
  <2>2. PICK i \in 1 .. Len(s) : i = Len(s) - j + 1
    BY <1>2
  <2>3. r[j] = s[i]
    BY <1>1, <2>2
  <2> QED BY <1>0, <2>1, <2>3 DEF In
<1> QED BY <1>1, <1>2, <1>3, <1>4, <1>5 DEF r

\* What a run has to read when it starts.
LEMMA PartsFacts ==
    ASSUME posted \in Seq(Doc), Plan.parts = "newest" => posted # <<>>
    PROVE  /\ Parts \in Seq(Part)
           /\ Paged => Parts = <<>>
           /\ Plan.parts = "newest" => Parts = <<Len(posted)>>
           /\ Plan.parts = "loaded" =>
                 \A n \in DOMAIN posted : posted[n].about \in Loaded => In(Parts, n)
           /\ Plan.parts \in {"windows", "window"} =>
                 \A n \in DOMAIN posted : \E i \in DOMAIN Parts :
                     posted[n].about \in Parts[i][1] .. Parts[i][2]
           /\ Plan.parts = "sites" => \A s \in Sites : In(Parts, s)
<1>0. DOMAIN posted = 1 .. Len(posted) /\ Len(posted) \in Nat
  OBVIOUS
<1>1. ASSUME Paged PROVE Parts = <<>>
  <2>1. Plan.parts \in {"archive", "notices"}
    BY <1>1 DEF Paged
  <2> QED BY <2>1 DEF Parts
<1>2. CASE Paged
  <2>1. <<>> \in Seq(Part) /\ Plan.parts \notin {"newest", "loaded", "windows", "window", "sites"}
    BY <1>2 DEF Paged
  <2> QED BY <2>1, <1>1, <1>2
<1>3. CASE Plan.parts = "newest"
  <2>1. Parts = <<Len(posted)>>
    BY <1>3 DEF Parts
  <2>2. Len(posted) \in DOMAIN posted /\ Part = DOMAIN posted
    BY <1>0, <1>3 DEF Part
  <2>3. Parts \in Seq(Part)
    BY <2>1, <2>2
  <2> QED BY <1>3, <2>1, <2>3 DEF Paged
<1>4. CASE Plan.parts = "loaded"
  <2> DEFINE all == [n \in DOMAIN posted |-> n]
             S == {n \in DOMAIN posted : posted[n].about \in Loaded}
  <2>1. Parts = Among(Reverse(all), S)
    BY <1>4 DEF Parts
  <2>2. all \in Seq(DOMAIN posted) /\ \A n \in DOMAIN posted : In(all, n)
    BY <1>0 DEF In
  <2> HIDE DEF all
  <2>3. Reverse(all) \in Seq(DOMAIN posted) /\ \A n \in DOMAIN posted : In(Reverse(all), n)
    BY <2>2, ReverseFacts
  <2> DEFINE back == Reverse(all)
  <2>4. /\ Among(back, S) \in Seq(DOMAIN posted)
        /\ \A x : In(Among(back, S), x) <=> In(back, x) /\ x \in S
    <3> HIDE DEF back, S
    <3> QED BY <2>3, AmongFacts DEF back
  <2>5. Part = DOMAIN posted
    BY <1>4 DEF Part
  <2>6. Parts \in Seq(Part)
    BY <2>1, <2>4, <2>5
  <2>7. \A n \in DOMAIN posted : posted[n].about \in Loaded => In(Parts, n)
    BY <2>1, <2>3, <2>4
  <2> QED BY <1>4, <2>6, <2>7 DEF Paged
<1>5. CASE Plan.parts \in {"windows", "window"}
  <2>1. Part = Int \X Int
    BY <1>5 DEF Part
  <2>2. \A n \in DOMAIN posted : posted[n].about \in 1 .. LastAbout
    <3>1. \A n \in DOMAIN posted : posted[n] \in Doc
      OBVIOUS
    <3> QED BY <3>1, LastOfRange DEF About
  <2>3. /\ Parts \in Seq(Int \X Int)
        /\ \A a \in 1 .. LastAbout : \E i \in DOMAIN Parts : a \in Parts[i][1] .. Parts[i][2]
    <3>1. CASE Plan.parts = "windows" /\ feed = "constraint_history"
      <4>1. Parts = SharedEnds(1, LastAbout)
        BY <3>1 DEF Parts
      <4> QED BY <4>1, SharedEndsCover, LastOfRange
    <3>2. CASE Plan.parts = "windows" /\ feed # "constraint_history"
      <4>1. Parts = Chunks(1, LastAbout)
        BY <3>2 DEF Parts
      <4> QED BY <4>1, ChunksCover, LastOfRange
    <3>3. CASE Plan.parts = "window"
      <4>1. Parts = <<<<1, LastAbout>>>>
        BY <3>3 DEF Parts
      <4>2. 1 \in DOMAIN Parts /\ Parts[1] = <<1, LastAbout>> /\ Parts[1][1] = 1 /\ Parts[1][2] = LastAbout
        BY <4>1
      <4>3. <<1, LastAbout>> \in Int \X Int
        BY LastOfRange
      <4>4. Parts \in Seq(Int \X Int)
        BY <4>1, <4>3
      <4> QED BY <4>2, <4>4
    <3> QED BY <1>5, <3>1, <3>2, <3>3
  <2> QED BY <1>5, <2>1, <2>2, <2>3 DEF Paged
<1>6. CASE Plan.parts = "sites"
  <2>1. Parts = [s \in Sites |-> s]
    BY <1>6 DEF Parts
  <2>2. Part = Sites
    BY <1>6 DEF Part
  <2>3. Parts \in Seq(Part) /\ \A s \in Sites : In(Parts, s)
    BY <2>1, <2>2 DEF Sites, In
  <2> QED BY <1>6, <2>3 DEF Paged
<1> QED BY <1>2, <1>3, <1>4, <1>5, <1>6, PlanFacts DEF Paged

\* A run starts.
LEMMA StartStep ==
    ASSUME FeedInv, StartLoad
    PROVE  FeedInv'
<1>0. /\ Types /\ Once
      /\ posted \in Seq(Doc) /\ DOMAIN posted = 1 .. Len(posted) /\ Len(posted) \in Nat
  BY DEF FeedInv, Types
<1>1. UNCHANGED <<feed, posted, table, archived>> /\ runs' \in 0 .. MaxRuns /\ faults' = faults
  BY <1>0, FeedsAssumption DEF StartLoad, Types
<1> DEFINE phase == IF Paged THEN "listing" ELSE "reading"
<1>2. /\ run' = [phase |-> phase, page |-> 1, found |-> <<>>, todo |-> Parts,
                 buffer |-> <<>>, seen |-> Len(posted), clean |-> TRUE]
      /\ run'.phase = phase /\ run'.page = 1 /\ run'.found = <<>> /\ run'.todo = Parts
      /\ run'.buffer = <<>> /\ run'.seen = Len(posted) /\ run'.clean = TRUE
  BY DEF StartLoad, NoRun
<1>3. /\ Parts \in Seq(Part)
      /\ Paged => Parts = <<>>
      /\ Plan.parts = "newest" => Parts = <<Len(posted)>>
      /\ Plan.parts = "loaded" =>
            \A n \in DOMAIN posted : posted[n].about \in Loaded => In(Parts, n)
      /\ Plan.parts \in {"windows", "window"} =>
            \A n \in DOMAIN posted : \E i \in DOMAIN Parts :
                posted[n].about \in Parts[i][1] .. Parts[i][2]
      /\ Plan.parts = "sites" => \A s \in Sites : In(Parts, s)
  BY <1>0, PartsFacts DEF StartLoad
<1>4. /\ Plan' = Plan /\ Paged' = Paged /\ DocLoads' = DocLoads /\ Reaches' = Reaches /\ Part' = Part
      /\ \A n \in DOMAIN posted : KeysOf(n)' = KeysOf(n)
  BY <1>0, <1>1, TablesKept
<1>5. run' \in RunRecord'
  <2> DEFINE b == run'.buffer
             R == [phase : {"idle", "listing", "reading", "writing", "archiving", "ended", "dead"},
                   page : Nat \ {0}, found : Seq(DOMAIN posted), todo : Seq(Part), buffer : {b},
                   seen : 0 .. Len(posted), clean : BOOLEAN]
  <2>1. RunRecord' = R
    BY <1>1, <1>4 DEF RunRecord
  <2>2. b = <<>> /\ Len(posted) \in 0 .. Len(posted) /\ <<>> \in Seq(DOMAIN posted)
    BY <1>0, <1>2
  <2> HIDE DEF b
  <2>3. [phase |-> phase, page |-> 1, found |-> <<>>, todo |-> Parts,
         buffer |-> b, seen |-> Len(posted), clean |-> TRUE] \in R
    BY <2>2, <1>3
  <2> QED BY <1>2, <2>1, <2>2, <2>3
<1>6. Types'
  <2>1. Sound(run.buffer)' /\ IsTable(run.buffer)'
    BY <1>2 DEF Sound, IsTable
  <2>2. /\ run'.todo # <<>> => run'.phase = "reading"
        /\ run'.phase = "listing" => Paged
        /\ run'.phase # "archiving"
    BY <1>2, <1>3
  <2>3. \A k \in DOMAIN run'.buffer : FALSE
    BY <1>2
  <2>4. faults' \in 0 .. MaxFaults
    BY <1>0, <1>1 DEF Types
  <2> QED BY <1>0, <1>1, <1>2, <1>4, <1>5, <2>1, <2>2, <2>3, <2>4, TablesKept DEF Types
<1>7. Once'
  BY <1>0, <1>1, OnceKept
<1>8. Listings'
  <2>1. \A n \in 1 .. Len(posted) : n <= Len(posted) - (1 - 1) * PageSize
    BY <1>0, FeedsAssumption
  <2>2. 1 <= NoticePages
    BY DEF NoticePages
  <2> QED BY <1>1, <1>2, <2>1, <2>2 DEF Listings
<1>9. Readings'
  <2> SUFFICES ASSUME DocLoads, run'.phase = "reading"
               PROVE  /\ \A n \in 1 .. run'.seen : InScope(n)' => In(run'.todo, n)
                      /\ \A i \in DOMAIN run'.todo : \A n \in 1 .. run'.seen :
                            InScope(n)' /\ posted'[n].about = posted'[run'.todo[i]].about
                            /\ run'.todo[i] < n =>
                                \E j \in DOMAIN run'.todo : i < j /\ run'.todo[j] = n
    BY <1>2, <1>4 DEF Readings
  <2>1. Plan.parts \in {"newest", "loaded"} /\ ~Paged
    BY <1>2 DEF DocLoads, Paged
  <2>2. CASE Plan.parts = "newest"
    <3>1. \A n : InScope(n)' <=> n = Len(posted)
      BY <1>2, <1>4, <2>1, <2>2 DEF InScope
    <3>2. DOMAIN Parts = {1} /\ Parts[1] = Len(posted)
      BY <1>3, <2>2
    <3> QED BY <1>0, <1>2, <3>1, <3>2 DEF In
  <2>3. CASE Plan.parts = "loaded"
    <3>1. \A n : InScope(n)' <=> posted[n].about \in Loaded
      BY <1>1, <1>4, <2>1, <2>3 DEF InScope
    <3>2. feed = "lt_prices"
      BY <2>3, PlanFacts
    <3>3. Part = DOMAIN posted
      BY <2>3 DEF Part
    <3>4. \A i \in DOMAIN Parts : Parts[i] \in DOMAIN posted
      BY <1>3, <3>3
    <3>5. ASSUME NEW i \in DOMAIN Parts, NEW n \in DOMAIN posted, Parts[i] < n,
                 posted[n].about = posted[Parts[i]].about
          PROVE  FALSE
      BY <1>0, <3>2, <3>4, <3>5 DEF Once
    <3> QED BY <1>0, <1>1, <1>2, <1>3, <2>3, <3>1, <3>5
  <2> QED BY <2>1, <2>2, <2>3
<1>10. Windows'
  BY <1>0, <1>1, <1>2, <1>3, <1>4 DEF Windows
<1>11. SiteReadings'
  <2>1. feed = "weather" => Plan.parts = "sites"
    BY PlanFacts
  <2> QED BY <1>1, <1>2, <1>3, <2>1 DEF SiteReadings
<1>12. Done'
  BY <1>2 DEF Done
<1> QED BY <1>6, <1>7, <1>8, <1>9, <1>10, <1>11, <1>12 DEF FeedInv

\* Page r of a listing, newest first, which a newer documents come before, and with which
\* they are b.
PageOf(r, a, b) ==
    /\ r \in Seq(DOMAIN posted) /\ b = a + PageSize
    /\ Len(r) = IF a < b /\ a < Len(posted) THEN Min({b, Len(posted)}) - a ELSE 0
    /\ \A i \in 1 .. Len(r) : r[i] = Len(posted) + 1 - a - i
    /\ \A n \in DOMAIN posted : n <= Len(posted) - a /\ n > Len(posted) - b => In(r, n)

\* A page of a listing is one.
LEMMA PageFacts ==
    ASSUME posted \in Seq(Doc), NEW p \in Nat \ {0}, NEW r, r = ListingPage(p)
    PROVE  \E a, b \in Nat : a = (p - 1) * PageSize /\ b = p * PageSize /\ PageOf(r, a, b)
<1>20. PICK a \in Nat : a = (p - 1) * PageSize
  BY FeedsAssumption
<1>21. PICK b \in Nat : b = p * PageSize
  BY FeedsAssumption
<1> DEFINE L == Len(posted)
           down == [i \in DOMAIN posted |-> L + 1 - i]
           e == Min({b, L})
<1>0. L \in Nat /\ DOMAIN posted = 1 .. L /\ PageSize \in Nat \ {0}
  BY FeedsAssumption
<1>1. b = a + PageSize
  BY <1>0, <1>20, <1>21
<1>2. r = SubSeq(down, a + 1, e)
  BY <1>20, <1>21 DEF ListingPage
<1> HIDE DEF L
<1>3. e \in {b, L} /\ e <= b /\ e <= L
  <2>1. b \in Int /\ L \in Int
    BY <1>0
  <2> QED BY <2>1, MinOfTwo
<1> HIDE DEF e
<1>4. \A i \in 1 .. L : down[i] = L + 1 - i /\ down[i] \in 1 .. L
  BY <1>0
<1> HIDE DEF down
<1>5. a + 1 \in Int /\ e \in Int
  BY <1>0, <1>3
<1>6. \A i \in a + 1 .. e : down[i] \in 1 .. L
  BY <1>0, <1>3, <1>4
<1>7. /\ r \in Seq(1 .. L)
      /\ Len(r) = IF a + 1 <= e THEN e - (a + 1) + 1 ELSE 0
      /\ \A i \in 1 .. e - (a + 1) + 1 : r[i] = down[(a + 1) + i - 1]
  <2>1. PICK m \in Int : m = a + 1
    BY <1>5
  <2>2. \A i \in m .. e : down[i] \in 1 .. L
    BY <1>6, <2>1
  <2>3. /\ SubSeq(down, m, e) \in Seq(1 .. L)
        /\ Len(SubSeq(down, m, e)) = IF m <= e THEN e - m + 1 ELSE 0
        /\ \A i \in 1 .. e - m + 1 : SubSeq(down, m, e)[i] = down[m + i - 1]
    BY <1>5, <2>2, SubSeqProperties
  <2> QED BY <1>2, <2>1, <2>3
<1>8. /\ Len(r) = IF a < b /\ a < L THEN e - a ELSE 0
  BY <1>0, <1>1, <1>3, <1>7
<1>9. ASSUME NEW i \in 1 .. Len(r)
      PROVE  r[i] = L + 1 - a - i
  <2>1. i \in 1 .. e - (a + 1) + 1 /\ a + i \in 1 .. L /\ (a + 1) + i - 1 = a + i
    BY <1>0, <1>3, <1>7, <1>8
  <2>2. r[i] = down[a + i]
    BY <1>7, <2>1
  <2>3. down[a + i] = L + 1 - (a + i)
    BY <1>4, <2>1
  <2> QED BY <1>0, <2>1, <2>2, <2>3
<1>10. ASSUME NEW n \in DOMAIN posted, n <= L - a, n > L - b
       PROVE  In(r, n)
  <2>1. PICK i \in Int : i = L + 1 - n - a
    BY <1>0
  <2>2. i \in 1 .. Len(r)
    BY <1>0, <1>3, <1>8, <1>10, <2>1
  <2>3. r[i] = n
    BY <1>0, <1>9, <2>1, <2>2
  <2>4. DOMAIN r = 1 .. Len(r)
    BY <1>7
  <2> QED BY <2>2, <2>3, <2>4 DEF In
<1>11. PageOf(r, a, b)
  BY <1>0, <1>1, <1>7, <1>8, <1>9, <1>10 DEF PageOf, L, e
<1> QED BY <1>11, <1>20, <1>21

-----------------------------------------------------------------------------
(* The steps of a run. *)

\* No document that the run is to list is left for the pages after the last one.
LEMMA LastPage ==
    ASSUME posted \in Seq(Doc), Len(posted) <= MaxDocs, Reaches,
           NEW p \in Nat \ {0}, NEW b \in Nat, b = p * PageSize,
           \/ Plan.parts = "archive" /\ LastOfArchive(p)
           \/ Plan.parts = "notices" /\ LastOfNotices(p)
    PROVE  \A n \in Nat : Newer(n) => ~(n <= Len(posted) - b)
<1> DEFINE L == Len(posted)
<1>10. PICK r : r = ListingPage(p)
  OBVIOUS
<1>0. L \in Nat /\ DOMAIN posted = 1 .. L /\ PageSize \in Nat \ {0} /\ OldDocs \in Nat
      /\ MaxDocs \in Nat
  BY FeedsAssumption
<1>1. PICK a, c \in Nat : a = (p - 1) * PageSize /\ c = p * PageSize /\ PageOf(r, a, c)
  BY <1>10, PageFacts
<1>2. /\ r \in Seq(DOMAIN posted) /\ b = a + PageSize
      /\ Len(r) = IF a < b /\ a < L THEN Min({b, L}) - a ELSE 0
      /\ \A i \in 1 .. Len(r) : r[i] = L + 1 - a - i
  BY <1>1 DEF PageOf
<1> HIDE DEF L
<1>3. L \in Int /\ b \in Int
  BY <1>0
<1>4. Min({b, L}) \in {b, L} /\ Min({b, L}) <= b /\ Min({b, L}) <= L
  BY <1>3, MinOfTwo
<1> DEFINE e == Min({b, L})
<1> HIDE DEF e
<1>11. /\ Len(r) \in Nat /\ DOMAIN r = 1 .. Len(r) /\ \A i \in 1 .. Len(r) : r[i] \in DOMAIN posted
  <2>1. ASSUME NEW T, NEW q \in Seq(T)
        PROVE  Len(q) \in Nat /\ DOMAIN q = 1 .. Len(q) /\ \A i \in 1 .. Len(q) : q[i] \in T
    OBVIOUS
  <2> QED BY <1>2, <2>1
<1>5. /\ e \in {b, L} /\ e <= b /\ e <= L
      /\ Len(r) = IF a < L THEN e - a ELSE 0
  <2>1. a < b
    BY <1>0, <1>1, <1>2
  <2>2. Len(r) = IF a < b /\ a < L THEN e - a ELSE 0
    BY <1>2 DEF e
  <2>3. e \in {b, L} /\ e <= b /\ e <= L
    BY <1>4 DEF e
  <2> QED BY <2>1, <2>2, <2>3
<1> SUFFICES ASSUME NEW n \in Nat, n > OldDocs, n <= L - b PROVE FALSE
  BY DEF Newer, L
<1>6. b < L /\ a < L /\ e = b /\ Len(r) = PageSize
  <2>1. b < L /\ a < L
    BY <1>0, <1>1, <1>2
  <2>2. e = b
    BY <1>5, <2>1, <1>0
  <2>3. b = a + PageSize
    BY <1>2
  <2>4. Len(r) = e - a
    BY <1>5, <2>1
  <2> QED BY <1>0, <2>1, <2>2, <2>3, <2>4
<1>7. \A i \in 1 .. Len(r) : r[i] > OldDocs
  <2> SUFFICES ASSUME NEW i \in 1 .. Len(r) PROVE r[i] > OldDocs
    OBVIOUS
  <2>1. r[i] = L + 1 - a - i
    BY <1>2
  <2>3. i \in Nat /\ i <= PageSize
    BY <1>0, <1>6
  <2>2. b = a + PageSize /\ a \in Nat
    BY <1>1, <1>2
  <2> QED BY <1>0, <2>1, <2>2, <2>3
<1>8. CASE Plan.parts = "archive" /\ LastOfArchive(p)
  <2>1. r = <<>> \/ b >= L \/ ~(r[Len(r)] > OldDocs)
    BY <1>8, <1>10 DEF LastOfArchive, L, Newer
  <2>2. Len(r) \in 1 .. Len(r) /\ r # <<>>
    BY <1>0, <1>6
  <2> QED BY <1>6, <1>7, <2>1, <2>2, <1>0
<1>9. CASE Plan.parts = "notices" /\ LastOfNotices(p)
  <2>1. Len(Among(r, Recent)) < PageSize \/ p = NoticePages
    BY <1>9, <1>10 DEF LastOfNotices
  <2>2. CASE Len(Among(r, Recent)) < PageSize
    <3>1. KeepsOf(Among(r, Recent), r, Recent, DOMAIN posted, Len(r))
      BY <1>2, AmongKeeps
    <3>2. \A i \in 1 .. Len(r) : r[i] \in Recent
      <4> QED BY <1>11, <1>7 DEF Recent, Newer
    <3>3. Len(Among(r, Recent)) = Len(r)
      BY <3>1, <3>2 DEF KeepsOf
    <3> QED BY <2>2, <3>3, <1>6, <1>0
  <2>3. CASE p = NoticePages
    <3>1. feed = "notices"
      BY <1>9, PlanFacts
    <3>2. L <= OldDocs + b
      BY <3>1, <2>3, <1>0 DEF Reaches, L
    <3> QED BY <1>0, <3>2
  <2> QED BY <2>1, <2>2, <2>3
<1> QED BY <1>8, <1>9

\* A page is listed.
LEMMA ListStep ==
    ASSUME FeedInv, ListPage
    PROVE  FeedInv'
<1> DEFINE L == Len(posted)
           archive == Plan.parts = "archive"
           last == IF archive THEN LastOfArchive(run.page) ELSE LastOfNotices(run.page)
<1>20. PICK r : r = ListingPage(run.page)
  OBVIOUS
<1> DEFINE more == IF archive THEN Among(r, Recent) ELSE NoticesOn(run.page)
           found == run.found \o more
           todo == IF archive THEN Reverse(found) ELSE found
<1>0. /\ Types /\ Once /\ Listings /\ run.phase = "listing" /\ Paged
      /\ posted \in Seq(Doc) /\ DOMAIN posted = 1 .. L /\ L \in Nat
      /\ Plan.parts \in {"archive", "notices"} /\ PageSize \in Nat \ {0}
  BY FeedsAssumption DEF FeedInv, Types, ListPage, Paged
<1>1. UNCHANGED <<feed, posted, table, archived, runs, faults>>
  BY DEF ListPage
<1>2. run' = IF last THEN [run EXCEPT !.phase = "reading", !.found = <<>>, !.todo = todo]
             ELSE [run EXCEPT !.page = @ + 1, !.found = found]
  BY <1>20 DEF ListPage, OldestFirst
<1>3. /\ run \in RunRecord /\ run.page \in Nat \ {0} /\ run.found \in Seq(1 .. L)
      /\ run.seen \in 0 .. L /\ run.todo = <<>> /\ Part = 1 .. L /\ run.clean \in BOOLEAN
  BY <1>0 DEF Types, RunRecord, Part
<1>4. PICK a, b \in Nat : a = (run.page - 1) * PageSize /\ b = run.page * PageSize /\ PageOf(r, a, b)
  <2>1. PICK p \in Nat \ {0} : p = run.page
    BY <1>3
  <2>2. PICK a, b \in Nat : a = (p - 1) * PageSize /\ b = p * PageSize /\ PageOf(r, a, b)
    BY <1>0, <1>20, <2>1, PageFacts
  <2> QED BY <2>1, <2>2
<1>5. b = run.page * PageSize
  BY <1>4
<1>6. /\ r \in Seq(1 .. L) /\ b = a + PageSize
      /\ \A i \in 1 .. Len(r) : r[i] = L + 1 - a - i
      /\ \A n \in 1 .. L : n <= L - a /\ n > L - b => In(r, n)
  BY <1>0, <1>4 DEF PageOf
<1> HIDE DEF L
<1>7. /\ more \in Seq(1 .. L)
      /\ \A x : In(more, x) => In(r, x) /\ x \in Recent
      /\ \A x : In(r, x) /\ x \in Recent => In(run.found, x) \/ In(more, x)
  <2>1. CASE archive
    BY <1>6, <2>1, AmongFacts
  <2>2. CASE ~archive
    <3>1. more = Among(r, Recent \ ToSet(run.found))
      BY <2>2, <1>20 DEF NoticesOn
    <3>2. /\ Among(r, Recent \ ToSet(run.found)) \in Seq(1 .. L)
          /\ \A x : In(Among(r, Recent \ ToSet(run.found)), x) <=>
                    In(r, x) /\ x \in Recent \ ToSet(run.found)
      BY <1>6, AmongFacts
    <3>3. \A x : x \in ToSet(run.found) => In(run.found, x)
      BY DEF ToSet, In
    <3> HIDE DEF more
    <3> QED BY <3>1, <3>2, <3>3
  <2> QED BY <2>1, <2>2
<1>8. archive => \A j \in 1 .. Len(more) : \E m \in 1 .. Len(r) :
          r[m] = more[j] /\ \A l \in 1 .. m - 1 : r[l] \in Recent => \E i \in 1 .. j - 1 : more[i] = r[l]
  <2>1. KeepsOf(Among(r, Recent), r, Recent, 1 .. L, Len(r))
    BY <1>6, AmongKeeps
  <2> QED BY <2>1 DEF KeepsOf
<1> HIDE DEF more
<1>9. /\ found \in Seq(1 .. L) /\ Len(found) = Len(run.found) + Len(more)
      /\ \A i \in 1 .. Len(run.found) : found[i] = run.found[i]
      /\ \A i \in 1 .. Len(more) : found[Len(run.found) + i] = more[i]
      /\ Len(run.found) \in Nat /\ Len(more) \in Nat
      /\ DOMAIN found = 1 .. Len(found) /\ DOMAIN run.found = 1 .. Len(run.found)
  <2>1. ASSUME NEW T, NEW f \in Seq(T), NEW g \in Seq(T)
        PROVE  /\ f \o g \in Seq(T) /\ Len(f \o g) = Len(f) + Len(g)
               /\ \A i \in 1 .. Len(f) : (f \o g)[i] = f[i]
               /\ \A i \in 1 .. Len(g) : (f \o g)[Len(f) + i] = g[i]
               /\ Len(f) \in Nat /\ Len(g) \in Nat
               /\ DOMAIN (f \o g) = 1 .. Len(f \o g) /\ DOMAIN f = 1 .. Len(f)
    OBVIOUS
  <2> QED BY <1>3, <1>7, <2>1
<1>10. \A x : In(found, x) <=> In(run.found, x) \/ In(more, x)
  BY <1>3, <1>7, InConcat
<1> HIDE DEF found
<1>11. ASSUME NEW n \in 1 .. run.seen, Newer(n)
       PROVE  In(found, n) \/ n <= L - b
  <2>1. n \in 1 .. L /\ n \in Recent
    BY <1>0, <1>3, <1>11 DEF Recent, L
  <2>2. In(run.found, n) \/ n <= L - a
    BY <1>0, <1>4, <1>11 DEF Listings, L
  <2>3. CASE n <= L - a /\ ~(n <= L - b)
    <3>1. n > L - b
      BY <2>3, <2>1, <1>0
    <3>2. In(r, n)
      BY <1>6, <2>1, <2>3, <3>1
    <3> QED BY <1>7, <1>10, <2>1, <3>2
  <2> QED BY <1>10, <2>2, <2>3
<1>12. ASSUME archive, NEW j \in DOMAIN found, NEW n \in 1 .. run.seen, Newer(n), found[j] < n
       PROVE  \E i \in DOMAIN found : i < j /\ found[i] = n
  <2>0. n \in 1 .. L /\ n \in Recent
    BY <1>0, <1>3, <1>12 DEF Recent, L
  <2>1. CASE j \in 1 .. Len(run.found)
    <3>1. run.found[j] < n
      BY <1>9, <1>12, <2>1
    <3>2. PICK i \in DOMAIN run.found : i < j /\ run.found[i] = n
      BY <1>0, <1>9, <1>12, <2>1, <3>1 DEF Listings
    <3>3. i \in DOMAIN found /\ found[i] = n
      BY <1>9, <3>2
    <3> QED BY <3>2, <3>3
  <2>2. CASE ~(j \in 1 .. Len(run.found)) /\ In(run.found, n)
    <3>1. PICK i \in 1 .. Len(run.found) : run.found[i] = n
      BY <1>9, <2>2 DEF In
    <3>2. i \in DOMAIN found /\ i < j /\ found[i] = n
      BY <1>9, <2>2, <3>1
    <3> QED BY <3>2
  <2>3. CASE ~(j \in 1 .. Len(run.found)) /\ ~In(run.found, n)
    <3>1. n <= L - a
      BY <1>0, <1>4, <1>12, <2>3 DEF Listings, L
    <3>2. PICK k \in 1 .. Len(more) : j = Len(run.found) + k
      <4>1. j - Len(run.found) \in 1 .. Len(more) /\ j = Len(run.found) + (j - Len(run.found))
        BY <1>9, <2>3
      <4> QED BY <4>1
    <3>3. more[k] < n
      BY <1>9, <1>12, <3>2
    <3>4. PICK m \in 1 .. Len(r) :
             r[m] = more[k] /\ \A l \in 1 .. m - 1 : r[l] \in Recent => \E i \in 1 .. k - 1 : more[i] = r[l]
      BY <1>8, <1>12
    <3>5. r[m] = L + 1 - a - m /\ Len(r) \in Nat
      BY <1>6
    <3>6. PICK l \in 1 .. m - 1 : l = L + 1 - a - n
      <4>1. L + 1 - a - n \in 1 .. m - 1
        BY <1>0, <2>0, <3>1, <3>3, <3>4, <3>5
      <4> QED BY <4>1
    <3>7. r[l] = n
      <4>1. l \in 1 .. Len(r)
        BY <3>5, <3>6
      <4>2. r[l] = L + 1 - a - l
        BY <1>6, <4>1
      <4> QED BY <1>0, <2>0, <3>6, <4>2
    <3>8. PICK i \in 1 .. k - 1 : more[i] = n
      BY <2>0, <3>4, <3>7
    <3>9. i \in 1 .. Len(more) /\ Len(run.found) + i < j /\ Len(run.found) + i \in DOMAIN found
      BY <1>9, <3>2, <3>8
    <3>10. found[Len(run.found) + i] = n
      BY <1>9, <3>8, <3>9
    <3> QED BY <3>9, <3>10
  <2> QED BY <2>1, <2>2, <2>3
<1>13. /\ Plan' = Plan /\ Paged' = Paged /\ DocLoads' = DocLoads /\ Reaches' = Reaches /\ Part' = Part
       /\ \A n \in DOMAIN posted : KeysOf(n)' = KeysOf(n)
  BY <1>0, <1>1, TablesKept
<1>14. Once'
  BY <1>0, <1>1, OnceKept
<1>15. CASE ~last
  <2>1. /\ run' = [run EXCEPT !.page = @ + 1, !.found = found]
        /\ run'.page = run.page + 1 /\ run'.found = found /\ run'.phase = "listing"
        /\ run'.todo = <<>> /\ run'.buffer = run.buffer /\ run'.seen = run.seen
        /\ run'.clean = run.clean
    BY <1>0, <1>2, <1>3, <1>15 DEF RunRecord
  <2>2. run' \in RunRecord'
    <3>1. RunRecord' = RunRecord
      BY <1>1, <1>13, <2>1 DEF RunRecord
    <3>2. run.page + 1 \in Nat \ {0}
      BY <1>3
    <3> QED BY <1>0, <1>3, <1>9, <2>1, <3>1, <3>2 DEF RunRecord, L
  <2>3. Types'
    <3>1. Sound(run.buffer)' /\ IsTable(run.buffer)'
      BY <1>0, <1>1, <2>1 DEF Types, Sound, IsTable
    <3> QED BY <1>0, <1>1, <1>13, <2>1, <2>2, <3>1, TablesKept DEF Types
  <2>4. Listings'
    <3>1. (run'.page - 1) * PageSize = b
      BY <1>0, <1>3, <1>5, <2>1
    <3>2. Plan.parts = "notices" => run'.page <= NoticePages
      BY <1>0, <1>3, <1>15, <2>1 DEF Listings, LastOfNotices, NoticePages
    <3> QED BY <1>1, <1>11, <1>12, <1>13, <2>1, <3>1, <3>2 DEF Listings, Newer, L
  <2>5. Readings' /\ Windows' /\ SiteReadings' /\ Done'
    BY <2>1 DEF Readings, Windows, SiteReadings, Done
  <2> QED BY <1>14, <2>3, <2>4, <2>5 DEF FeedInv
<1>16. CASE last
  <2>0. /\ todo \in Seq(1 .. L) /\ \A x : In(found, x) => In(todo, x)
        /\ DOMAIN todo = 1 .. Len(todo) /\ Len(todo) \in Nat
        /\ \A i \in DOMAIN todo : todo[i] \in 1 .. L
    <3>1. todo \in Seq(1 .. L) /\ \A x : In(found, x) => In(todo, x)
      BY <1>9, ReverseFacts
    <3>2. ASSUME NEW T, NEW q \in Seq(T)
          PROVE  Len(q) \in Nat /\ DOMAIN q = 1 .. Len(q) /\ \A i \in DOMAIN q : q[i] \in T
      OBVIOUS
    <3> HIDE DEF todo
    <3> QED BY <3>1, <3>2
  <2>1. /\ run' = [run EXCEPT !.phase = "reading", !.found = <<>>, !.todo = todo]
        /\ run'.page = run.page /\ run'.found = <<>> /\ run'.phase = "reading"
        /\ run'.todo = todo /\ run'.buffer = run.buffer /\ run'.seen = run.seen
        /\ run'.clean = run.clean
    BY <1>0, <1>2, <1>3, <1>16 DEF RunRecord
  <2> HIDE DEF todo, last
  <2>2. run' \in RunRecord'
    <3>1. RunRecord' = RunRecord
      BY <1>1, <1>13, <2>1 DEF RunRecord
    <3>2. <<>> \in Seq(1 .. L) /\ todo \in Seq(Part)
      BY <1>3, <2>0
    <3> QED BY <1>0, <1>3, <2>1, <3>1, <3>2 DEF RunRecord, L
  <2>3. Types'
    <3>1. Sound(run.buffer)' /\ IsTable(run.buffer)'
      BY <1>0, <1>1, <2>1 DEF Types, Sound, IsTable
    <3> QED BY <1>0, <1>1, <1>13, <2>1, <2>2, <3>1, TablesKept DEF Types
  <2>4. ASSUME Reaches PROVE \A n \in 1 .. run.seen : Newer(n) => In(todo, n)
    <3>1. PICK p \in Nat \ {0} : p = run.page
      BY <1>3
    <3>2. \/ Plan.parts = "archive" /\ LastOfArchive(p)
          \/ Plan.parts = "notices" /\ LastOfNotices(p)
      BY <1>0, <1>16, <3>1 DEF last
    <3>3. Len(posted) <= MaxDocs /\ b = p * PageSize
      BY <1>0, <1>5, <3>1 DEF Types
    <3>4. \A n \in Nat : Newer(n) => ~(n <= Len(posted) - b)
      BY <1>0, <2>4, <3>2, <3>3, LastPage
    <3>5. \A n \in 1 .. run.seen : n \in Nat
      BY <1>3
    <3> QED BY <1>11, <2>0, <3>4, <3>5 DEF L
  <2>5. ASSUME NEW i \in DOMAIN todo, NEW n \in 1 .. run.seen, Newer(n),
               posted[n].about = posted[todo[i]].about, todo[i] < n
        PROVE  \E j \in DOMAIN todo : i < j /\ todo[j] = n
    <3>1. CASE archive
      <4>1. /\ Len(todo) = Len(found)
            /\ \A l \in 1 .. Len(found) : todo[l] = found[Len(found) - l + 1]
                                          /\ Len(found) - l + 1 \in 1 .. Len(found)
        BY <1>9, <3>1, ReverseFacts DEF todo
      <4>2. PICK k \in 1 .. Len(found) : k = Len(found) - i + 1
        BY <2>0, <4>1
      <4>3. k \in DOMAIN found /\ found[k] < n
        BY <1>9, <2>0, <2>5, <4>1, <4>2
      <4>4. PICK l \in DOMAIN found : l < k /\ found[l] = n
        BY <1>12, <2>5, <3>1, <4>3
      <4>5. PICK j \in 1 .. Len(found) : j = Len(found) - l + 1
        BY <1>9, <4>1, <4>4
      <4>6. Len(found) - j + 1 = l /\ i < j
        <5>1. PICK M \in Nat : M = Len(found)
          BY <1>9
        <5>2. i \in 1 .. M /\ l \in 1 .. M
          BY <1>9, <2>0, <4>1, <5>1
        <5>3. k = M - i + 1 /\ j = M - l + 1 /\ l < k
          BY <4>2, <4>4, <4>5, <5>1
        <5> QED BY <5>1, <5>2, <5>3
      <4>7. todo[j] = n /\ j \in DOMAIN todo
        BY <2>0, <4>1, <4>4, <4>5, <4>6
      <4> QED BY <4>6, <4>7
    <3>2. CASE ~archive
      <4>1. feed = "notices"
        BY <1>0, <3>2, PlanFacts
      <4>2. n \in DOMAIN posted /\ todo[i] \in DOMAIN posted
        BY <1>0, <1>3, <2>0
      <4>3. n = todo[i]
        BY <1>0, <2>5, <4>1, <4>2 DEF Once
      <4> QED BY <2>5, <4>3, <1>3
    <3> QED BY <3>1, <3>2
  <2>6. Readings'
    <3>1. \A n : InScope(n)' => Newer(n)
      BY <1>0, <1>13 DEF InScope, Paged, Newer
    <3> QED BY <1>1, <1>13, <2>1, <2>4, <2>5, <3>1 DEF Readings
  <2>7. Windows' /\ SiteReadings' /\ Listings' /\ Done'
    <3>1. Plan.parts \notin {"windows", "window"} /\ feed # "weather"
      BY <1>0, PlanFacts
    <3> QED BY <1>1, <1>13, <2>1, <3>1 DEF Windows, SiteReadings, Listings, Done
  <2> QED BY <1>14, <2>3, <2>6, <2>7 DEF FeedInv
<1> QED BY <1>15, <1>16

\* A table written over another.
LEMMA OverFacts ==
    ASSUME NEW d, NEW t
    PROVE  /\ DOMAIN Over(d, t) = DOMAIN d \cup DOMAIN t
           /\ \A k \in DOMAIN d : Over(d, t)[k] = d[k]
           /\ \A k \in DOMAIN t : k \notin DOMAIN d => Over(d, t)[k] = t[k]
           /\ Sound(d) /\ Sound(t) => Sound(Over(d, t))
<1>1. /\ DOMAIN Over(d, t) = DOMAIN d \cup DOMAIN t
      /\ \A k \in DOMAIN d : Over(d, t)[k] = d[k]
      /\ \A k \in DOMAIN t : k \notin DOMAIN d => Over(d, t)[k] = t[k]
  BY DEF Over
<1>2. ASSUME Sound(d), Sound(t) PROVE Sound(Over(d, t))
  <2> DEFINE o == Over(d, t)
  <2>1. \A k \in DOMAIN o : (k \in DOMAIN d /\ o[k] = d[k]) \/ (k \in DOMAIN t /\ o[k] = t[k])
    BY <1>1
  <2> HIDE DEF o
  <2>2. Sound(o)
    BY <1>2, <2>1 DEF Sound
  <2> QED BY <2>2 DEF o
<1> QED BY <1>1, <1>2

\* A sequence without its first element.
LEMMA TailFacts ==
    ASSUME NEW T, NEW q \in Seq(T), q # <<>>
    PROVE  /\ Tail(q) \in Seq(T) /\ Len(Tail(q)) = Len(q) - 1 /\ Len(q) \in Nat
           /\ DOMAIN q = 1 .. Len(q) /\ DOMAIN Tail(q) = 1 .. Len(q) - 1
           /\ \A i \in 1 .. Len(q) - 1 : Tail(q)[i] = q[i + 1]
           /\ Head(q) = q[1] /\ Head(q) \in T
           /\ \A x : In(q, x) => x = Head(q) \/ In(Tail(q), x)
<1>1. /\ Tail(q) \in Seq(T) /\ Len(Tail(q)) = Len(q) - 1 /\ Len(q) \in Nat /\ Len(q) >= 1
      /\ DOMAIN q = 1 .. Len(q) /\ DOMAIN Tail(q) = 1 .. Len(q) - 1
      /\ \A i \in 1 .. Len(q) - 1 : Tail(q)[i] = q[i + 1]
      /\ Head(q) = q[1] /\ Head(q) \in T
  OBVIOUS
<1>2. ASSUME NEW x, In(q, x), x # Head(q) PROVE In(Tail(q), x)
  <2>1. PICK j \in 1 .. Len(q) : q[j] = x
    BY <1>1, <1>2 DEF In
  <2>2. j # 1
    BY <2>1, <1>1, <1>2
  <2>3. j - 1 \in 1 .. Len(q) - 1 /\ (j - 1) + 1 = j
    BY <2>1, <2>2, <1>1
  <2>4. Tail(q)[j - 1] = x
    BY <2>1, <2>3, <1>1
  <2> QED BY <2>3, <2>4, <1>1 DEF In
<1> QED BY <1>1, <1>2

\* What a part says and what a loader makes of it.
LEMMA PartRead ==
    ASSUME Types, run.phase = "reading",
           NEW part \in Part, NEW es \in Answers(part), NEW d \in Rows(es)
    PROVE  /\ Sound(d)
           /\ feed = "weather" => \A k \in DOMAIN d : k[3] = part
           /\ feed = "offers" => \A k \in DOMAIN d : k[2] \in Nat
           /\ feed = "rtd" => \A k \in DOMAIN d : d[k].n = k[3]
           /\ DocLoads => /\ part \in DOMAIN posted /\ DOMAIN d = KeysOf(part)
                          /\ \A k \in DOMAIN d : d[k].n = part /\ k[1] = posted[part].about
           /\ Plan.parts \in {"windows", "window"} =>
                /\ \A k \in DOMAIN d : k[1] \in part[1] .. part[2]
                /\ \A n \in DOMAIN posted : \A k \in KeysOf(n) :
                     /\ k[1] = posted[n].about
                     /\ feed = "rtd" => k[3] = n
                     /\ posted[n].about \in part[1] .. part[2] => Holds(d, k, n)
           /\ feed = "weather" =>
                /\ \A k \in DOMAIN d : d[k].n = Len(posted)
                /\ posted # <<>> => \A h \in KeysOf(Len(posted)) : <<h[1], h[2], part>> \in DOMAIN d
<1>0. posted \in Seq(Doc)
  BY DEF Types
<1>1. CASE DocLoads
  <2>1. Plan.parts \notin {"windows", "window", "sites"}
    BY <1>1 DEF DocLoads
  <2>2. part \in DOMAIN posted /\ es = Entries(part)
    BY <2>1 DEF Part, Answers
  <2>3. /\ KeysOf(part) = DOMAIN d
        /\ \A k \in DOMAIN d : /\ d[k].key = k /\ d[k].n = part /\ k[1] = posted[part].about
                               /\ feed = "offers" => k[2] \in Nat
    <3>1. PICK c : /\ Rows(Entries(part)) = {c} /\ KeysOf(part) = DOMAIN c
                   /\ \A k \in DOMAIN c : /\ c[k].key = k /\ c[k].n = part
                                          /\ k[1] = posted[part].about
                                          /\ feed = "offers" => k[2] \in Nat
      BY <1>0, <1>1, <2>2, DocRows
    <3>2. c = d
      BY <2>2, <3>1
    <3> QED BY <3>1, <3>2
  <2>4. feed \notin {"weather", "rtd"}
    BY <1>1, DocFeeds
  <2>5. Sound(d)
    BY <2>2, <2>3 DEF Sound
  <2> QED BY <2>1, <2>2, <2>3, <2>4, <2>5
<1>2. CASE Plan.parts \in {"windows", "window"}
  <2>1. ~DocLoads /\ feed \notin {"weather", "offers"}
    BY <1>2, PlanFacts DEF DocLoads, NewestFeeds
  <2>2. es \in WindowAnswers(part)
    BY <1>2 DEF Answers
  <2> QED BY <1>0, <1>2, <2>1, <2>2, WindowRead
<1>3. CASE Plan.parts = "sites"
  <2>1. feed = "weather" /\ ~DocLoads
    BY <1>3, PlanFacts DEF DocLoads
  <2>2. part \in Sites /\ es = SiteAnswer(part)
    BY <1>3 DEF Part, Answers
  <2> QED BY <1>0, <1>3, <2>1, <2>2, SiteRead
<1> QED BY <1>1, <1>2, <1>3, PlanFacts DEF DocLoads

\* A part is read.
LEMMA ReadStep ==
    ASSUME FeedInv, ReadPart
    PROVE  FeedInv'
<1> DEFINE each == Plan.commit = "each"
<1>0. /\ Types /\ Once /\ Readings /\ Windows /\ SiteReadings
      /\ run.phase = "reading" /\ run.todo # <<>> /\ run \in RunRecord
      /\ posted \in Seq(Doc) /\ DOMAIN posted = 1 .. Len(posted) /\ Len(posted) \in Nat
  BY DEF FeedInv, Types, ReadPart
<1>1. run.todo \in Seq(Part) /\ run.seen \in 0 .. Len(posted)
  BY <1>0 DEF RunRecord
<1> DEFINE part == Head(run.todo)
           todo == Tail(run.todo)
<1>2. /\ todo \in Seq(Part) /\ Len(run.todo) \in Nat
      /\ DOMAIN run.todo = 1 .. Len(run.todo) /\ DOMAIN todo = 1 .. Len(run.todo) - 1
      /\ \A i \in 1 .. Len(run.todo) - 1 : todo[i] = run.todo[i + 1]
      /\ part = run.todo[1] /\ part \in Part
      /\ \A x : In(run.todo, x) => x = part \/ In(todo, x)
  BY <1>0, <1>1, TailFacts
<1>3. PICK es \in Answers(part) : \E d \in Rows(es) :
        /\ table' = IF each THEN Stored(d) ELSE table
        /\ run' = [run EXCEPT !.todo = Tail(@), !.buffer = IF each THEN @ ELSE Over(d, @)]
  BY DEF ReadPart
<1>4. PICK d \in Rows(es) :
        /\ table' = IF each THEN Stored(d) ELSE table
        /\ run' = [run EXCEPT !.todo = Tail(@), !.buffer = IF each THEN @ ELSE Over(d, @)]
  BY <1>3
<1> DEFINE buffer == IF each THEN run.buffer ELSE Over(d, run.buffer)
<1>5. UNCHANGED <<feed, posted, archived, runs, faults>>
  BY DEF ReadPart
<1>6. /\ run' = [run EXCEPT !.todo = todo, !.buffer = buffer]
      /\ run'.phase = "reading" /\ run'.page = run.page /\ run'.found = run.found
      /\ run'.todo = todo /\ run'.buffer = buffer /\ run'.seen = run.seen
      /\ run'.clean = run.clean
  BY <1>0, <1>4 DEF RunRecord
<1>7. /\ Sound(d)
      /\ feed = "weather" => \A k \in DOMAIN d : k[3] = part
      /\ feed = "offers" => \A k \in DOMAIN d : k[2] \in Nat
      /\ feed = "rtd" => \A k \in DOMAIN d : d[k].n = k[3]
      /\ DocLoads => /\ part \in DOMAIN posted /\ DOMAIN d = KeysOf(part)
                     /\ \A k \in DOMAIN d : d[k].n = part /\ k[1] = posted[part].about
      /\ Plan.parts \in {"windows", "window"} =>
           /\ \A k \in DOMAIN d : k[1] \in part[1] .. part[2]
           /\ \A n \in DOMAIN posted : \A k \in KeysOf(n) :
                /\ k[1] = posted[n].about
                /\ feed = "rtd" => k[3] = n
                /\ posted[n].about \in part[1] .. part[2] => Holds(d, k, n)
      /\ feed = "weather" =>
           /\ \A k \in DOMAIN d : d[k].n = Len(posted)
           /\ posted # <<>> => \A h \in KeysOf(Len(posted)) : <<h[1], h[2], part>> \in DOMAIN d
  BY <1>0, <1>2, PartRead
<1> HIDE DEF todo, part
<1>8. /\ Plan' = Plan /\ Paged' = Paged /\ DocLoads' = DocLoads /\ Reaches' = Reaches
      /\ \A n \in DOMAIN posted : KeysOf(n)' = KeysOf(n)
      /\ feed # "weather" => \A n \in DOMAIN posted : InScope(n)' <=> InScope(n)
      /\ Stamped' = Stamped
  BY <1>0, <1>5, <1>6, Frozen
<1>9. /\ table' = IF each THEN Stored(d) ELSE table
      /\ Stored(d) = IF feed = "rtd" THEN Over(table, d) ELSE Over(d, table)
  BY <1>4 DEF Stored
<1>10. /\ DOMAIN Over(d, table) = DOMAIN d \cup DOMAIN table
       /\ DOMAIN Over(table, d) = DOMAIN d \cup DOMAIN table
       /\ DOMAIN Over(d, run.buffer) = DOMAIN d \cup DOMAIN run.buffer
       /\ \A k \in DOMAIN d : Over(d, table)[k] = d[k] /\ Over(d, run.buffer)[k] = d[k]
       /\ \A k \in DOMAIN table : /\ k \notin DOMAIN d => Over(d, table)[k] = table[k]
                                  /\ Over(table, d)[k] = table[k]
       /\ \A k \in DOMAIN d : k \notin DOMAIN table => Over(table, d)[k] = d[k]
       /\ \A k \in DOMAIN run.buffer : k \notin DOMAIN d => Over(d, run.buffer)[k] = run.buffer[k]
       /\ Sound(Over(d, table)) /\ Sound(Over(table, d)) /\ Sound(Over(d, run.buffer))
  <2>1. Sound(table) /\ Sound(run.buffer)
    BY <1>0 DEF Types
  <2>2. PICK t, b : t = table /\ b = run.buffer
    OBVIOUS
  <2>3. Sound(d) /\ Sound(t) /\ Sound(b)
    BY <1>7, <2>1, <2>2
  <2>4. /\ DOMAIN Over(d, t) = DOMAIN d \cup DOMAIN t
        /\ \A k \in DOMAIN d : Over(d, t)[k] = d[k]
        /\ \A k \in DOMAIN t : k \notin DOMAIN d => Over(d, t)[k] = t[k]
        /\ Sound(Over(d, t))
    BY <2>3, OverFacts
  <2>5. /\ DOMAIN Over(t, d) = DOMAIN d \cup DOMAIN t
        /\ \A k \in DOMAIN t : Over(t, d)[k] = t[k]
        /\ \A k \in DOMAIN d : k \notin DOMAIN t => Over(t, d)[k] = d[k]
        /\ Sound(Over(t, d))
    BY <2>3, OverFacts, ZenonT(60)
  <2>6. /\ DOMAIN Over(d, b) = DOMAIN d \cup DOMAIN b
        /\ \A k \in DOMAIN d : Over(d, b)[k] = d[k]
        /\ \A k \in DOMAIN b : k \notin DOMAIN d => Over(d, b)[k] = b[k]
        /\ Sound(Over(d, b))
    BY <2>3, OverFacts
  <2> QED BY <2>2, <2>4, <2>5, <2>6
<1>11. feed = "rtd" => each /\ Plan.parts = "window"
  BY PlanFacts DEF ArchiveFeeds, NewestFeeds, WindowsFeeds
<1> HIDE DEF buffer
<1>12. run' \in RunRecord'
  <2>1. /\ Part' = Part
        /\ RunRecord' = [phase : {"idle", "listing", "reading", "writing", "archiving", "ended", "dead"},
              page : Nat \ {0}, found : Seq(DOMAIN posted), todo : Seq(Part), buffer : {run'.buffer},
              seen : 0 .. Len(posted), clean : BOOLEAN]
    BY <1>5, <1>8 DEF RunRecord, Part
  <2>2. buffer \in {run'.buffer}
    BY <1>6
  <2> QED BY <1>0, <1>2, <1>6, <2>1, <2>2 DEF RunRecord
<1>13. Types'
  <2>1. Sound(table)' /\ Sound(run.buffer)' /\ IsTable(run.buffer)'
    <3>1. Sound(table') /\ Sound(run'.buffer)
      BY <1>0, <1>6, <1>9, <1>10 DEF Types, buffer
    <3>2. IsTable(run.buffer) /\ IsTable(Over(d, run.buffer))
      BY <1>0 DEF Types, IsTable, Over
    <3>3. IsTable(run.buffer)'
      BY <1>6, <3>2 DEF IsTable, buffer
    <3> QED BY <3>1, <3>3, <1>5 DEF Sound
  <2>2. feed = "weather" => \A k \in DOMAIN run'.buffer : k[3] \in Sites
    <3> SUFFICES ASSUME feed = "weather" PROVE \A k \in DOMAIN run'.buffer : k[3] \in Sites
      OBVIOUS
    <3>1. part \in Sites
      <4>1. Plan.parts = "sites"
        BY PlanFacts
      <4> QED BY <4>1, <1>2 DEF Part
    <3> QED BY <3>1, <1>0, <1>6, <1>7, <1>10 DEF Types, buffer
  <2>3. feed = "offers" => \A k \in DOMAIN run'.buffer : k[2] \in Nat
    BY <1>0, <1>6, <1>7, <1>10 DEF Types, buffer
  <2>4. feed = "rtd" => \A k \in DOMAIN table' : table'[k].n = k[3]
    BY <1>0, <1>7, <1>9, <1>10, <1>11 DEF Types
  <2>5. run'.buffer # <<>> => Plan.commit # "each"
    BY <1>0, <1>6 DEF Types, buffer
  <2>6. archived' \subseteq Sites \X DOMAIN posted'
    BY <1>0, <1>5 DEF Types
  <2> QED BY <1>0, <1>5, <1>6, <1>8, <1>12, <2>1, <2>2, <2>3, <2>4, <2>5, <2>6 DEF Types
<1>14. Once'
  BY <1>0, <1>5, OnceKept
<1>15. Listings' /\ Done'
  BY <1>6 DEF Listings, Done
<1>16. ASSUME NEW n \in DOMAIN posted, \A k \in KeysOf(n) : Holds(d, k, n),
              feed = "rtd" => \A k \in KeysOf(n) : k[3] = n
       PROVE  Kept(n)'
  <2> SUFFICES ASSUME NEW k \in KeysOf(n)
               PROVE  \/ Plan.commit # "each" /\ Holds(run'.buffer, k, n)
                      \/ Plan.commit # "end" /\ Holds(table', k, n)
    BY <1>8 DEF Kept, Holds
  <2>1. k \in DOMAIN d /\ (n \in Stamped => d[k].n >= n) /\ (feed = "rtd" => k[3] = n)
    BY <1>16 DEF Holds
  <2>2. CASE ~each
    BY <1>6, <1>10, <2>1, <2>2 DEF Holds, buffer
  <2>3. CASE each /\ feed # "rtd"
    BY <1>9, <1>10, <2>1, <2>3 DEF Holds
  <2>4. CASE each /\ feed = "rtd"
    <3>1. k \in DOMAIN table' /\ table'[k].n = n
      BY <1>0, <1>7, <1>9, <1>10, <2>1, <2>4 DEF Types
    <3>2. table'[k].n >= n
      BY <3>1, <1>0
    <3> QED BY <3>1, <3>2, <2>4 DEF Holds
  <2> QED BY <2>2, <2>3, <2>4
<1>17. ASSUME NEW n \in DOMAIN posted, Kept(n), \A k \in KeysOf(n) : k \in DOMAIN d => Holds(d, k, n)
       PROVE  Kept(n)'
  <2> SUFFICES ASSUME NEW k \in KeysOf(n)
               PROVE  \/ Plan.commit # "each" /\ Holds(run'.buffer, k, n)
                      \/ Plan.commit # "end" /\ Holds(table', k, n)
    BY <1>8 DEF Kept, Holds
  <2>1. k \in DOMAIN d => (n \in Stamped => d[k].n >= n)
    BY <1>17 DEF Holds
  <2>2. CASE ~each /\ Holds(run.buffer, k, n)
    BY <1>6, <1>10, <2>1, <2>2 DEF Holds, buffer
  <2>3. CASE ~each /\ Plan.commit # "end" /\ Holds(table, k, n)
    BY <1>9, <2>3
  <2>4. CASE each /\ Holds(table, k, n)
    BY <1>9, <1>10, <2>1, <2>4 DEF Holds
  <2> QED BY <1>17, <2>2, <2>3, <2>4 DEF Kept
<1>18. Readings'
  <2> SUFFICES ASSUME Reaches, DocLoads, run.clean
               PROVE  /\ \A n \in 1 .. run.seen : InScope(n)' => In(todo, n) \/ Kept(n)'
                      /\ \A i \in DOMAIN todo : \A n \in 1 .. run.seen :
                            InScope(n)' /\ posted[n].about = posted[todo[i]].about /\ todo[i] < n =>
                                \E j \in DOMAIN todo : i < j /\ todo[j] = n
    BY <1>5, <1>6, <1>8 DEF Readings
  <2>1. /\ \A n \in 1 .. run.seen : n \in DOMAIN posted /\ (InScope(n)' <=> InScope(n))
        /\ feed # "rtd"
    BY <1>0, <1>1, <1>8, DocFeeds
  <2>2. /\ \A n \in 1 .. run.seen : InScope(n) => In(run.todo, n) \/ Kept(n)
        /\ \A i \in DOMAIN run.todo : \A n \in 1 .. run.seen :
              InScope(n) /\ posted[n].about = posted[run.todo[i]].about /\ run.todo[i] < n =>
                  \E j \in DOMAIN run.todo : i < j /\ run.todo[j] = n
    BY <1>0 DEF Readings
  <2>3. ASSUME NEW i \in DOMAIN run.todo, NEW n \in 1 .. run.seen, InScope(n),
               posted[n].about = posted[run.todo[i]].about, run.todo[i] < n
        PROVE  \E j \in DOMAIN todo : i <= j /\ todo[j] = n
    <3>1. PICK j \in DOMAIN run.todo : i < j /\ run.todo[j] = n
      BY <2>2, <2>3
    <3>2. j - 1 \in DOMAIN todo /\ i <= j - 1 /\ todo[j - 1] = n
      <4>1. j - 1 \in 1 .. Len(run.todo) - 1 /\ i <= j - 1 /\ (j - 1) + 1 = j
        BY <3>1, <1>2
      <4> QED BY <4>1, <3>1, <1>2
    <3> QED BY <3>2
  <2>4. ASSUME NEW n \in 1 .. run.seen, InScope(n), ~In(todo, n)
        PROVE  Kept(n)'
    <3>1. n \in DOMAIN posted /\ (n = part \/ Kept(n))
      BY <2>1, <2>2, <2>4, <1>2
    <3>2. /\ part \in DOMAIN posted /\ DOMAIN d = KeysOf(part)
          /\ \A k \in DOMAIN d : d[k].n = part /\ k[1] = posted[part].about
      BY <1>7
    <3>3. CASE n = part
      <4>1. \A k \in KeysOf(n) : Holds(d, k, n)
        BY <3>2, <3>3, <1>0 DEF Holds
      <4> QED BY <4>1, <3>1, <2>1, <1>16
    <3>4. CASE n # part
      <4>1. ASSUME NEW k \in KeysOf(n), k \in DOMAIN d PROVE d[k].n >= n
        <5>1. k[1] = posted[n].about
          BY <1>0, <3>1, <4>1, DocRows
        <5>2. 1 \in DOMAIN run.todo /\ part = run.todo[1]
          BY <1>0, <1>2
        <5>3. ~(part < n)
          <6>1. ASSUME part < n PROVE FALSE
            <7>1. posted[n].about = posted[run.todo[1]].about /\ run.todo[1] < n
              BY <3>2, <4>1, <5>1, <5>2, <6>1
            <7>2. \E j \in DOMAIN todo : 1 <= j /\ todo[j] = n
              BY <2>3, <2>4, <5>2, <7>1
            <7> QED BY <7>2, <2>4 DEF In
          <6> QED BY <6>1
        <5> QED BY <3>1, <3>2, <4>1, <5>3, <1>0
      <4> QED BY <3>1, <3>4, <4>1, <1>17 DEF Holds
    <3> QED BY <3>3, <3>4
  <2>5. ASSUME NEW i \in DOMAIN todo, NEW n \in 1 .. run.seen, InScope(n),
               posted[n].about = posted[todo[i]].about, todo[i] < n
        PROVE  \E j \in DOMAIN todo : i < j /\ todo[j] = n
    <3>1. i + 1 \in DOMAIN run.todo /\ run.todo[i + 1] = todo[i] /\ i \in Nat
      BY <1>2
    <3>2. PICK j \in DOMAIN todo : i + 1 <= j /\ todo[j] = n
      BY <2>3, <2>5, <3>1
    <3>3. i < j
      BY <3>1, <3>2, <1>2
    <3> QED BY <3>2, <3>3
  <2> QED BY <2>1, <2>4, <2>5
<1>19. Windows'
  <2> SUFFICES ASSUME Plan.parts \in {"windows", "window"}, run.clean, NEW n \in 1 .. run.seen
               PROVE  Kept(n)' \/ \E i \in DOMAIN todo : posted[n].about \in todo[i][1] .. todo[i][2]
    BY <1>5, <1>6, <1>8 DEF Windows
  <2>1. n \in DOMAIN posted
    BY <1>0, <1>1
  <2>2. /\ \A k \in DOMAIN d : k[1] \in part[1] .. part[2]
        /\ \A k \in KeysOf(n) :
             /\ k[1] = posted[n].about
             /\ feed = "rtd" => k[3] = n
             /\ posted[n].about \in part[1] .. part[2] => Holds(d, k, n)
    BY <1>7, <2>1
  <2>3. CASE posted[n].about \in part[1] .. part[2]
    BY <1>16, <2>1, <2>2, <2>3
  <2>4. CASE ~(posted[n].about \in part[1] .. part[2])
    <3>1. \A k \in KeysOf(n) : k \notin DOMAIN d
      BY <2>2, <2>4
    <3>2. CASE Kept(n)
      BY <1>17, <2>1, <3>1, <3>2
    <3>3. CASE ~Kept(n)
      <4>1. PICK i \in DOMAIN run.todo : posted[n].about \in run.todo[i][1] .. run.todo[i][2]
        BY <1>0, <3>3 DEF Windows
      <4>2. i # 1
        BY <4>1, <2>4, <1>2
      <4>3. i - 1 \in DOMAIN todo /\ todo[i - 1] = run.todo[i]
        <5>1. i - 1 \in 1 .. Len(run.todo) - 1 /\ (i - 1) + 1 = i
          BY <4>1, <4>2, <1>2
        <5> QED BY <5>1, <1>2
      <4> QED BY <4>1, <4>3
    <3> QED BY <3>2, <3>3
  <2> QED BY <2>3, <2>4
<1>20. SiteReadings'
  <2> SUFFICES ASSUME feed = "weather", run.clean, run.seen = Len(posted), run.seen # 0,
                      NEW h \in KeysOf(run.seen), NEW s \in Sites
               PROVE  \/ In(todo, s)
                      \/ /\ <<h[1], h[2], s>> \in DOMAIN buffer
                         /\ buffer[<<h[1], h[2], s>>].n = run.seen
    <3>1. run.seen = Len(posted) /\ run.seen # 0 => run.seen \in DOMAIN posted
      BY <1>0, <1>1
    <3> QED BY <3>1, <1>5, <1>6, <1>8, ZenonT(60) DEF SiteReadings
  <2>1. posted # <<>>
    BY <1>0
  <2>2. Plan.commit = "end"
    BY PlanFacts
  <2>3. buffer = Over(d, run.buffer)
    BY <2>2 DEF buffer
  <2> DEFINE k == <<h[1], h[2], s>>
  <2>4. CASE s = part
    <3>1. k \in DOMAIN d /\ d[k].n = run.seen
      BY <1>7, <2>1, <2>4
    <3> HIDE DEF k
    <3>2. k \in DOMAIN buffer /\ buffer[k].n = run.seen
      BY <1>10, <2>3, <3>1
    <3> QED BY <3>2 DEF k
  <2>5. CASE s # part /\ In(run.todo, s)
    BY <1>2, <2>5
  <2>6. CASE ~In(run.todo, s)
    <3>1. k \in DOMAIN run.buffer /\ run.buffer[k].n = run.seen
      BY <1>0, <2>6 DEF SiteReadings
    <3> HIDE DEF k
    <3>2. k \in DOMAIN d => d[k].n = run.seen
      BY <1>7
    <3>3. k \in DOMAIN buffer /\ buffer[k].n = run.seen
      BY <1>10, <2>3, <3>1, <3>2
    <3> QED BY <3>3 DEF k
  <2> QED BY <2>4, <2>5, <2>6
<1> QED BY <1>13, <1>14, <1>15, <1>18, <1>19, <1>20 DEF FeedInv

\* The run leaves its part out.
LeavesOut(clean) == run' = [run EXCEPT !.todo = Tail(@), !.clean = clean]

\* A loader that skips what it cannot read goes on with the next part.
LEMMA SkipStep ==
    ASSUME FeedInv, UNCHANGED <<feed, posted, table, archived, runs>>, faults' \in 0 .. MaxFaults,
           run.phase = "reading", run.todo # <<>>, NEW clean \in BOOLEAN,
           LeavesOut(clean),
           clean => /\ run.clean /\ DocLoads
                    /\ ~InScope(Head(run.todo))
    PROVE  FeedInv'
<1>0. /\ Types /\ Once /\ Readings /\ run \in RunRecord
      /\ posted \in Seq(Doc) /\ DOMAIN posted = 1 .. Len(posted) /\ Len(posted) \in Nat
  BY DEF FeedInv, Types
<1>1. run.todo \in Seq(Part) /\ run.seen \in 0 .. Len(posted)
  BY <1>0 DEF RunRecord
<1> DEFINE part == Head(run.todo)
           todo == Tail(run.todo)
<1>2. /\ todo \in Seq(Part) /\ Len(run.todo) \in Nat
      /\ DOMAIN run.todo = 1 .. Len(run.todo) /\ DOMAIN todo = 1 .. Len(run.todo) - 1
      /\ \A i \in 1 .. Len(run.todo) - 1 : todo[i] = run.todo[i + 1]
      /\ part = run.todo[1] /\ part \in Part
      /\ \A x : In(run.todo, x) => x = part \/ In(todo, x)
  BY <1>0, <1>1, TailFacts
<1>3. /\ run' = [run EXCEPT !.todo = todo, !.clean = clean]
      /\ run'.phase = "reading" /\ run'.page = run.page /\ run'.found = run.found
      /\ run'.todo = todo /\ run'.buffer = run.buffer /\ run'.seen = run.seen
      /\ run'.clean = clean
  BY <1>0 DEF RunRecord, LeavesOut
<1>4. clean => run.clean /\ DocLoads /\ ~InScope(part)
  OBVIOUS
<1> HIDE DEF todo, part
<1>5. /\ Plan' = Plan /\ Paged' = Paged /\ DocLoads' = DocLoads /\ Reaches' = Reaches
      /\ Part' = Part /\ \A n \in DOMAIN posted : KeysOf(n)' = KeysOf(n)
      /\ Stamped' = Stamped
  BY <1>0, TablesKept
<1>6. run' \in RunRecord'
  <2>1. RunRecord' = RunRecord
    BY <1>3, <1>5 DEF RunRecord
  <2> QED BY <1>0, <1>2, <1>3, <2>1 DEF RunRecord
<1>7. Types'
  <2>1. Sound(run.buffer)' /\ IsTable(run.buffer)'
    BY <1>0, <1>3 DEF Types, Sound, IsTable
  <2>2. runs' \in 0 .. MaxRuns
    BY <1>0 DEF Types
  <2> QED BY <1>0, <1>3, <1>5, <1>6, <2>1, <2>2, TablesKept DEF Types
<1>8. Once'
  BY <1>0, OnceKept
<1>9. Listings' /\ Done'
  BY <1>3 DEF Listings, Done
<1>10. Readings'
  <2>7. /\ posted' = posted /\ DocLoads' = DocLoads /\ Reaches' = Reaches /\ run'.todo = todo
        /\ run'.seen = run.seen /\ (run'.clean => clean)
    BY <1>3, <1>5
  <2> SUFFICES ASSUME Reaches', DocLoads', run'.clean
               PROVE  /\ \A n \in 1 .. run'.seen : InScope(n)' => In(run'.todo, n) \/ Kept(n)'
                      /\ \A i \in DOMAIN run'.todo : \A n \in 1 .. run'.seen :
                            InScope(n)' /\ posted'[n].about = posted'[run'.todo[i]].about
                            /\ run'.todo[i] < n =>
                                \E j \in DOMAIN run'.todo : i < j /\ run'.todo[j] = n
    BY DEF Readings
  <2>8. Reaches /\ DocLoads /\ clean
    BY <2>7
  <2>4. \A n \in DOMAIN posted : Kept(n) => Kept(n)'
    BY <1>3, <1>5 DEF Kept, Holds
  <2>5. \A n : InScope(n)' <=> InScope(n)
    <3>1. posted' = posted /\ Plan' = Plan /\ Paged' = Paged /\ run'.seen = run.seen
      BY <1>3, <1>5
    <3> QED BY <3>1 DEF InScope, Newer
  <2>6. \A n \in 1 .. run.seen : n \in DOMAIN posted
    BY <1>0, <1>1
  <2>1. /\ \A n \in 1 .. run.seen : InScope(n) => In(run.todo, n) \/ Kept(n)
        /\ \A i \in DOMAIN run.todo : \A n \in 1 .. run.seen :
              InScope(n) /\ posted[n].about = posted[run.todo[i]].about /\ run.todo[i] < n =>
                  \E j \in DOMAIN run.todo : i < j /\ run.todo[j] = n
    BY <1>0, <1>4, <2>8 DEF Readings
  <2>2. \A n \in 1 .. run.seen : InScope(n) => In(todo, n) \/ Kept(n)
    BY <1>2, <1>4, <2>1, <2>8
  <2>3. ASSUME NEW i \in DOMAIN todo, NEW n \in 1 .. run.seen, InScope(n),
               posted[n].about = posted[todo[i]].about, todo[i] < n
        PROVE  \E j \in DOMAIN todo : i < j /\ todo[j] = n
    <3>1. i + 1 \in DOMAIN run.todo /\ run.todo[i + 1] = todo[i] /\ i \in Nat
      BY <1>2
    <3>2. PICK j \in DOMAIN run.todo : i + 1 < j /\ run.todo[j] = n
      BY <2>1, <2>3, <3>1
    <3>3. j - 1 \in 1 .. Len(run.todo) - 1 /\ i < j - 1 /\ (j - 1) + 1 = j
      BY <1>2, <3>1, <3>2, SMTT(30)
    <3>4. todo[j - 1] = n
      BY <1>2, <3>2, <3>3
    <3> QED BY <1>2, <3>3, <3>4
  <2>9. \A n \in 1 .. run.seen : InScope(n)' => In(todo, n) \/ Kept(n)'
    BY <2>2, <2>4, <2>5, <2>6
  <2>10. \A i \in DOMAIN todo : \A n \in 1 .. run.seen :
            InScope(n)' /\ posted[n].about = posted[todo[i]].about /\ todo[i] < n =>
                \E j \in DOMAIN todo : i < j /\ todo[j] = n
    BY <2>3, <2>5
  <2>11. posted' = posted /\ run'.todo = todo /\ run'.seen = run.seen
    BY <2>7
  <2> QED BY <2>9, <2>10, <2>11
<1>11. Windows' /\ SiteReadings'
  <2>1. DocLoads => Plan.parts \notin {"windows", "window"} /\ feed # "weather"
    BY DocFeeds DEF DocLoads
  <2> QED BY <1>3, <1>4, <1>5, <2>1 DEF Windows, SiteReadings
<1> QED BY <1>7, <1>8, <1>9, <1>10, <1>11 DEF FeedInv

\* A part cannot be read.
LEMMA UnreadableStep ==
    ASSUME FeedInv, PartUnreadable
    PROVE  FeedInv'
<1>0. /\ UNCHANGED <<feed, posted, table, archived>> /\ runs' = runs /\ faults' = faults
      /\ runs \in 0 .. MaxRuns /\ faults \in 0 .. MaxFaults /\ run \in RunRecord
      /\ run.phase = "reading" /\ run.todo # <<>> /\ ~Readable(Head(run.todo))
      /\ run' = AfterError(run, run.clean)
  BY DEF FeedInv, Types, PartUnreadable
<1>1. CASE Plan.onError = "skip"
  <2>1. Plan.parts = "archive" /\ ~posted[Head(run.todo)].readable
    <3>1. Plan.parts \notin {"windows", "window", "sites"}
      BY <1>0 DEF Readable
    <3> QED BY <1>0, <1>1, <3>1, PlanFacts DEF Readable, WindowsFeeds
  <2>2. DocLoads /\ ~InScope(Head(run.todo))
    <3>1. Paged /\ Plan.parts # "newest" /\ Plan.parts # "loaded" /\ Plan.parts # "sites"
      BY <2>1 DEF Paged
    <3>2. InScope(Head(run.todo)) <=> Newer(Head(run.todo)) /\ posted[Head(run.todo)].readable
      BY <3>1 DEF InScope
    <3> QED BY <2>1, <3>2 DEF DocLoads
  <2>3. run' = [run EXCEPT !.todo = Tail(@), !.clean = run.clean]
    BY <1>0, <1>1 DEF AfterError
  <2>4. PICK clean \in BOOLEAN : clean = run.clean
    BY <1>0 DEF RunRecord
  <2>5. LeavesOut(clean)
    BY <2>3, <2>4 DEF LeavesOut
  <2>6. clean => run.clean /\ DocLoads /\ ~InScope(Head(run.todo))
    BY <2>2, <2>4
  <2> QED BY <1>0, <2>5, <2>6, SkipStep
<1>2. CASE Plan.onError # "skip"
  BY <1>0, <1>2, DeadStep DEF AfterError
<1> QED BY <1>1, <1>2

\* A request fails.
LEMMA FailStep ==
    ASSUME FeedInv, PartFails
    PROVE  FeedInv'
<1>0. /\ UNCHANGED <<feed, posted, table, archived>> /\ runs' = runs
      /\ runs \in 0 .. MaxRuns /\ faults' \in 0 .. MaxFaults
      /\ run.phase = "reading" /\ run.todo # <<>>
      /\ run' = AfterError(run, FALSE)
  BY FeedsAssumption DEF FeedInv, Types, PartFails
<1>1. CASE Plan.onError = "skip"
  <2>1. run' = [run EXCEPT !.todo = Tail(@), !.clean = FALSE]
    BY <1>0, <1>1 DEF AfterError
  <2>2. PICK clean \in BOOLEAN : ~clean /\ LeavesOut(clean)
    BY <2>1 DEF LeavesOut
  <2> QED BY <1>0, <2>2, SkipStep
<1>2. CASE Plan.onError # "skip"
  BY <1>0, <1>2, DeadStep DEF AfterError
<1> QED BY <1>1, <1>2

\* A listing or the database fails, or the process is killed.
LEMMA DiesStep ==
    ASSUME FeedInv, LoadDies
    PROVE  FeedInv'
<1>0. /\ UNCHANGED <<feed, posted, table, archived>> /\ runs' = runs
      /\ runs \in 0 .. MaxRuns /\ faults' \in 0 .. MaxFaults
      /\ run' = [NoRun EXCEPT !.phase = "dead"]
  BY FeedsAssumption DEF FeedInv, Types, LoadDies
<1> QED BY <1>0, DeadStep

\* Everything is read.
LEMMA AllReadStep ==
    ASSUME FeedInv, AllRead
    PROVE  FeedInv'
<1> DEFINE phase == IF Plan.commit = "each" THEN "ended" ELSE "writing"
<1>0. /\ Types /\ Once /\ Readings /\ Windows /\ SiteReadings /\ run \in RunRecord
      /\ run.phase = "reading" /\ run.todo = <<>>
      /\ posted \in Seq(Doc) /\ DOMAIN posted = 1 .. Len(posted) /\ Len(posted) \in Nat
      /\ UNCHANGED <<feed, posted, table, archived, runs, faults>>
      /\ run' = [run EXCEPT !.phase = phase]
  BY DEF FeedInv, Types, AllRead
<1>1. /\ run'.phase = phase /\ run'.page = run.page /\ run'.found = run.found
      /\ run'.todo = <<>> /\ run'.buffer = run.buffer /\ run'.seen = run.seen
      /\ run'.clean = run.clean
  BY <1>0 DEF RunRecord
<1>2. phase \in {"ended", "writing"} /\ (phase = "ended" <=> Plan.commit = "each")
  OBVIOUS
<1> HIDE DEF phase
<1>3. /\ Plan' = Plan /\ Paged' = Paged /\ DocLoads' = DocLoads /\ Reaches' = Reaches
      /\ Part' = Part /\ \A n \in DOMAIN posted : KeysOf(n)' = KeysOf(n)
      /\ Stamped' = Stamped
  BY <1>0, TablesKept
<1>4. run' \in RunRecord'
  <2>1. RunRecord' = RunRecord
    BY <1>0, <1>1, <1>3 DEF RunRecord
  <2> QED BY <1>0, <1>2, <2>1 DEF RunRecord
<1>5. Types'
  <2>1. Sound(run.buffer)' /\ IsTable(run.buffer)'
    BY <1>0, <1>1 DEF Types, Sound, IsTable
  <2>2. runs' \in 0 .. MaxRuns /\ faults' \in 0 .. MaxFaults
    BY <1>0 DEF Types
  <2> QED BY <1>0, <1>1, <1>2, <1>3, <1>4, <2>1, <2>2, TablesKept DEF Types
<1>6. Once'
  BY <1>0, OnceKept
<1>7. \A n \in 1 .. run.seen : n \in DOMAIN posted
  BY <1>0 DEF RunRecord
<1>8. \A n \in DOMAIN posted : Kept(n) => Kept(n)'
  BY <1>0, <1>1, <1>3 DEF Kept, Holds
<1>9. \A n : InScope(n)' <=> InScope(n)
  BY <1>0, <1>1, <1>3 DEF InScope, Newer
<1>10. Readings'
  <2>1. \A x : ~In(run.todo, x)
    BY <1>0 DEF In
  <2>2. /\ posted' = posted /\ DocLoads' = DocLoads /\ Reaches' = Reaches /\ run'.todo = run.todo
        /\ run'.seen = run.seen /\ run'.clean = run.clean /\ run.phase = "reading"
        /\ Readings /\ DOMAIN run.todo = {}
    BY <1>0, <1>1, <1>3
  <2> QED BY <1>7, <1>8, <1>9, <2>1, <2>2 DEF Readings
<1>11. Windows' /\ SiteReadings'
  <2>1. Windows'
    BY <1>0, <1>1, <1>3, <1>7, <1>8 DEF Windows
  <2>2. SiteReadings'
    <3>1. run.seen = Len(posted) /\ run.seen # 0 => run.seen \in DOMAIN posted
      BY <1>0 DEF RunRecord
    <3>2. /\ posted' = posted /\ feed' = feed /\ run'.todo = run.todo /\ run'.buffer = run.buffer
          /\ run'.seen = run.seen /\ run'.clean = run.clean /\ run.phase = "reading" /\ SiteReadings
      BY <1>0, <1>1
    <3> QED BY <1>3, <3>1, <3>2 DEF SiteReadings
  <2> QED BY <2>1, <2>2
<1>12. Listings'
  BY <1>1, <1>2 DEF Listings
<1>13. Done'
  <2> SUFFICES ASSUME Reaches, Plan.commit = "each", run.clean, NEW n \in 1 .. run.seen, InScope(n),
                      NEW k \in KeysOf(n)
               PROVE  Holds(table, k, n)
    BY <1>0, <1>1, <1>2, <1>3, <1>7, <1>9 DEF Done, Holds
  <2>1. ~In(run.todo, n) /\ DOMAIN run.todo = {}
    BY <1>0 DEF In
  <2>2. CASE DocLoads
    BY <1>0, <2>1, <2>2 DEF Readings, Kept
  <2>3. CASE Plan.parts \in {"windows", "window"}
    BY <1>0, <2>1, <2>3 DEF Windows, Kept
  <2> QED BY <2>2, <2>3, PlanFacts DEF DocLoads
<1> QED BY <1>5, <1>6, <1>10, <1>11, <1>12, <1>13 DEF FeedInv

\* The whole run is written at once.
LEMMA WriteAllStep ==
    ASSUME FeedInv, WriteAll
    PROVE  FeedInv'
<1> DEFINE phase == IF feed = "weather" THEN "archiving" ELSE "ended"
           rows == IF feed = "weather" THEN Means(run.buffer) ELSE run.buffer
<1>0. /\ Types /\ Once /\ Readings /\ SiteReadings /\ run \in RunRecord
      /\ run.phase = "writing" /\ Plan.commit = "end"
      /\ posted \in Seq(Doc) /\ DOMAIN posted = 1 .. Len(posted) /\ Len(posted) \in Nat
      /\ UNCHANGED <<feed, posted, archived, runs, faults>>
      /\ table' = Stored(rows) /\ run' = [run EXCEPT !.phase = phase]
      /\ Sound(table) /\ Sound(run.buffer)
  BY DEF FeedInv, Types, WriteAll
<1>1. /\ run'.phase = phase /\ run'.page = run.page /\ run'.found = run.found
      /\ run'.todo = run.todo /\ run'.buffer = run.buffer /\ run'.seen = run.seen
      /\ run'.clean = run.clean
  BY <1>0 DEF RunRecord
<1>2. run.todo = <<>> /\ feed # "rtd"
  BY <1>0, PlanFacts DEF Types, ArchiveFeeds, NewestFeeds, WindowsFeeds
<1>3. PICK b, t : b = run.buffer /\ t = table
  OBVIOUS
<1>4. /\ Sound(Means(b))
      /\ \A h \in DOMAIN Means(b) : \A s \in Sites : <<h[1], h[2], s>> \in DOMAIN b
      /\ \A x, y : (\A s \in Sites : <<x, y, s>> \in DOMAIN b) => <<x, y>> \in DOMAIN Means(b)
      /\ \A h \in DOMAIN Means(b) : \E s \in Sites : Means(b)[h].n = b[<<h[1], h[2], s>>].n
  <2>1. Sound(b) /\ posted \in Seq(Doc)
    BY <1>0, <1>3
  <2> QED BY <2>1, MeansFacts
<1>5. PICK r : r = rows
  OBVIOUS
<1>6. /\ feed = "weather" => r = Means(b)
      /\ feed # "weather" => r = b
  BY <1>3, <1>5
<1>7. table' = Over(r, t) /\ Sound(r)
  BY <1>0, <1>2, <1>3, <1>4, <1>5, <1>6 DEF Stored
<1>8. /\ DOMAIN Over(r, t) = DOMAIN r \cup DOMAIN t
      /\ \A k \in DOMAIN r : Over(r, t)[k] = r[k]
      /\ \A k \in DOMAIN t : k \notin DOMAIN r => Over(r, t)[k] = t[k]
      /\ Sound(Over(r, t))
  <2>1. Sound(t)
    BY <1>0, <1>3
  <2> QED BY <1>7, <2>1, OverFacts
<1>9. phase \in {"ended", "archiving"} /\ (phase = "archiving" => feed = "weather")
  OBVIOUS
<1> HIDE DEF phase, rows
<1>10. \A n \in 1 .. run.seen : n \in DOMAIN posted
  BY <1>0 DEF RunRecord
<1>11. /\ Plan' = Plan /\ Paged' = Paged /\ DocLoads' = DocLoads /\ Reaches' = Reaches
       /\ \A n \in DOMAIN posted : KeysOf(n)' = KeysOf(n)
      /\ Stamped' = Stamped
  BY <1>0, Frozen
<1>12. \A n : InScope(n)' <=> InScope(n)
  <2>1. posted' = posted /\ Plan' = Plan /\ Paged' = Paged /\ run'.seen = run.seen
    BY <1>0, <1>1, <1>11
  <2> QED BY <2>1 DEF InScope, Newer
<1>13. run' \in RunRecord'
  <2>1. RunRecord' = RunRecord
    BY <1>0, <1>1, <1>11 DEF RunRecord, Part
  <2> QED BY <1>0, <1>9, <2>1 DEF RunRecord
<1>14. Types'
  <2>1. Sound(table)' /\ Sound(run.buffer)' /\ IsTable(run.buffer)'
    BY <1>0, <1>1, <1>7, <1>8 DEF Types, Sound, IsTable
  <2>2. /\ feed' \in Feed /\ posted' \in Seq(Doc) /\ Len(posted') <= MaxDocs
        /\ runs' \in 0 .. MaxRuns /\ faults' \in 0 .. MaxFaults
        /\ archived' \subseteq Sites \X DOMAIN posted'
        /\ feed' = "weather" => \A k \in DOMAIN run'.buffer : k[3] \in Sites
        /\ feed' = "offers" => \A k \in DOMAIN run'.buffer : k[2] \in Nat
        /\ feed' # "rtd"
        /\ run'.todo = <<>> /\ run'.phase # "listing"
        /\ run'.buffer # <<>> => Plan'.commit # "each"
        /\ run'.phase = "archiving" => feed' = "weather"
    BY <1>0, <1>1, <1>2, <1>9, <1>11 DEF Types
  <2> QED BY <1>13, <2>1, <2>2 DEF Types
<1>15. Once'
  BY <1>0, OnceKept
<1>16. Listings' /\ Readings' /\ Windows' /\ SiteReadings'
  BY <1>1, <1>9 DEF Listings, Readings, Windows, SiteReadings
<1>17. Done'
  <2> SUFFICES ASSUME Reaches, run.clean, NEW n \in 1 .. run.seen, InScope(n), NEW k \in KeysOf(n)
               PROVE  Holds(Over(r, t), k, n)
    BY <1>1, <1>7, <1>10, <1>11, <1>12 DEF Done, Holds
  <2>0. n \in DOMAIN posted /\ n \in Nat
    BY <1>10, <1>0
  <2>1. CASE feed = "weather"
    <3>1. n = Len(posted)
      <4>1. Plan.parts = "sites"
        BY <2>1, PlanFacts
      <4> QED BY <4>1 DEF InScope, Paged
    <3>2. run.seen = n /\ run.seen # 0 /\ posted # <<>>
      <4>1. run.seen \in 0 .. Len(posted)
        BY <1>0 DEF RunRecord
      <4> QED BY <3>1, <4>1, <1>0, <2>0
    <3>3. \A s \in Sites : <<k[1], k[2], s>> \in DOMAIN b /\ b[<<k[1], k[2], s>>].n = n
      <4>1. ASSUME NEW s PROVE ~In(run.todo, s)
        BY <1>2 DEF In
      <4>2. \A h \in KeysOf(n) : \A s \in Sites :
               \/ In(run.todo, s)
               \/ <<h[1], h[2], s>> \in DOMAIN b /\ b[<<h[1], h[2], s>>].n = n
        BY <1>0, <1>3, <2>1, <3>1, <3>2 DEF SiteReadings
      <4> QED BY <4>1, <4>2
    <3>4. k = <<k[1], k[2]>>
      <4>1. Rows(SiteAnswer(1)) = {LastOfKey(SiteAnswer(1))}
        BY <2>1 DEF Rows
      <4>2. LastOfKey(SiteAnswer(1)) \in Rows(SiteAnswer(1)) /\ 1 \in Sites
        BY <4>1 DEF Sites
      <4>3. \A h \in KeysOf(Len(posted)) : h = <<h[1], h[2]>>
        BY <1>0, <2>1, <3>2, <4>2, SiteRead
      <4> QED BY <4>3, <3>1
    <3>5. k \in DOMAIN Means(b)
      BY <1>4, <3>3, <3>4
    <3>6. Means(b)[k].n = n
      BY <1>4, <3>3, <3>5
    <3> QED BY <1>6, <1>8, <2>0, <2>1, <3>5, <3>6 DEF Holds
  <2>2. CASE feed # "weather"
    <3>1. DocLoads
      BY <1>0, <2>2, PlanFacts DEF DocLoads
    <3>2. ~In(run.todo, n)
      BY <1>2 DEF In
    <3>3. Kept(n)
      BY <1>0, <3>1, <3>2 DEF Readings
    <3>4. Holds(b, k, n)
      BY <1>0, <1>3, <3>3 DEF Kept
    <3> QED BY <1>6, <1>8, <2>2, <3>4 DEF Holds
  <2> QED BY <2>1, <2>2
<1> QED BY <1>14, <1>15, <1>16, <1>17 DEF FeedInv

\* The offers are written one batch after the other.
LEMMA WriteBatchStep ==
    ASSUME FeedInv, WriteBatch
    PROVE  FeedInv'
<1>0. /\ Types /\ Once /\ Readings /\ run \in RunRecord
      /\ run.phase = "writing" /\ Plan.commit = "batch"
      /\ posted \in Seq(Doc) /\ DOMAIN posted = 1 .. Len(posted) /\ Len(posted) \in Nat
      /\ UNCHANGED <<feed, posted, archived, runs, faults>>
      /\ Sound(table) /\ Sound(run.buffer) /\ IsTable(run.buffer)
  BY DEF FeedInv, Types, WriteBatch
<1>1. feed = "offers" /\ DocLoads /\ Plan.parts = "newest" /\ run.todo = <<>>
  BY <1>0, PlanFacts DEF Types, NewestFeeds, DocLoads
<1>2. \A n \in 1 .. run.seen : n \in DOMAIN posted
  BY <1>0 DEF RunRecord
<1>3. /\ Plan' = Plan /\ Paged' = Paged /\ DocLoads' = DocLoads /\ Reaches' = Reaches
      /\ \A n \in DOMAIN posted : KeysOf(n)' = KeysOf(n)
      /\ Stamped' = Stamped
  BY <1>0, Frozen
<1>4. Once'
  BY <1>0, OnceKept
<1>5. ASSUME Reaches, run.clean, NEW n \in 1 .. run.seen, InScope(n) PROVE Kept(n)
  <2>1. ~In(run.todo, n)
    BY <1>1 DEF In
  <2> QED BY <1>0, <1>1, <1>5, <2>1 DEF Readings
<1>6. /\ feed' \in Feed /\ posted' \in Seq(Doc) /\ Len(posted') <= MaxDocs
      /\ runs' \in 0 .. MaxRuns /\ faults' \in 0 .. MaxFaults
      /\ archived' \subseteq Sites \X DOMAIN posted'
      /\ feed' = "offers" /\ Plan'.commit # "each"
  BY <1>0, <1>1, <1>3 DEF Types
<1>7. CASE run.buffer = <<>>
  <2>1. run' = [run EXCEPT !.phase = "ended"] /\ table' = table
    BY <1>7 DEF WriteBatch
  <2>2. /\ run'.phase = "ended" /\ run'.page = run.page /\ run'.found = run.found
        /\ run'.todo = run.todo /\ run'.buffer = run.buffer /\ run'.seen = run.seen
        /\ run'.clean = run.clean
    BY <1>0, <2>1 DEF RunRecord
  <2>3. run' \in RunRecord'
    <3>1. RunRecord' = RunRecord
      BY <1>0, <2>2, <1>3 DEF RunRecord, Part
    <3> QED BY <1>0, <2>1, <3>1 DEF RunRecord
  <2>4. Types'
    <3>1. Sound(table)' /\ Sound(run.buffer)' /\ IsTable(run.buffer)'
      BY <1>0, <2>1, <2>2 DEF Sound, IsTable
    <3>2. \A k \in DOMAIN run'.buffer : FALSE
      BY <1>7, <2>2
    <3> QED BY <1>1, <1>6, <2>2, <2>3, <3>1, <3>2 DEF Types
  <2>5. Listings' /\ Readings' /\ Windows' /\ SiteReadings'
    BY <2>2 DEF Listings, Readings, Windows, SiteReadings
  <2>6. Done'
    <3> SUFFICES ASSUME Reaches, run.clean, NEW n \in 1 .. run.seen, InScope(n)', NEW k \in KeysOf(n)
                 PROVE  Holds(table, k, n)
      BY <1>2, <1>3, <2>1, <2>2 DEF Done, Holds
    <3>1. InScope(n)
      <4>1. posted' = posted /\ Plan' = Plan /\ Paged' = Paged /\ run'.seen = run.seen
        BY <1>0, <1>3, <2>2
      <4> QED BY <4>1 DEF InScope, Newer
    <3>2. Kept(n)
      BY <1>5, <3>1
    <3>3. DOMAIN run.buffer = {}
      BY <1>7
    <3> QED BY <3>2, <3>3 DEF Kept, Holds
  <2> QED BY <1>4, <2>4, <2>5, <2>6 DEF FeedInv
<1>8. CASE run.buffer # <<>>
  <2> DEFINE first == CHOOSE k \in DOMAIN run.buffer : \A l \in DOMAIN run.buffer : k[2] <= l[2]
  <2>1. PICK b, t : b = run.buffer /\ t = table
    OBVIOUS
  <2>2. DOMAIN b # {}
    <3>1. ASSUME DOMAIN b = {} PROVE FALSE
      <4>1. b = [k \in {} |-> b[k]]
        BY <1>0, <2>1, <3>1 DEF IsTable
      <4>2. b = <<>>
        BY <4>1
      <4> QED BY <4>2, <1>8, <2>1
    <3> QED BY <3>1
  <2>3. \A k \in DOMAIN b : k[2] \in Nat
    BY <1>0, <1>1, <2>1 DEF Types
  <2>4. first \in DOMAIN b
    <3>1. {k[2] : k \in DOMAIN b} \in SUBSET Nat /\ {k[2] : k \in DOMAIN b} # {}
      BY <2>2, <2>3
    <3>2. PICK x \in {k[2] : k \in DOMAIN b} : \A y \in {k[2] : k \in DOMAIN b} : x <= y
      BY <3>1, LeastNumber
    <3>3. \E k \in DOMAIN b : \A l \in DOMAIN b : k[2] <= l[2]
      BY <3>2
    <3>4. first = CHOOSE k \in DOMAIN b : \A l \in DOMAIN b : k[2] <= l[2]
      BY <2>1
    <3> QED BY <3>3, <3>4
  <2> DEFINE rest == [k \in DOMAIN b \ {first} |-> b[k]]
             batch == [k \in {first} |-> b[first]]
  <2>5. table' = Over(batch, t) /\ run' = [run EXCEPT !.buffer = rest]
    <3>1. table' = Stored([k \in {first} |-> run.buffer[first]])
          /\ run' = [run EXCEPT !.buffer = [k \in DOMAIN @ \ {first} |-> @[k]]]
      BY <1>8 DEF WriteBatch
    <3>2. Stored(batch) = Over(batch, t)
      BY <1>1, <2>1 DEF Stored
    <3> QED BY <2>1, <3>1, <3>2
  <2>6. PICK f : f = first
    OBVIOUS
  <2>7. /\ f \in DOMAIN b /\ DOMAIN rest = DOMAIN b \ {f} /\ \A k \in DOMAIN rest : rest[k] = b[k]
        /\ DOMAIN batch = {f} /\ batch[f] = b[f]
    BY <2>4, <2>6
  <2>8. PICK r, c : r = rest /\ c = batch
    OBVIOUS
  <2> HIDE DEF first, rest, batch
  <2>9. /\ f \in DOMAIN b /\ DOMAIN r = DOMAIN b \ {f} /\ \A k \in DOMAIN r : r[k] = b[k]
        /\ DOMAIN c = {f} /\ c[f] = b[f]
        /\ table' = Over(c, t) /\ run' = [run EXCEPT !.buffer = r]
    BY <2>5, <2>7, <2>8
  <2>10. Sound(r) /\ Sound(c) /\ Sound(b) /\ Sound(t) /\ IsTable(r)
    <3>1. IsTable(r)
      BY <2>8 DEF IsTable, rest
    <3> QED BY <1>0, <2>1, <2>9, <3>1 DEF Sound
  <2>11. /\ DOMAIN Over(c, t) = DOMAIN c \cup DOMAIN t
         /\ \A k \in DOMAIN c : Over(c, t)[k] = c[k]
         /\ \A k \in DOMAIN t : k \notin DOMAIN c => Over(c, t)[k] = t[k]
         /\ Sound(Over(c, t))
    BY <2>10, OverFacts
  <2>12. /\ run'.phase = "writing" /\ run'.page = run.page /\ run'.found = run.found
         /\ run'.todo = run.todo /\ run'.buffer = r /\ run'.seen = run.seen
         /\ run'.clean = run.clean
    BY <1>0, <2>9 DEF RunRecord
  <2>13. run' \in RunRecord'
    <3>1. RunRecord' = [phase : {"idle", "listing", "reading", "writing", "archiving", "ended", "dead"},
              page : Nat \ {0}, found : Seq(DOMAIN posted), todo : Seq(Part), buffer : {run'.buffer},
              seen : 0 .. Len(posted), clean : BOOLEAN]
      BY <1>0, <1>3 DEF RunRecord, Part
    <3>2. r \in {run'.buffer}
      BY <2>12
    <3> QED BY <1>0, <2>9, <3>1, <3>2 DEF RunRecord
  <2>14. Types'
    <3>1. Sound(table)' /\ Sound(run.buffer)' /\ IsTable(run.buffer)'
      BY <1>0, <2>9, <2>10, <2>11, <2>12 DEF Sound, IsTable
    <3>2. \A k \in DOMAIN run'.buffer : k[2] \in Nat
      BY <2>3, <2>9, <2>12
    <3> QED BY <1>1, <1>6, <2>12, <2>13, <3>1, <3>2 DEF Types
  <2>15. Listings' /\ Windows' /\ SiteReadings' /\ Done'
    <3>1. feed' # "weather" /\ Plan'.parts \notin {"windows", "window"}
      BY <1>0, <1>1, <1>3
    <3> QED BY <2>12, <3>1 DEF Listings, Windows, SiteReadings, Done
  <2>16. Readings'
    <3>1. ASSUME Reaches, run.clean, NEW n \in 1 .. run.seen, InScope(n)', NEW k \in KeysOf(n)
          PROVE  Holds(r, k, n) \/ Holds(table', k, n)
      <4>1. InScope(n)
        <5>1. posted' = posted /\ Plan' = Plan /\ Paged' = Paged /\ run'.seen = run.seen
          BY <1>0, <1>3, <2>12
        <5> QED BY <3>1, <5>1 DEF InScope, Newer
      <4>2. Holds(b, k, n) \/ Holds(t, k, n)
        BY <1>5, <2>1, <3>1, <4>1 DEF Kept
      <4>3. CASE Holds(b, k, n) /\ k # f
        BY <2>9, <4>3 DEF Holds
      <4>4. CASE Holds(b, k, n) /\ k = f
        BY <2>9, <2>11, <4>4 DEF Holds
      <4>5. CASE Holds(t, k, n) /\ k # f
        BY <2>9, <2>11, <4>5 DEF Holds
      <4>6. CASE Holds(t, k, n) /\ k = f
        <5>1. b[f].n \in DOMAIN posted /\ t[f].n \in DOMAIN posted
              /\ posted[b[f].n].about = posted[t[f].n].about
          BY <2>9, <2>10, <4>6 DEF Sound, Holds
        <5>2. b[f].n = t[f].n
          BY <1>0, <1>1, <5>1 DEF Once
        <5>3. Over(c, t)[f] = b[f] /\ f \in DOMAIN Over(c, t)
          BY <2>9, <2>11
        <5> QED BY <2>9, <4>6, <5>2, <5>3 DEF Holds
      <4> QED BY <4>2, <4>3, <4>4, <4>5, <4>6
    <3>2. ASSUME Reaches, run.clean, NEW n \in 1 .. run.seen, InScope(n)' PROVE Kept(n)'
      <4>1. KeysOf(n)' = KeysOf(n)
        BY <1>2, <1>3
      <4>2. Plan'.commit \notin {"each", "end"}
        BY <1>0, <1>3
      <4> QED BY <1>3, <2>12, <3>1, <3>2, <4>1, <4>2 DEF Kept, Holds
    <3>3. DOMAIN run'.todo = {} /\ run'.seen = run.seen /\ run'.clean = run.clean /\ Reaches' = Reaches
      BY <1>1, <1>3, <2>12
    <3> QED BY <3>2, <3>3 DEF Readings
  <2> QED BY <1>4, <2>14, <2>15, <2>16 DEF FeedInv
<1> QED BY <1>7, <1>8

\* The series are archived, or it fails.
LEMMA ArchiveStep ==
    ASSUME FeedInv, NEW works \in BOOLEAN, Archive(works)
    PROVE  FeedInv'
<1>0. /\ Types /\ Once /\ Done /\ run \in RunRecord /\ run.phase = "archiving" /\ feed = "weather"
      /\ posted \in Seq(Doc) /\ DOMAIN posted = 1 .. Len(posted) /\ Len(posted) \in Nat
      /\ UNCHANGED <<feed, posted, table, runs>>
      /\ run' = [run EXCEPT !.phase = "ended", !.buffer = <<>>]
      /\ Sound(run.buffer) /\ \A k \in DOMAIN run.buffer : k[3] \in Sites
      /\ archived \subseteq Sites \X DOMAIN posted
  BY DEF FeedInv, Types, Archive
<1>1. /\ run'.phase = "ended" /\ run'.page = run.page /\ run'.found = run.found
      /\ run'.todo = run.todo /\ run'.buffer = <<>> /\ run'.seen = run.seen
      /\ run'.clean = run.clean
  BY <1>0 DEF RunRecord
<1>2. archived' \subseteq Sites \X DOMAIN posted
  <2>1. VintageRows(run.buffer) \subseteq Sites \X DOMAIN posted
    BY <1>0 DEF VintageRows, Sound
  <2> QED BY <1>0, <2>1 DEF Archive
<1>3. faults' \in 0 .. MaxFaults
  BY <1>0, FeedsAssumption DEF Archive, Types
<1>4. /\ Plan' = Plan /\ Paged' = Paged /\ DocLoads' = DocLoads /\ Reaches' = Reaches
      /\ \A n \in DOMAIN posted : KeysOf(n)' = KeysOf(n)
      /\ Stamped' = Stamped
  BY <1>0, Frozen
<1>5. run' \in RunRecord'
  <2>1. RunRecord' = [phase : {"idle", "listing", "reading", "writing", "archiving", "ended", "dead"},
              page : Nat \ {0}, found : Seq(DOMAIN posted), todo : Seq(Part), buffer : {run'.buffer},
              seen : 0 .. Len(posted), clean : BOOLEAN]
    BY <1>0, <1>4 DEF RunRecord, Part
  <2>2. <<>> \in {run'.buffer}
    BY <1>1
  <2> QED BY <1>0, <2>1, <2>2 DEF RunRecord
<1>6. Types'
  <2>1. Sound(table)' /\ Sound(run.buffer)' /\ IsTable(run.buffer)'
    <3>1. IsTable(<<>>)
      BY DEF IsTable
    <3>2. IsTable(run.buffer)'
      BY <1>1, <3>1 DEF IsTable
    <3> QED BY <1>0, <1>1, <3>2 DEF Types, Sound
  <2>2. run.todo = <<>>
    BY <1>0 DEF Types
  <2>3. \A k \in DOMAIN run'.buffer : FALSE
    BY <1>1
  <2> QED BY <1>0, <1>1, <1>2, <1>3, <1>4, <1>5, <2>1, <2>2, <2>3 DEF Types
<1>7. Once'
  BY <1>0, OnceKept
<1>8. Listings' /\ Readings' /\ Windows' /\ SiteReadings'
  BY <1>1 DEF Listings, Readings, Windows, SiteReadings
<1>9. Done'
  <2> SUFFICES ASSUME Reaches, run.clean, NEW n \in 1 .. run.seen, InScope(n)', NEW k \in KeysOf(n)
               PROVE  Holds(table, k, n)
    <3>2. \A m \in 1 .. run.seen : m \in DOMAIN posted
      BY <1>0 DEF RunRecord
    <3> QED BY <1>0, <1>1, <1>4, <3>2 DEF Done, Holds
  <2>1. InScope(n)
    <3>1. posted' = posted /\ Plan' = Plan /\ Paged' = Paged /\ run'.seen = run.seen
      BY <1>0, <1>1, <1>4
    <3> QED BY <3>1 DEF InScope, Newer
  <2> QED BY <1>0, <2>1 DEF Done
<1> QED BY <1>6, <1>7, <1>8, <1>9 DEF FeedInv

-----------------------------------------------------------------------------
(* From the first state to every state. *)

\* Before the first run.
LEMMA FeedInitInv == FeedInit => FeedInv
<1> SUFFICES ASSUME FeedInit PROVE FeedInv
  OBVIOUS
<1>1. /\ feed \in Feed /\ posted = <<>> /\ table = <<>> /\ archived = {} /\ runs = 0 /\ faults = 0
      /\ run = [phase |-> "idle", page |-> 1, found |-> <<>>, todo |-> <<>>,
                buffer |-> <<>>, seen |-> 0, clean |-> TRUE]
  BY DEF FeedInit, NoRun
<1>2. /\ run.phase = "idle" /\ run.page = 1 /\ run.found = <<>> /\ run.todo = <<>>
      /\ run.buffer = <<>> /\ run.seen = 0 /\ run.clean = TRUE
  BY <1>1
<1>3. run \in RunRecord
  <2> DEFINE b == run.buffer
             R == [phase : {"idle", "listing", "reading", "writing", "archiving", "ended", "dead"},
                   page : Nat \ {0}, found : Seq(DOMAIN posted), todo : Seq(Part), buffer : {b},
                   seen : 0 .. Len(posted), clean : BOOLEAN]
  <2>1. RunRecord = R
    BY DEF RunRecord
  <2>2. b = <<>> /\ 0 \in 0 .. Len(posted) /\ <<>> \in Seq(DOMAIN posted) /\ <<>> \in Seq(Part)
    BY <1>1, <1>2
  <2> HIDE DEF b
  <2>3. [phase |-> "idle", page |-> 1, found |-> <<>>, todo |-> <<>>,
         buffer |-> b, seen |-> 0, clean |-> TRUE] \in R
    BY <2>2
  <2> QED BY <1>1, <2>1, <2>2, <2>3
<1>4. Types
  <2>1. IsTable(<<>>) /\ Sound(<<>>)
    BY DEF IsTable, Sound
  <2>2. /\ \A k \in DOMAIN table : FALSE
        /\ \A k \in DOMAIN run.buffer : FALSE
    BY <1>1, <1>2
  <2>3. posted \in Seq(Doc) /\ Len(posted) = 0
    BY <1>1
  <2> QED BY <1>1, <1>2, <1>3, <2>1, <2>2, <2>3, FeedsAssumption DEF Types
<1>5. Once
  BY <1>1 DEF Once
<1>6. Listings /\ Readings /\ Windows /\ SiteReadings /\ Done
  BY <1>2 DEF Listings, Readings, Windows, SiteReadings, Done
<1> QED BY <1>4, <1>5, <1>6 DEF FeedInv

\* Nothing happens to the loader.
LEMMA FeedUnchanged ==
    ASSUME FeedInv, UNCHANGED feedVars
    PROVE  FeedInv'
<1>0. /\ Types /\ Once /\ Listings /\ Readings /\ Windows /\ SiteReadings /\ Done
      /\ posted \in Seq(Doc)
      /\ UNCHANGED <<feed, posted, table, archived, run, runs, faults>>
      /\ \A n \in 1 .. run.seen : n \in DOMAIN posted
  BY DEF FeedInv, Types, RunRecord, feedVars
<1>1. /\ Plan' = Plan /\ Paged' = Paged /\ DocLoads' = DocLoads /\ Reaches' = Reaches
      /\ Part' = Part /\ \A n \in DOMAIN posted : KeysOf(n)' = KeysOf(n)
      /\ Stamped' = Stamped
  BY <1>0, TablesKept
<1>2. /\ feed' = feed /\ posted' = posted /\ table' = table /\ archived' = archived
      /\ run' = run /\ runs' = runs /\ faults' = faults
  BY <1>0
<1>3. \A n : InScope(n)' <=> InScope(n)
  BY <1>1, <1>2 DEF InScope, Newer
<1>4. \A n \in DOMAIN posted : Kept(n) => Kept(n)'
  BY <1>1, <1>2 DEF Kept, Holds
<1>5. Types'
  <2>1. RunRecord' = RunRecord
    BY <1>1, <1>2 DEF RunRecord
  <2>2. Sound(run.buffer)' /\ Sound(table)' /\ IsTable(run.buffer)'
    BY <1>0 DEF Types, Sound, IsTable
  <2> QED BY <1>0, <1>1, <1>2, <2>1, <2>2 DEF Types
<1>6. Once' /\ Listings'
  BY <1>0, <1>1, <1>2 DEF Once, Listings, Newer, In, NoticePages
<1>7. Readings'
  BY <1>0, <1>1, <1>2, <1>3, <1>4 DEF Readings
<1>8. Windows'
  BY <1>0, <1>1, <1>2, <1>4 DEF Windows
<1>9. SiteReadings'
  <2>1. run.seen # 0 => run.seen \in DOMAIN posted
    BY <1>0 DEF Types, RunRecord
  <2> QED BY <1>0, <1>1, <1>2, <2>1 DEF SiteReadings
<1>10. Done'
  BY <1>0, <1>1, <1>2, <1>3 DEF Done, Holds
<1> QED BY <1>5, <1>6, <1>7, <1>8, <1>9, <1>10 DEF FeedInv

\* No step of ERCOT or of a run violates the invariant.
LEMMA FeedStepInv == FeedInv /\ [Next]_vars => FeedInv'
<1> SUFFICES ASSUME FeedInv, [Next]_vars PROVE FeedInv'
  OBVIOUS
<1>1. CASE StartLoad
  BY <1>1, StartStep
<1>2. CASE ListPage
  BY <1>2, ListStep
<1>3. CASE ReadPart
  BY <1>3, ReadStep
<1>4. CASE PartUnreadable
  BY <1>4, UnreadableStep
<1>5. CASE PartFails
  BY <1>5, FailStep
<1>6. CASE AllRead
  BY <1>6, AllReadStep
<1>7. CASE WriteAll
  BY <1>7, WriteAllStep
<1>8. CASE WriteBatch
  BY <1>8, WriteBatchStep
<1>9. CASE LoadDies
  BY <1>9, DiesStep
<1>10. ASSUME NEW works \in BOOLEAN, Archive(works) PROVE FeedInv'
  BY <1>10, ArchiveStep
<1>11. ASSUME NEW d \in Doc, Post(d) PROVE FeedInv'
  BY <1>11, PostStep
<1>12. CASE UNCHANGED feedVars
  BY <1>12, FeedUnchanged
<1>13. CASE UNCHANGED vars
  BY <1>12, <1>13 DEF vars, feedVars
<1> QED BY <1>1, <1>2, <1>3, <1>4, <1>5, <1>6, <1>7, <1>8, <1>9, <1>10, <1>11, <1>12, <1>13
        DEF Next, LoadStep

\* The day that is listed today for the last time.
Oldest == today - Back

\* While the run of today is under way, the oldest edition is still to be
\* saved, or is; no day before it is pending.
UnderWay ==
    planRun = "running" =>
        /\ pending \subseteq {d \in Day : d >= Oldest}
        /\ Oldest \in Day =>
              /\ listing[Oldest] = edition[Oldest]
              /\ edition[Oldest] = "good" => Oldest \in saved \cup pending \cup missed

\* Once it has ended, it is saved, or a fault came between.
Ended ==
    planRun = "ended" =>
        (Oldest \in Day /\ edition[Oldest] = "good" => Oldest \in saved \cup missed)

PlanInv == PlanTypeOK /\ UnderWay /\ Ended /\ EditionsKept

\* Before the first day.
LEMMA PlanInitInv == PlanInit => PlanInv
BY PlanAssumption, SMT
   DEF PlanInit, PlanInv, PlanTypeOK, UnderWay, Ended, EditionsKept, Oldest, Day

\* No step of the plan's job violates its invariant.
LEMMA PlanStepInv == PlanInv /\ [PlanNext]_planVars => PlanInv'
<1> SUFFICES ASSUME PlanInv, [PlanNext]_planVars PROVE PlanInv'
    OBVIOUS
<1> USE PlanAssumption DEF PlanInv, PlanTypeOK, UnderWay, Ended, EditionsKept, Oldest, Day
<1>1. ASSUME NEW kind \in {"good", "malformed"}, PostEdition(kind) PROVE PlanInv'
    BY <1>1, SMT DEF PostEdition
<1>2. CASE StartPlan
    BY <1>2, SMT DEF StartPlan, Listed
<1>3. ASSUME NEW d \in Day, SaveEdition(d) PROVE PlanInv'
    BY <1>3, SMT DEF SaveEdition, IsNext
<1>4. ASSUME NEW d \in Day, EditionRaises(d) PROVE PlanInv'
    <2>1. Oldest \in Day /\ edition[Oldest] = "good" => Oldest \notin pending
        BY <1>4, SMT DEF EditionRaises, IsNext
    <2> QED BY <1>4, <2>1, SMT DEF EditionRaises
<1>5. CASE EndPlan
    BY <1>5, SMT DEF EndPlan
<1>6. CASE PlanFault
    BY <1>6, SMT DEF PlanFault
<1>7. CASE NextDay
    BY <1>7, SMT DEF NextDay
<1>8. CASE UNCHANGED planVars
    BY <1>8, SMT DEF planVars
<1> QED BY <1>1, <1>2, <1>3, <1>4, <1>5, <1>6, <1>7, <1>8 DEF PlanNext

\* Nor does one of another loader.
LEMMA PlanKept == PlanInv /\ [Next]_vars => PlanInv'
<1> SUFFICES ASSUME PlanInv, [Next]_vars PROVE PlanInv'
  OBVIOUS
<1>1. [PlanNext]_planVars
  BY DEF Next, vars, planVars
<1> QED BY <1>1, PlanStepInv

\* TYPE: what a table, a buffer and the archive hold comes from documents, of every
\* loader, and a run has something to read in some phases only.
THEOREM FeedsTypes == Spec => []TypeOK
<1>1. Init => FeedInv /\ PlanInv
  BY FeedInitInv, PlanInitInv DEF Init
<1>2. FeedInv /\ PlanInv => TypeOK
  <2> SUFFICES ASSUME FeedInv, PlanInv PROVE TypeOK
    OBVIOUS
  <2>1. /\ Types /\ posted \in Seq(Doc) /\ DOMAIN posted = 1 .. Len(posted) /\ Len(posted) \in Nat
        /\ Len(posted) <= MaxDocs /\ MaxDocs \in Nat
    BY FeedsAssumption DEF FeedInv, Types
  <2>2. DOMAIN posted \subseteq 1 .. MaxDocs /\ \A n \in DOMAIN posted : posted[n].about \in About
    BY <2>1 DEF About
  <2>3. ASSUME NEW t, Sound(t) PROVE \A k \in DOMAIN t : t[k].key = k /\ EntryTypeOK(t[k])
    BY <2>2, <2>3 DEF Sound, EntryTypeOK
  <2>4. PICK t, b : t = table /\ b = run.buffer
    OBVIOUS
  <2>5. /\ \A k \in DOMAIN table : EntryTypeOK(table[k])
        /\ \A k \in DOMAIN run.buffer : run.buffer[k].key = k /\ EntryTypeOK(run.buffer[k])
    <3>1. Sound(t) /\ Sound(b)
      BY <2>1, <2>4 DEF Types
    <3>2. /\ \A k \in DOMAIN t : EntryTypeOK(t[k])
          /\ \A k \in DOMAIN b : b[k].key = k /\ EntryTypeOK(b[k])
      BY <2>3, <3>1
    <3> QED BY <2>4, <3>2
  <2>6. archived \subseteq Sites \X (1 .. MaxDocs)
    BY <2>1, <2>2 DEF Types
  <2>7. run.phase \in {"idle", "listing", "reading", "writing", "archiving", "ended", "dead"}
    BY <2>1 DEF Types, RunRecord
  <2> QED BY <2>1, <2>5, <2>6, <2>7 DEF TypeOK, Types, PlanInv
<1> QED BY <1>1, <1>2, FeedStepInv, PlanKept, PTL DEF Spec

\* At most NoticePages pages of notices come after the first day.
NoticesFit == "notices" \in Feed => MaxDocs <= OldDocs + NoticePages * PageSize

\* After a run that came to its end with every read answered, the table holds, for
\* every key of every document that it was to load, the row of the newest of them or of
\* a newer one.
THEOREM NewestRowsStand == NoticesFit => (Spec => []NewestStands)
<1> SUFFICES ASSUME NoticesFit PROVE Spec => []NewestStands
  OBVIOUS
<1>1. FeedInv => NewestStands
  <2> SUFFICES ASSUME FeedInv PROVE NewestStands
    OBVIOUS
  <2>1. Reaches /\ Done
    BY DEF FeedInv, Types, Reaches, NoticesFit
  <2> QED BY <2>1 DEF Done, Holds, NewestStands
<1>2. Init => FeedInv
  BY FeedInitInv DEF Init
<1> QED BY <1>1, <1>2, FeedStepInv, PTL DEF Spec

\* The editions that ERCOT has dropped were saved, whatever malformed ones it posted, as
\* long as the last run that listed each was not hit by a fault.
THEOREM EditionsStay == Spec => []EditionsKept
<1>1. Init => PlanInv
  BY PlanInitInv DEF Init
<1>2. PlanInv => EditionsKept
  BY DEF PlanInv
<1> QED BY <1>1, <1>2, PlanKept, PTL DEF Spec

=============================================================================
