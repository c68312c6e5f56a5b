-------------------------- MODULE PriceStoreProofs -------------------------
(***************************************************************************)
(* Proofs about PriceStore, for any number of writers: as-of reads never   *)
(* look ahead; until two transactions are open at once the revision        *)
(* history is a chain and the table implements PriceLedger; and with one   *)
(* report row per key, a load puts nothing older in a row than the row     *)
(* held when it fetched, and writes nothing when all it holds is stored.   *)
(***************************************************************************)
EXTENDS PriceStore, FiniteSetTheorems, WellFoundedInduction, TLAPS

\* An uncommitted update belongs to a writer between its two statements, is
\* one of the rows it fetched, and is of a row that exists.
ChangedOK ==
    \A w \in Writer, k \in Key : changed[w][k] # NoQuote =>
        /\ pc[w] = "updated"
        /\ changed[w][k] \in batch[w][k]
        /\ live[k] # NoRow

\* The part of the state every argument below needs.
BaseInv == TypeOK /\ ChangedOK

\* Every state reachable by PriceStore is well typed: the facts about the
\* transaction of upsert_rows that the other proofs start from.
LEMMA BaseInit == Init => BaseInv
<1> SUFFICES ASSUME Init PROVE BaseInv
  OBVIOUS
<1>1. TypeOK
  <2>1. seen \in [Writer -> [Key -> 0 .. MaxRev]]
    <3>1. NothingSeen \in [Key -> 0 .. MaxRev]
      BY BoundsAssumption DEF NothingSeen
    <3>2. seen = [w \in Writer |-> NothingSeen]
      BY DEF Init
    <3> HIDE DEF NothingSeen
    <3> QED BY <3>1, <3>2
  <2>2. /\ report \in [Key -> SUBSET Quote]
        /\ batch \in [Writer -> [Key -> SUBSET Quote]]
        /\ changed \in [Writer -> [Key -> Quote \cup {NoQuote}]]
    BY DEF Init, Nothing, NoChange
  <2>3. clock \in Time /\ lastRev \in 0 .. MaxRev /\ began \in [Writer -> Time]
    BY BoundsAssumption DEF Init, Time
  <2>4. /\ live \in [Key -> Row \cup {NoRow}]
        /\ pc \in [Writer -> {"idle", "fetched", "open", "updated"}]
    BY DEF Init
  <2>5. published = {} /\ history = {} /\ overlapped \in BOOLEAN
    BY Zenon DEF Init
  <2> QED BY <2>1, <2>2, <2>3, <2>4, <2>5 DEF TypeOK
<1>2. ChangedOK
  BY DEF Init, ChangedOK, NoChange
<1> QED BY <1>1, <1>2 DEF BaseInv

\* A revised row is a row.
LEMMA RevisedType ==
    ASSUME NEW row \in Row, NEW q \in Quote, NEW t \in Time
    PROVE  /\ Revised(row, q, t) \in Row
           /\ Revised(row, q, t).price = q.price
           /\ Revised(row, q, t).rev = q.rev
           /\ Revised(row, q, t).ingested_at = row.ingested_at
           /\ Revised(row, q, t).price_from =
                 IF q.price # row.price THEN t ELSE row.price_from
  BY DEF Revised, Row, Quote

\* A row of the table is not NoRow.
LEMMA RowsAreNotNull == \A row \in Row : row # NoRow
<1> SUFFICES ASSUME NEW row \in Row PROVE row # NoRow
  OBVIOUS
<1>1. row = [price |-> row.price, rev |-> row.rev, price_from |-> row.price_from,
             ingested_at |-> row.ingested_at, updated_at |-> row.updated_at]
  BY DEF Row
<1>2. /\ row.price \in Price /\ row.rev \in 1 .. MaxRev
      /\ row.price_from \in 0 .. MaxClock /\ row.ingested_at \in 0 .. MaxClock
      /\ row.updated_at \in 0 .. MaxClock
  BY DEF Row, Rev, Time
<1> QED BY <1>1, <1>2, NullsAssumption

\* What a commit leaves in the tables, key by key.
LEMMA CommitEffect ==
    ASSUME BaseInv, NEW w \in Writer, Commit(w)
    PROVE  /\ live' \in [Key -> Row \cup {NoRow}]
           /\ \A k \in Key :
                \/ /\ live[k] = NoRow
                   /\ live'[k] = NoRow
                \/ /\ live[k] = NoRow
                   /\ \E q \in batch[w][k] : q \in Quote /\ live'[k] = Inserted(q, began[w])
                \/ /\ live[k] # NoRow
                   /\ changed[w][k] = NoQuote
                   /\ live'[k] = live[k]
                \/ /\ live[k] # NoRow
                   /\ changed[w][k] # NoQuote
                   /\ changed[w][k] \in batch[w][k] /\ changed[w][k] \in Quote
                   /\ live'[k] = Revised(live[k], changed[w][k], began[w])
           /\ history' = history \cup {Captured(k, live[k], began[w]) : k \in Repriced(w)}
           /\ \A k \in Repriced(w) :
                /\ k \in Key /\ live[k] # NoRow /\ changed[w][k] # NoQuote
                /\ changed[w][k].price # live[k].price
<1> PICK new \in [Key -> Quote \cup {NoQuote}] :
      /\ \A k \in Key : IF live[k] = NoRow /\ batch[w][k] # {}
                        THEN new[k] \in batch[w][k] ELSE new[k] = NoQuote
      /\ live' = [k \in Key |->
            IF new[k] # NoQuote THEN Inserted(new[k], began[w])
            ELSE IF changed[w][k] # NoQuote
                 THEN Revised(live[k], changed[w][k], began[w])
                 ELSE live[k]]
  BY Zenon DEF Commit
<1>1. \A k \in Key : batch[w][k] \subseteq Quote
  BY DEF BaseInv, TypeOK
<1>2. ASSUME NEW q \in Quote PROVE q # NoQuote
  <2>1. q = [price |-> q.price, rev |-> q.rev] /\ q.price \in Price /\ q.rev \in 1 .. MaxRev
    BY DEF Quote, Rev
  <2> QED BY <2>1, NullsAssumption
<1>3. ASSUME NEW k \in Key
      PROVE  /\ live'[k] \in Row \cup {NoRow}
             /\ \/ live[k] = NoRow /\ live'[k] = NoRow
                \/ /\ live[k] = NoRow
                   /\ \E q \in batch[w][k] : q \in Quote /\ live'[k] = Inserted(q, began[w])
                \/ live[k] # NoRow /\ changed[w][k] = NoQuote /\ live'[k] = live[k]
                \/ /\ live[k] # NoRow
                   /\ changed[w][k] # NoQuote
                   /\ changed[w][k] \in batch[w][k] /\ changed[w][k] \in Quote
                   /\ live'[k] = Revised(live[k], changed[w][k], began[w])
  <2>0. /\ live[k] \in Row \cup {NoRow} /\ began[w] \in Time
        /\ changed[w][k] \in Quote \cup {NoQuote} /\ new[k] \in Quote \cup {NoQuote}
    BY DEF BaseInv, TypeOK
  <2>1. CASE live[k] = NoRow /\ batch[w][k] # {}
    <3>1. new[k] \in batch[w][k] /\ new[k] \in Quote /\ new[k] # NoQuote
      BY <1>1, <1>2, <2>1
    <3>2. live'[k] = Inserted(new[k], began[w])
      BY <3>1
    <3>3. Inserted(new[k], began[w]) \in Row
      BY <3>1, <2>0 DEF Inserted, Row, Quote
    <3> QED BY <2>1, <3>1, <3>2, <3>3
  <2>2. CASE live[k] = NoRow /\ batch[w][k] = {}
    <3>1. changed[w][k] = NoQuote
      BY <2>2 DEF BaseInv, ChangedOK
    <3> QED BY <2>2, <3>1
  <2>3. CASE live[k] # NoRow
    <3>1. new[k] = NoQuote
      BY <2>3
    <3>2. CASE changed[w][k] = NoQuote
      BY <2>0, <2>3, <3>1, <3>2
    <3>3. CASE changed[w][k] # NoQuote
      <4>1. changed[w][k] \in batch[w][k] /\ changed[w][k] \in Quote
        BY <3>3, <2>0 DEF BaseInv, ChangedOK
      <4>2. live'[k] = Revised(live[k], changed[w][k], began[w])
        BY <3>1, <3>3
      <4>3. Revised(live[k], changed[w][k], began[w]) \in Row
        BY <2>0, <2>3, <4>1, RevisedType
      <4> QED BY <2>3, <3>3, <4>1, <4>2, <4>3
    <3> QED BY <3>2, <3>3
  <2> QED BY <2>1, <2>2, <2>3
<1>4. live' = [k \in Key |-> live'[k]]
  OBVIOUS
<1>5. \A k \in Repriced(w) :
         /\ k \in Key /\ live[k] # NoRow /\ changed[w][k] # NoQuote
         /\ changed[w][k].price # live[k].price
  BY DEF Repriced, BaseInv, ChangedOK
<1>6. history' = history \cup {Captured(k, live[k], began[w]) : k \in Repriced(w)}
  BY Zenon DEF Commit
<1>7. live' \in [Key -> Row \cup {NoRow}]
  BY <1>3, <1>4
<1> QED BY <1>3, <1>5, <1>6, <1>7

\* Every action keeps the state well typed, and keeps an uncommitted update
\* that of a row that exists.
LEMMA BaseStep == BaseInv /\ [Next]_vars => BaseInv'
<1> SUFFICES ASSUME BaseInv, [Next]_vars PROVE BaseInv'
  OBVIOUS
<1> USE DEF BaseInv
<1>1. CASE Tick
  BY <1>1, BoundsAssumption DEF Tick, TypeOK, ChangedOK, Time, ercot, tables, notes
<1>2. ASSUME NEW k \in Key, NEW p \in Price, Publish(k, p) PROVE BaseInv'
  <2> DEFINE q == [price |-> p, rev |-> lastRev + 1]
  <2>1. q \in Quote /\ lastRev + 1 \in 0 .. MaxRev
    BY <1>2, BoundsAssumption DEF Publish, TypeOK, Quote, Rev
  <2>2. report' \in [Key -> SUBSET Quote]
    <3>1. report' = [report EXCEPT ![k] = {q}] \/ report' = [report EXCEPT ![k] = @ \cup {q}]
      BY <1>2, Zenon DEF Publish
    <3>2. report \in [Key -> SUBSET Quote]
      BY DEF TypeOK
    <3> HIDE DEF q
    <3> QED BY <2>1, <3>1, <3>2
  <2>3. published' \subseteq [key : Key, price : Price, at : Time]
    BY <1>2 DEF Publish, TypeOK
  <2> QED BY <1>2, <2>1, <2>2, <2>3 DEF Publish, TypeOK, ChangedOK, tables, notes
<1>3. ASSUME NEW w \in Writer, NEW K \in SUBSET Key, Fetch(w, K) PROVE BaseInv'
  <2>1. batch' \in [Writer -> [Key -> SUBSET Quote]]
    BY <1>3 DEF Fetch, TypeOK
  <2>2. seen' \in [Writer -> [Key -> 0 .. MaxRev]]
    <3>1. [k \in Key |-> IF live[k] = NoRow THEN 0 ELSE live[k].rev] \in [Key -> 0 .. MaxRev]
      BY BoundsAssumption DEF TypeOK, Row, Rev
    <3> QED BY <1>3, <3>1 DEF Fetch, TypeOK
  <2>3. TypeOK'
    BY <1>3, <2>1, <2>2 DEF Fetch, TypeOK, ercot, tables
  <2>4. ChangedOK'
    BY <1>3 DEF Fetch, TypeOK, ChangedOK, ercot, tables
  <2> QED BY <2>3, <2>4
<1>4. ASSUME NEW w \in Writer, Begin(w) PROVE BaseInv'
  BY <1>4 DEF Begin, TypeOK, ChangedOK, ercot, tables
<1>5. ASSUME NEW w \in Writer, Update(w) PROVE BaseInv'
  <2> PICK c \in [Key -> Quote \cup {NoQuote}] :
        /\ \A k \in Key : IF Candidates(w, k) = {} THEN c[k] = NoQuote
                                               ELSE c[k] \in Candidates(w, k)
        /\ changed' = [changed EXCEPT ![w] = c]
    BY <1>5 DEF Update
  <2>1. \A k \in Key : c[k] # NoQuote => c[k] \in batch[w][k] /\ live[k] # NoRow
    BY DEF Candidates
  <2>2. TypeOK'
    BY <1>5 DEF Update, TypeOK, ercot, tables, notes
  <2>3. ChangedOK'
    BY <1>5, <2>1 DEF Update, TypeOK, ChangedOK, ercot, tables
  <2> QED BY <2>2, <2>3
<1>6. ASSUME NEW w \in Writer, Commit(w) PROVE BaseInv'
  <2>1. live' \in [Key -> Row \cup {NoRow}]
    BY <1>6, CommitEffect
  <2>2. \A k \in Repriced(w) : Captured(k, live[k], began[w]) \in HistoryRow
    <3> SUFFICES ASSUME NEW k \in Repriced(w)
                 PROVE  Captured(k, live[k], began[w]) \in HistoryRow
      OBVIOUS
    <3>1. k \in Key /\ live[k] \in Row /\ began[w] \in Time
      BY <1>6, CommitEffect DEF TypeOK
    <3> QED BY <3>1 DEF Captured, Row, HistoryRow
  <2>3. history' \subseteq HistoryRow
    BY <1>6, <2>2, CommitEffect DEF TypeOK
  <2>4. TypeOK'
    BY <1>6, <2>1, <2>3, BoundsAssumption
    DEF Commit, Finish, TypeOK, ercot, Nothing, NoChange, NothingSeen, Time
  <2>5. \A k \in Key : live[k] # NoRow => live'[k] # NoRow
    <3> SUFFICES ASSUME NEW k \in Key, live[k] # NoRow PROVE live'[k] # NoRow
      OBVIOUS
    <3>1. live[k] \in Row /\ began[w] \in Time
      BY DEF TypeOK
    <3>2. CASE live'[k] = live[k]
      BY <3>2
    <3>3. CASE /\ changed[w][k] \in Quote
               /\ live'[k] = Revised(live[k], changed[w][k], began[w])
      BY <3>1, <3>3, RevisedType, RowsAreNotNull
    <3> QED BY <1>6, <3>2, <3>3, CommitEffect
  <2>6. ChangedOK'
    BY <1>6, <2>5 DEF Commit, Finish, TypeOK, ChangedOK, NoChange, ercot
  <2> QED BY <2>4, <2>6
<1>7. ASSUME NEW w \in Writer, Abort(w) PROVE BaseInv'
  BY <1>7, BoundsAssumption
  DEF Abort, Finish, TypeOK, ChangedOK, Time, Nothing, NoChange, NothingSeen, ercot, tables
<1>8. CASE UNCHANGED vars
  BY <1>8 DEF vars, ercot, tables, notes, TypeOK, ChangedOK
<1> QED BY <1>1, <1>2, <1>3, <1>4, <1>5, <1>6, <1>7, <1>8 DEF Next, Load

\* The price table, its history and every writer's transaction keep their
\* types for any number of keys, prices, writers and publications.
THEOREM TypeCorrect == Spec => []TypeOK
<1>1. BaseInv => TypeOK
  BY DEF BaseInv
<1> QED BY BaseInit, BaseStep, <1>1, PTL DEF Spec

\* The same facts as an invariant of the specification.
LEMMA BaseHolds == Spec => []BaseInv
  BY BaseInit, BaseStep, PTL DEF Spec

-----------------------------------------------------------------------------
(* As-of reads never look ahead, whatever the number of writers.           *)

\* Price p of key k was published by time t.
KnownIn(P, k, p, t) == \E e \in P : e.key = k /\ e.price = p /\ e.at <= t

\* From when on a writer's batch may be visible: it can be stamped with the
\* start of a transaction that is open, else with a later instant.
VisibleFrom(w) == IF pc[w] \in {"open", "updated"} THEN began[w] ELSE clock

\* Whatever is in the report, in a batch or in the tables was published before
\* any instant as of which it can be read.
SourceOK ==
    /\ \A k \in Key : \A q \in report[k] : KnownIn(published, k, q.price, clock)
    /\ \A w \in Writer, k \in Key : \A q \in batch[w][k] :
          KnownIn(published, k, q.price, VisibleFrom(w))
    /\ \A k \in Key : live[k] # NoRow =>
          KnownIn(published, k, live[k].price, live[k].price_from)
    /\ \A h \in history : KnownIn(published, h.key, h.price, h.price_from)

\* What was known by s is known by any later t, and stays known.
LEMMA KnownGrows ==
    ASSUME NEW P, NEW Q, P \subseteq Q, P \subseteq [key : Key, price : Price, at : Time],
           NEW k, NEW p, NEW s \in Time, NEW t \in Time, s <= t, KnownIn(P, k, p, s)
    PROVE  KnownIn(Q, k, p, t)
  BY DEF KnownIn, Time

LEMMA SourceStep == BaseInv /\ SourceOK /\ [Next]_vars => SourceOK'
<1> SUFFICES ASSUME BaseInv, SourceOK, [Next]_vars PROVE SourceOK'
  OBVIOUS
<1>0. BaseInv'
  BY BaseStep
<1>t. /\ published \subseteq [key : Key, price : Price, at : Time]
      /\ clock \in Time /\ began \in [Writer -> Time]
      /\ pc \in [Writer -> {"idle", "fetched", "open", "updated"}]
      /\ \A k \in Key : live[k] # NoRow => live[k] \in Row
  BY DEF BaseInv, TypeOK
<1>1. CASE Tick
  <2>1. clock' \in Time /\ clock <= clock'
    BY <1>0, <1>1, <1>t DEF Tick, BaseInv, TypeOK, Time
  <2>2. ASSUME NEW w \in Writer
        PROVE  VisibleFrom(w) \in Time /\ VisibleFrom(w)' \in Time /\ VisibleFrom(w) <= VisibleFrom(w)'
    BY <1>1, <1>t, <2>1 DEF Tick, VisibleFrom, Time
  <2>3. \A k \in Key : \A q \in report[k] : KnownIn(published, k, q.price, clock')
    BY <1>t, <2>1, KnownGrows DEF SourceOK
  <2>4. \A w \in Writer, k \in Key : \A q \in batch[w][k] :
          KnownIn(published, k, q.price, VisibleFrom(w)')
    BY <1>t, <2>2, KnownGrows DEF SourceOK
  <2> QED BY <1>1, <2>3, <2>4 DEF Tick, SourceOK, ercot, tables
<1>2. ASSUME NEW k \in Key, NEW p \in Price, Publish(k, p) PROVE SourceOK'
  <2> DEFINE q == [price |-> p, rev |-> lastRev + 1]
             e == [key |-> k, price |-> p, at |-> clock]
  <2>1. published' = published \cup {e}
    BY <1>2 DEF Publish
  <2>2. KnownIn(published', k, p, clock)
    <3>1. e \in published' /\ e.key = k /\ e.price = p /\ e.at = clock
      BY <2>1
    <3>2. clock <= clock
      BY <1>t DEF Time
    <3> HIDE DEF e
    <3> QED BY <3>1, <3>2 DEF KnownIn
  <2>3. \A j \in Key : report'[j] \subseteq report[j] \cup (IF j = k THEN {q} ELSE {})
    <3>1. report' = [report EXCEPT ![k] = {q}] \/ report' = [report EXCEPT ![k] = @ \cup {q}]
      BY <1>2, Zenon DEF Publish
    <3> HIDE DEF q
    <3> QED BY <3>1 DEF BaseInv, TypeOK
  <2>4. \A j \in Key : \A r \in report'[j] : KnownIn(published', j, r.price, clock)
    <3> SUFFICES ASSUME NEW j \in Key, NEW r \in report'[j]
                 PROVE  KnownIn(published', j, r.price, clock)
      OBVIOUS
    <3>1. CASE r \in report[j]
      <4>1. KnownIn(published, j, r.price, clock) /\ clock <= clock
        BY <1>t, <3>1 DEF SourceOK, Time
      <4> QED BY <1>t, <2>1, <4>1, KnownGrows
    <3>2. CASE j = k /\ r = q
      BY <2>2, <3>2
    <3> QED BY <2>3, <3>1, <3>2
  <2>5. UNCHANGED <<clock, tables, pc, batch, began, changed>>
    BY <1>2 DEF Publish
  <2>6. \A w \in Writer : VisibleFrom(w)' = VisibleFrom(w) /\ VisibleFrom(w) \in Time
    BY <1>t, <2>5 DEF VisibleFrom
  <2>7. \A w \in Writer, j \in Key : \A r \in batch[w][j] :
          KnownIn(published', j, r.price, VisibleFrom(w))
    BY <1>t, <2>1, <2>6, KnownGrows DEF SourceOK, Time
  <2>8. \A j \in Key : live[j] # NoRow =>
          KnownIn(published', j, live[j].price, live[j].price_from)
    BY <1>t, <2>1, KnownGrows DEF SourceOK, Row, Time
  <2>9. \A h \in history : KnownIn(published', h.key, h.price, h.price_from)
    <3>1. \A h \in history : h.price_from \in Time
      BY DEF BaseInv, TypeOK, HistoryRow
    <3> QED BY <1>t, <2>1, <3>1, KnownGrows DEF SourceOK, Time
  <2> QED BY <2>4, <2>5, <2>6, <2>7, <2>8, <2>9 DEF SourceOK, tables
<1>3. ASSUME NEW w \in Writer, NEW K \in SUBSET Key, Fetch(w, K) PROVE SourceOK'
  <2>1. \A v \in Writer : VisibleFrom(v)' = VisibleFrom(v)
    BY <1>3, <1>t DEF Fetch, VisibleFrom
  <2>2. VisibleFrom(w) = clock
    BY <1>3 DEF Fetch, VisibleFrom
  <2>3. \A v \in Writer, k \in Key : \A q \in batch'[v][k] :
           q \in batch[v][k] \/ (v = w /\ q \in report[k])
    BY <1>3 DEF Fetch, BaseInv, TypeOK
  <2>4. \A v \in Writer, k \in Key : \A q \in batch'[v][k] :
           KnownIn(published, k, q.price, VisibleFrom(v)')
    BY <2>1, <2>2, <2>3 DEF SourceOK
  <2> QED BY <1>3, <2>4 DEF Fetch, SourceOK, ercot, tables
<1>4. ASSUME NEW w \in Writer, Begin(w) PROVE SourceOK'
  <2>1. \A v \in Writer : VisibleFrom(v)' = VisibleFrom(v)
    BY <1>4, <1>t DEF Begin, VisibleFrom
  <2> QED BY <1>4, <2>1 DEF Begin, SourceOK, ercot, tables
<1>5. ASSUME NEW w \in Writer, Update(w) PROVE SourceOK'
  <2>1. \A v \in Writer : VisibleFrom(v)' = VisibleFrom(v)
    BY <1>5, <1>t DEF Update, VisibleFrom
  <2> QED BY <1>5, <2>1 DEF Update, SourceOK, ercot, tables
<1>6. ASSUME NEW w \in Writer, Commit(w) PROVE SourceOK'
  <2>0. /\ UNCHANGED <<clock, ercot>> /\ pc[w] = "updated" /\ began[w] \in Time
        /\ VisibleFrom(w) = began[w]
    BY <1>6, <1>t DEF Commit, VisibleFrom
  <2>1. \A v \in Writer, k \in Key : \A q \in batch'[v][k] :
           KnownIn(published, k, q.price, VisibleFrom(v)')
    BY <1>6, <1>t DEF Commit, Finish, SourceOK, VisibleFrom, Nothing, BaseInv, TypeOK
  <2>2. ASSUME NEW k \in Key, live'[k] # NoRow
        PROVE  KnownIn(published, k, live'[k].price, live'[k].price_from)
    <3>1. ASSUME NEW q \in batch[w][k], q \in Quote, live'[k] = Inserted(q, began[w])
          PROVE  KnownIn(published, k, live'[k].price, live'[k].price_from)
      BY <2>0, <3>1 DEF Inserted, SourceOK
    <3>2. CASE live[k] # NoRow /\ live'[k] = live[k]
      BY <3>2 DEF SourceOK
    <3>3. CASE /\ live[k] # NoRow
               /\ changed[w][k] \in batch[w][k] /\ changed[w][k] \in Quote
               /\ live'[k] = Revised(live[k], changed[w][k], began[w])
      <4>1. /\ live'[k].price = changed[w][k].price
            /\ live'[k].price_from = IF changed[w][k].price # live[k].price
                                     THEN began[w] ELSE live[k].price_from
        BY <1>t, <2>0, <3>3, RevisedType
      <4> QED BY <2>0, <3>3, <4>1 DEF SourceOK
    <3> QED BY <1>6, <2>2, <3>1, <3>2, <3>3, CommitEffect
  <2>3. ASSUME NEW h \in history' PROVE KnownIn(published, h.key, h.price, h.price_from)
    <3>1. CASE h \in history
      BY <3>1 DEF SourceOK
    <3>2. ASSUME NEW k \in Repriced(w), h = Captured(k, live[k], began[w])
          PROVE  KnownIn(published, h.key, h.price, h.price_from)
      BY <1>6, <3>2, CommitEffect DEF Captured, SourceOK
    <3> QED BY <1>6, <3>1, <3>2, CommitEffect
  <2> QED BY <2>0, <2>1, <2>2, <2>3, <1>6
          DEF SourceOK, ercot, Commit, Finish
<1>7. ASSUME NEW w \in Writer, Abort(w) PROVE SourceOK'
  BY <1>7, <1>t DEF Abort, Finish, SourceOK, VisibleFrom, Nothing, ercot, tables, BaseInv, TypeOK
<1>8. CASE UNCHANGED vars
  BY <1>8 DEF vars, ercot, tables, SourceOK, VisibleFrom
<1> QED BY <1>1, <1>2, <1>3, <1>4, <1>5, <1>6, <1>7, <1>8 DEF Next, Load

\* No as-of read returns a price ERCOT had not published by then, for any
\* number of jobs, backfills and processes writing the table at once.
THEOREM NeverLooksAhead == Spec => []NoLookahead
<1>1. Init => SourceOK
  BY DEF Init, SourceOK, Nothing
<1>2. BaseInv /\ SourceOK => NoLookahead
  <2> SUFFICES ASSUME BaseInv, SourceOK,
                      NEW k \in Key, NEW t \in Time, NEW p \in Answers(k, t)
               PROVE  KnownIn(published, k, p, t)
    BY DEF NoLookahead, KnownIn
  <2>1. PICK m \in Matches(k, t) : m.price = p
    BY DEF Answers, Newest
  <2>2. m.from \in Time /\ m.from <= t /\ KnownIn(published, k, p, m.from)
    <3>1. ASSUME NEW h \in history, h.key = k, h.price_from <= t,
                 m = [price |-> h.price, from |-> h.price_from]
          PROVE  m.from \in Time /\ m.from <= t /\ KnownIn(published, k, p, m.from)
      BY <2>1, <3>1 DEF SourceOK, BaseInv, TypeOK, HistoryRow
    <3>2. CASE /\ live[k] # NoRow /\ live[k].price_from <= t
               /\ m = [price |-> live[k].price, from |-> live[k].price_from]
      BY <2>1, <3>2 DEF SourceOK, BaseInv, TypeOK, Row
    <3> QED BY <2>1, <3>1, <3>2 DEF Matches
  <2> QED BY <2>2, KnownGrows DEF BaseInv, TypeOK
<1> QED BY <1>1, <1>2, BaseInit, BaseStep, SourceStep, PTL DEF Spec

-----------------------------------------------------------------------------
(* Until two transactions are open at once the revision history is a chain. *)

\* At most one transaction is open.
Alone == \A v, w \in Writer : (InTransaction(v) /\ InTransaction(w)) => v = w

\* Stamps never run ahead of the clock, and an open transaction's stamp is no
\* older than any row's.  A commit inside another transaction breaks the second.
StampsOrdered ==
    /\ \A k \in Key : live[k] # NoRow =>
          live[k].ingested_at <= live[k].price_from /\ live[k].price_from <= clock
    /\ \A w \in Writer : InTransaction(w) =>
          /\ began[w] <= clock
          /\ \A k \in Key : live[k] # NoRow => live[k].price_from <= began[w]

ChainInv == StampsOrdered /\ Chain

OrderInv == ~overlapped => (Alone /\ ChainInv)

\* The chain grows by one link: the captured row ends where the row in force
\* now begins, and begins where the row in force began before.
LEMMA ChainCommit ==
    ASSUME BaseInv, BaseInv', ChainInv, NEW w \in Writer, Commit(w)
    PROVE  Chain'
<1>t. /\ began[w] \in Time /\ pc[w] = "updated"
      /\ \A k \in Key : live[k] # NoRow => live[k] \in Row
      /\ history \subseteq HistoryRow /\ history' \subseteq HistoryRow
      /\ \A k \in Key : live'[k] # NoRow => live'[k] \in Row
  BY DEF BaseInv, TypeOK, Commit
<1>b. \A k \in Key : live[k] # NoRow =>
         live[k].ingested_at <= live[k].price_from /\ live[k].price_from <= began[w]
  BY <1>t DEF ChainInv, StampsOrdered, InTransaction
<1> DEFINE Link(k) == Captured(k, live[k], began[w])
<1>h. \A h \in history' : h \in history \/ \E k \in Repriced(w) : h = Link(k)
  BY CommitEffect
<1>g. history \subseteq history' /\ \A k \in Repriced(w) : Link(k) \in history'
  BY CommitEffect
<1>l. \A k \in Repriced(w) :
         /\ k \in Key /\ live[k] \in Row
         /\ Link(k).key = k /\ Link(k).price_from = live[k].price_from
         /\ Link(k).price_to = began[w] /\ Link(k).ingested_at = live[k].ingested_at
  BY <1>t, CommitEffect DEF Captured
<1>r. ASSUME NEW k \in Key, live[k] # NoRow
      PROVE  /\ live'[k] # NoRow /\ live'[k].ingested_at = live[k].ingested_at
             /\ live[k].price_from <= live'[k].price_from
             /\ \/ live'[k].price_from = live[k].price_from
                \/ k \in Repriced(w)
             /\ k \in Repriced(w) => live'[k].price_from = began[w]
  <2>1. live[k] \in Row
    BY <1>r, <1>t
  <2>2. CASE changed[w][k] = NoQuote
    <3>1. live'[k] = live[k] /\ k \notin Repriced(w)
      BY <1>r, <2>2, CommitEffect
    <3> QED BY <1>r, <2>1, <3>1 DEF Row, Time
  <2>3. CASE changed[w][k] # NoQuote
    <3>1. changed[w][k] \in Quote /\ live'[k] = Revised(live[k], changed[w][k], began[w])
      BY <1>r, <2>3, CommitEffect
    <3>2. /\ live'[k] \in Row
          /\ live'[k].ingested_at = live[k].ingested_at
          /\ live'[k].price_from =
                IF changed[w][k].price # live[k].price THEN began[w] ELSE live[k].price_from
      BY <1>t, <2>1, <3>1, RevisedType
    <3>3. k \in Repriced(w) <=> changed[w][k].price # live[k].price
      BY <2>3 DEF Repriced
    <3>4. live'[k] # NoRow
      BY <3>2, RowsAreNotNull
    <3>5. live[k].price_from <= began[w] /\ live[k].price_from \in Nat /\ began[w] \in Nat
      BY <1>b, <1>r, <1>t, <2>1 DEF Row, Time
    <3> QED BY <3>2, <3>3, <3>4, <3>5
  <2> QED BY <2>2, <2>3
<1>1. IntervalsForward'
  <2> SUFFICES ASSUME NEW h \in history'
               PROVE  /\ h.ingested_at <= h.price_from /\ h.price_from <= h.price_to
                      /\ live'[h.key] # NoRow /\ h.price_to <= live'[h.key].price_from
    BY DEF IntervalsForward
  <2>1. CASE h \in history
    <3>1. /\ h.ingested_at <= h.price_from /\ h.price_from <= h.price_to
          /\ live[h.key] # NoRow /\ h.price_to <= live[h.key].price_from
      BY <2>1 DEF ChainInv, Chain, IntervalsForward
    <3>2. h.key \in Key /\ h \in HistoryRow
      BY <1>t, <2>1 DEF HistoryRow
    <3>3. live'[h.key] # NoRow /\ live[h.key].price_from <= live'[h.key].price_from
      BY <1>r, <3>1, <3>2
    <3>4. /\ h.price_to \in Int /\ live[h.key].price_from \in Int
          /\ live'[h.key].price_from \in Int
      BY <1>t, <3>1, <3>2, <3>3 DEF HistoryRow, Row, Time
    <3> QED BY <3>1, <3>3, <3>4
  <2>2. ASSUME NEW k \in Repriced(w), h = Link(k)
        PROVE  /\ h.ingested_at <= h.price_from /\ h.price_from <= h.price_to
               /\ live'[h.key] # NoRow /\ h.price_to <= live'[h.key].price_from
    <3>1. k \in Key /\ live[k] # NoRow
      BY CommitEffect
    <3>2. live'[k] # NoRow /\ live'[k].price_from = began[w] /\ began[w] \in Int
      BY <1>r, <1>t, <3>1 DEF Time
    <3> HIDE DEF Link
    <3> QED BY <1>b, <1>l, <2>2, <3>1, <3>2
  <2> QED BY <1>h, <2>1, <2>2
<1>2. IntervalsDisjoint'
  <2> SUFFICES ASSUME NEW g \in history', NEW h \in history', g.key = h.key, g # h
               PROVE  g.price_to <= h.price_from \/ h.price_to <= g.price_from
    BY DEF IntervalsDisjoint
  <2>1. CASE g \in history /\ h \in history
    BY <2>1 DEF ChainInv, Chain, IntervalsDisjoint
  <2>2. ASSUME NEW a \in history, NEW k \in Repriced(w), a.key = k
        PROVE  a.price_to <= Link(k).price_from
    <3> HIDE DEF Link
    <3> QED BY <1>l, <2>2 DEF ChainInv, Chain, IntervalsForward
  <2>3. CASE g \in history /\ h \notin history
    <3> PICK k \in Repriced(w) : h = Link(k)
      BY <1>h, <2>3
    <3>1. g.key = k
      BY <1>l
    <3> QED BY <2>2, <2>3, <3>1
  <2>4. CASE g \notin history /\ h \in history
    <3> PICK k \in Repriced(w) : g = Link(k)
      BY <1>h, <2>4
    <3>1. h.key = k
      BY <1>l
    <3> QED BY <2>2, <2>4, <3>1
  <2>5. CASE g \notin history /\ h \notin history
    <3> PICK j \in Repriced(w) : g = Link(j)
      BY <1>h, <2>5
    <3> PICK k \in Repriced(w) : h = Link(k)
      BY <1>h, <2>5
    <3>1. j = k
      BY <1>l
    <3> QED BY <3>1
  <2> QED BY <2>1, <2>3, <2>4, <2>5
<1>3. IntervalsUnbroken'
  <2> DEFINE Starts(k, t) == \E g \in history' : g.key = k /\ g.price_to = t
  <2>s. \A k, t : StartsAt(k, t) => Starts(k, t)
    BY <1>g DEF StartsAt
  <2>1. ASSUME NEW h \in history'
        PROVE  h.price_from = h.ingested_at \/ Starts(h.key, h.price_from)
    <3>1. CASE h \in history
      BY <2>s, <3>1 DEF ChainInv, Chain, IntervalsUnbroken
    <3>2. ASSUME NEW k \in Repriced(w), h = Link(k)
          PROVE  h.price_from = h.ingested_at \/ Starts(h.key, h.price_from)
      <4>1. live[k].price_from = live[k].ingested_at \/ StartsAt(k, live[k].price_from)
        BY CommitEffect DEF ChainInv, Chain, IntervalsUnbroken
      <4> HIDE DEF Link
      <4> QED BY <1>l, <2>s, <3>2, <4>1
    <3> QED BY <1>h, <3>1, <3>2
  <2>2. ASSUME NEW k \in Key, live'[k] # NoRow
        PROVE  live'[k].price_from = live'[k].ingested_at \/ Starts(k, live'[k].price_from)
    <3>1. CASE live[k] = NoRow
      <4> PICK q \in batch[w][k] : live'[k] = Inserted(q, began[w])
        BY <2>2, <3>1, CommitEffect
      <4> QED BY DEF Inserted
    <3>2. CASE live[k] # NoRow /\ k \in Repriced(w)
      <4>1. live'[k].price_from = began[w] /\ Link(k) \in history'
        BY <1>r, <1>g, <3>2
      <4> HIDE DEF Link
      <4> QED BY <1>l, <3>2, <4>1
    <3>3. CASE live[k] # NoRow /\ k \notin Repriced(w)
      <4>1. /\ live'[k].price_from = live[k].price_from
            /\ live'[k].ingested_at = live[k].ingested_at
        BY <1>r, <3>3
      <4>2. live[k].price_from = live[k].ingested_at \/ StartsAt(k, live[k].price_from)
        BY <3>3 DEF ChainInv, Chain, IntervalsUnbroken
      <4> QED BY <2>s, <4>1, <4>2
    <3> QED BY <3>1, <3>2, <3>3
  <2> QED BY <2>1, <2>2 DEF IntervalsUnbroken, StartsAt
<1> QED BY <1>1, <1>2, <1>3 DEF Chain

LEMMA ChainStep == BaseInv /\ Alone /\ ChainInv /\ [Next]_vars => ChainInv'
<1> SUFFICES ASSUME BaseInv, Alone, ChainInv, [Next]_vars PROVE ChainInv'
  OBVIOUS
<1>0. BaseInv'
  BY BaseStep
<1>t. /\ clock \in Time /\ clock' \in Time /\ began \in [Writer -> Time]
      /\ pc \in [Writer -> {"idle", "fetched", "open", "updated"}]
      /\ \A k \in Key : live[k] # NoRow => live[k] \in Row
  BY <1>0 DEF BaseInv, TypeOK
<1>c. ASSUME UNCHANGED tables PROVE Chain'
  BY <1>c DEF ChainInv, Chain, IntervalsForward, IntervalsDisjoint,
              IntervalsUnbroken, StartsAt, tables
<1>1. CASE Tick
  <2>1. clock <= clock' /\ UNCHANGED <<tables, pc, began>>
    BY <1>1, <1>t DEF Tick, Time, notes
  <2>2. StampsOrdered'
    BY <1>t, <2>1 DEF StampsOrdered, InTransaction, ChainInv, Row, Time, tables
  <2> QED BY <1>c, <2>1, <2>2 DEF ChainInv
<1>2. ASSUME NEW k \in Key, NEW p \in Price, Publish(k, p) PROVE ChainInv'
  <2>1. UNCHANGED <<clock, tables, pc, began>>
    BY <1>2 DEF Publish
  <2>2. StampsOrdered'
    BY <2>1 DEF StampsOrdered, InTransaction, ChainInv, tables
  <2> QED BY <1>c, <2>1, <2>2 DEF ChainInv
<1>3. ASSUME NEW w \in Writer, NEW K \in SUBSET Key, Fetch(w, K) PROVE ChainInv'
  <2>1. StampsOrdered'
    BY <1>3, <1>t DEF Fetch, StampsOrdered, InTransaction, ChainInv, tables
  <2> QED BY <1>3, <1>c, <2>1 DEF ChainInv, Fetch
<1>4. ASSUME NEW w \in Writer, Begin(w) PROVE ChainInv'
  <2>1. clock <= clock
    BY <1>t DEF Time
  <2>2. StampsOrdered'
    BY <1>4, <1>t, <2>1 DEF Begin, StampsOrdered, InTransaction, ChainInv, tables
  <2> QED BY <1>4, <1>c, <2>2 DEF ChainInv, Begin
<1>5. ASSUME NEW w \in Writer, Update(w) PROVE ChainInv'
  <2>1. StampsOrdered'
    BY <1>5, <1>t DEF Update, StampsOrdered, InTransaction, ChainInv, tables
  <2> QED BY <1>5, <1>c, <2>1 DEF ChainInv, Update
<1>6. ASSUME NEW w \in Writer, Commit(w) PROVE ChainInv'
  <2>1. /\ UNCHANGED clock /\ pc' = [pc EXCEPT ![w] = "idle"]
        /\ pc[w] = "updated" /\ began[w] \in Time
    BY <1>6, <1>t DEF Commit, Finish
  <2>2. \A v \in Writer : ~InTransaction(v)'
    BY <1>t, <2>1 DEF Alone, InTransaction
  <2>3. ASSUME NEW k \in Key, live'[k] # NoRow
        PROVE  live'[k].ingested_at <= live'[k].price_from /\ live'[k].price_from <= clock
    <3>1. ASSUME NEW q \in batch[w][k], live'[k] = Inserted(q, began[w])
          PROVE  live'[k].ingested_at <= live'[k].price_from /\ live'[k].price_from <= clock
      BY <2>1, <3>1 DEF Inserted, ChainInv, StampsOrdered, InTransaction, Time
    <3>2. CASE live[k] # NoRow /\ live'[k] = live[k]
      BY <3>2 DEF ChainInv, StampsOrdered
    <3>3. CASE /\ live[k] # NoRow /\ changed[w][k] \in Quote
               /\ live'[k] = Revised(live[k], changed[w][k], began[w])
      <4>1. /\ live'[k].ingested_at = live[k].ingested_at
            /\ live'[k].price_from = IF changed[w][k].price # live[k].price
                                     THEN began[w] ELSE live[k].price_from
        BY <1>t, <2>1, <3>3, RevisedType
      <4>2. /\ live[k].ingested_at <= live[k].price_from /\ live[k].price_from <= began[w]
            /\ live[k].price_from <= clock /\ began[w] <= clock
        BY <2>1, <3>3 DEF ChainInv, StampsOrdered, InTransaction
      <4>3. live[k].ingested_at \in Int /\ live[k].price_from \in Int /\ began[w] \in Int
        BY <1>t, <2>1, <3>3 DEF Row, Time
      <4> QED BY <4>1, <4>2, <4>3
    <3> QED BY <1>6, <2>3, <3>1, <3>2, <3>3, CommitEffect
  <2>4. StampsOrdered'
    BY <2>1, <2>2, <2>3 DEF StampsOrdered
  <2>5. Chain'
    BY <1>0, <1>6, ChainCommit
  <2> QED BY <2>4, <2>5 DEF ChainInv
<1>7. ASSUME NEW w \in Writer, Abort(w) PROVE ChainInv'
  <2>1. StampsOrdered'
    BY <1>7, <1>t DEF Abort, Finish, StampsOrdered, InTransaction, ChainInv, tables
  <2> QED BY <1>7, <1>c, <2>1 DEF ChainInv, Abort
<1>8. CASE UNCHANGED vars
  <2>1. StampsOrdered'
    BY <1>8 DEF vars, StampsOrdered, InTransaction, ChainInv, tables
  <2> QED BY <1>8, <1>c, <2>1 DEF ChainInv, vars
<1> QED BY <1>1, <1>2, <1>3, <1>4, <1>5, <1>6, <1>7, <1>8 DEF Next, Load

\* Until two are open at once, no transaction begins inside another.
LEMMA AloneStep == BaseInv /\ Alone /\ [Next]_vars /\ ~overlapped' => Alone'
<1> SUFFICES ASSUME BaseInv, Alone, [Next]_vars, ~overlapped' PROVE Alone'
  OBVIOUS
<1>t. pc \in [Writer -> {"idle", "fetched", "open", "updated"}]
  BY DEF BaseInv, TypeOK
<1>1. ASSUME NEW w \in Writer, Begin(w) PROVE Alone'
  <2>1. \A v \in Writer : ~InTransaction(v)
    BY <1>1 DEF Begin
  <2>2. \A v \in Writer : InTransaction(v)' => v = w
    BY <1>1, <1>t, <2>1 DEF Begin, InTransaction
  <2> QED BY <2>2 DEF Alone
<1>2. ASSUME \A v \in Writer : InTransaction(v)' => InTransaction(v) PROVE Alone'
  BY <1>2 DEF Alone
<1>3. ASSUME NEW w \in Writer, \/ \E K \in SUBSET Key : Fetch(w, K)
                              \/ Update(w) \/ Commit(w) \/ Abort(w)
      PROVE  \A v \in Writer : InTransaction(v)' => InTransaction(v)
  BY <1>3, <1>t DEF Fetch, Update, Commit, Abort, Finish, InTransaction
<1>4. ASSUME UNCHANGED pc PROVE \A v \in Writer : InTransaction(v)' => InTransaction(v)
  BY <1>4 DEF InTransaction
<1> QED BY <1>1, <1>2, <1>3, <1>4 DEF Next, Load, Tick, Publish, vars

\* The chain and the order of stamps it rests on hold while loads take turns.
LEMMA OrderHolds == Spec => [](BaseInv /\ OrderInv)
<1>1. Init => OrderInv
  BY DEF Init, OrderInv, Alone, InTransaction, ChainInv, StampsOrdered, Chain,
         IntervalsForward, IntervalsDisjoint, IntervalsUnbroken
<1>2. BaseInv /\ OrderInv /\ [Next]_vars => OrderInv'
  <2> SUFFICES ASSUME BaseInv, OrderInv, [Next]_vars, ~overlapped'
               PROVE  Alone' /\ ChainInv'
    BY DEF OrderInv
  <2>1. overlapped => overlapped'
    BY DEF Next, Load, Tick, Publish, Fetch, Begin, Update, Commit, Abort, notes, vars
  <2> QED BY <2>1, AloneStep, ChainStep DEF OrderInv
<1> QED BY <1>1, <1>2, BaseInit, BaseStep, PTL DEF Spec

\* Whatever number of jobs, backfills and processes load a table, and wherever
\* they fail: until two of their transactions are open at once it keeps, for every
\* key, an unbroken chain of revisions that do not overlap and all run forward,
\* from its first ingestion to the price in force (db.upsert_rows and the trigger
\* capture_price_revision).
THEOREM ChainUntilOverlap == Spec => []HistoryChain
<1>1. OrderInv => HistoryChain
  BY DEF OrderInv, ChainInv, HistoryChain
<1> QED BY <1>1, OrderHolds, PTL

-----------------------------------------------------------------------------
(* With one report row per key, a load takes back nothing that its row held  *)
(* when it fetched, and writing what is stored changes nothing.              *)

\* A set of no more than one row.
AtMostOne(S) == \A q, r \in S : q = r

\* When at most one row of a report maps to a key, neither the report nor a
\* batch holds two, and a writer that is not loading holds none.
OneRow ==
    /\ \A k \in Key : AtMostOne(report[k])
    /\ \A w \in Writer, k \in Key :
          AtMostOne(batch[w][k]) /\ (pc[w] = "idle" => batch[w][k] = {})

\* A row travels from the report through a batch to the table, so what is
\* further along is no newer: the batch's row than the report's, the table's than
\* the report's, and what the table held at the fetch than the batch's.  The
\* table's row may overtake a batch, when another writer commits.
RevsOrdered ==
    \A k \in Key :
        /\ \A r \in report[k] : r.rev <= lastRev
        /\ live[k] # NoRow =>
              live[k].rev <= lastRev /\ \A r \in report[k] : live[k].rev <= r.rev
        /\ \A w \in Writer : \A q \in batch[w][k] :
              /\ q.rev <= lastRev
              /\ \A r \in report[k] : q.rev <= r.rev
              /\ seen[w][k] <= q.rev

\* An uncommitted update holds the lock of its row, and so still differs from
\* the row it would replace.
PendingDiffers ==
    \A w \in Writer, k \in Key : changed[w][k] # NoQuote =>
        /\ Differs(live[k], changed[w][k])
        /\ ~LockedByOther(w, k)

LoadInv == OneRow /\ RevsOrdered /\ PendingDiffers

\* The transaction of writer w is over, and no other has moved.
Ended(w) ==
    \A v \in Writer, k \in Key :
        IF v = w
        THEN batch'[v][k] = {} /\ changed'[v][k] = NoQuote
        ELSE /\ batch'[v][k] = batch[v][k] /\ changed'[v][k] = changed[v][k]
             /\ seen'[v][k] = seen[v][k] /\ pc'[v] = pc[v]

LEMMA LoadStep ==
    ASSUME RowsPerKey = 1
    PROVE  BaseInv /\ LoadInv /\ [Next]_vars => LoadInv'
<1> SUFFICES ASSUME BaseInv, LoadInv, [Next]_vars PROVE LoadInv'
  OBVIOUS
<1>t. /\ lastRev \in Nat
      /\ report \in [Key -> SUBSET Quote] /\ \A k \in Key : \A r \in report[k] : r.rev \in Nat
      /\ batch \in [Writer -> [Key -> SUBSET Quote]]
      /\ \A w \in Writer, k \in Key : \A q \in batch[w][k] : q.rev \in Nat
      /\ \A k \in Key : live[k] # NoRow => live[k] \in Row /\ live[k].rev \in Nat
      /\ pc \in [Writer -> {"idle", "fetched", "open", "updated"}]
      /\ changed \in [Writer -> [Key -> Quote \cup {NoQuote}]]
      /\ \A w \in Writer : began[w] \in Time
  BY BoundsAssumption DEF BaseInv, TypeOK, Quote, Row, Rev
<1>1. CASE Tick
  BY <1>1 DEF Tick, LoadInv, OneRow, RevsOrdered, PendingDiffers, LockedByOther, ercot,
              tables, notes
<1>2. ASSUME NEW k \in Key, NEW p \in Price, Publish(k, p) PROVE LoadInv'
  <2> DEFINE q == [price |-> p, rev |-> lastRev + 1]
  <2>1. /\ UNCHANGED <<clock, live, history, pc, batch, began, changed, seen>>
        /\ lastRev' = lastRev + 1
    BY <1>2 DEF Publish, tables, notes
  <2>2. ASSUME Cardinality(report[k]) < RowsPerKey PROVE report[k] = {}
    <3> SUFFICES ASSUME report[k] # {} PROVE FALSE
      OBVIOUS
    <3>1. PICK r \in report[k] : TRUE
      OBVIOUS
    <3>2. report[k] = {r}
      BY <3>1 DEF LoadInv, OneRow, AtMostOne
    <3>3. Cardinality({r}) = 1
      BY FS_Singleton
    <3> QED BY <2>2, <3>2, <3>3
  <2>3. report' = [report EXCEPT ![k] = {q}]
    <3>1. \/ report' = [report EXCEPT ![k] = {q}]
          \/ Cardinality(report[k]) < RowsPerKey /\ report' = [report EXCEPT ![k] = @ \cup {q}]
      BY <1>2, Zenon DEF Publish
    <3> HIDE DEF q
    <3> QED BY <2>2, <3>1
  <2>4. \A j \in Key : report'[j] = report[j] \/ (j = k /\ report'[j] = {q})
    BY <1>t, <2>3
  <2>5. q.rev = lastRev + 1
    OBVIOUS
  <2> HIDE DEF q
  <2>6. OneRow'
    BY <2>1, <2>4 DEF LoadInv, OneRow, AtMostOne
  <2>7. RevsOrdered'
    <3> SUFFICES ASSUME NEW j \in Key
                 PROVE  /\ \A r \in report'[j] : r.rev <= lastRev + 1
                        /\ live[j] # NoRow => /\ live[j].rev <= lastRev + 1
                                              /\ \A r \in report'[j] : live[j].rev <= r.rev
                        /\ \A w \in Writer : \A b \in batch[w][j] :
                              /\ b.rev <= lastRev + 1
                              /\ \A r \in report'[j] : b.rev <= r.rev
                              /\ seen[w][j] <= b.rev
      BY <2>1 DEF RevsOrdered
    <3>1. CASE report'[j] = report[j]
      BY <1>t, <3>1 DEF LoadInv, RevsOrdered
    <3>2. CASE report'[j] = {q}
      BY <1>t, <2>5, <3>2 DEF LoadInv, RevsOrdered
    <3> QED BY <2>4, <3>1, <3>2
  <2>8. PendingDiffers'
    BY <2>1 DEF LoadInv, PendingDiffers, LockedByOther
  <2> QED BY <2>6, <2>7, <2>8 DEF LoadInv
<1>3. ASSUME NEW w \in Writer, NEW K \in SUBSET Key, Fetch(w, K) PROVE LoadInv'
  <2>1. UNCHANGED <<report, lastRev, live, changed>> /\ pc'[w] # "idle" /\ pc[w] = "idle"
    BY <1>3, <1>t DEF Fetch, ercot, tables
  <2>2. \A v \in Writer \ {w} : batch'[v] = batch[v] /\ seen'[v] = seen[v] /\ pc'[v] = pc[v]
    BY <1>3, <1>t DEF Fetch, BaseInv, TypeOK
  <2>3. \A k \in Key : batch'[w][k] = report[k] \/ batch'[w][k] = {}
    <3>1. \A k \in Key : batch[w][k] = {}
      BY <2>1 DEF LoadInv, OneRow
    <3> QED BY <1>3, <1>t, <3>1 DEF Fetch
  <2>4. OneRow'
    <3> SUFFICES ASSUME NEW v \in Writer, NEW k \in Key
                 PROVE  AtMostOne(batch'[v][k]) /\ (pc'[v] = "idle" => batch'[v][k] = {})
      BY <2>1 DEF LoadInv, OneRow
    <3>1. CASE v = w
      BY <2>1, <2>3, <3>1 DEF LoadInv, OneRow, AtMostOne
    <3>2. CASE v # w
      BY <2>2, <3>2 DEF LoadInv, OneRow
    <3> QED BY <3>1, <3>2
  <2>5. \A k \in Key : seen'[w][k] = IF live[k] = NoRow THEN 0 ELSE live[k].rev
    BY <1>3 DEF Fetch, BaseInv, TypeOK
  <2>6. RevsOrdered'
    <3> SUFFICES ASSUME NEW k \in Key, NEW v \in Writer, NEW q \in batch'[v][k]
                 PROVE  /\ q.rev <= lastRev /\ \A r \in report[k] : q.rev <= r.rev
                        /\ seen'[v][k] <= q.rev
      BY <2>1 DEF LoadInv, RevsOrdered
    <3>1. CASE v = w
      <4>1. q \in report[k] /\ q.rev \in Nat
        BY <1>t, <2>3, <3>1
      <4>2. \A r \in report[k] : r = q
        BY <4>1 DEF LoadInv, OneRow, AtMostOne
      <4>3. seen'[w][k] <= q.rev
        BY <1>t, <2>5, <4>1 DEF LoadInv, RevsOrdered
      <4> QED BY <3>1, <4>1, <4>2, <4>3 DEF LoadInv, RevsOrdered
    <3>2. CASE v # w
      BY <2>2, <3>2 DEF LoadInv, RevsOrdered
    <3> QED BY <3>1, <3>2
  <2>7. PendingDiffers'
    BY <2>1 DEF LoadInv, PendingDiffers, LockedByOther
  <2> QED BY <2>4, <2>6, <2>7 DEF LoadInv
<1>4. ASSUME NEW w \in Writer, Begin(w) PROVE LoadInv'
  BY <1>4, <1>t DEF Begin, LoadInv, OneRow, RevsOrdered, PendingDiffers, LockedByOther,
                    ercot, tables
<1>5. ASSUME NEW w \in Writer, Update(w) PROVE LoadInv'
  <2>1. OneRow' /\ RevsOrdered'
    BY <1>5, <1>t DEF Update, LoadInv, OneRow, RevsOrdered, ercot, tables, notes
  <2>2. PICK c \in [Key -> Quote \cup {NoQuote}] :
          /\ \A k \in Key : IF Candidates(w, k) = {} THEN c[k] = NoQuote
                                                 ELSE c[k] \in Candidates(w, k)
          /\ changed' = [changed EXCEPT ![w] = c]
    BY <1>5 DEF Update
  <2>3. \A k \in Key : c[k] # NoQuote => Differs(live[k], c[k]) /\ ~LockedByOther(w, k)
    BY <1>5, <2>2 DEF Candidates, Update
  <2>4. UNCHANGED live
    BY <1>5 DEF Update, tables
  <2>5. \A v \in Writer, k \in Key : changed'[v][k] = IF v = w THEN c[k] ELSE changed[v][k]
    BY <1>t, <2>2
  <2>6. PendingDiffers'
    <3> SUFFICES ASSUME NEW v \in Writer, NEW k \in Key, changed'[v][k] # NoQuote
                 PROVE  /\ Differs(live[k], changed'[v][k])
                        /\ \A u \in Writer \ {v} : changed'[u][k] = NoQuote
      BY <2>4 DEF PendingDiffers, LockedByOther, Differs
    <3>1. CASE v = w
      BY <2>3, <2>5, <3>1 DEF LockedByOther
    <3>2. CASE v # w
      <4>1. changed[v][k] # NoQuote /\ changed'[v][k] = changed[v][k]
        BY <2>5, <3>2
      <4>2. LockedByOther(w, k)
        BY <3>2, <4>1 DEF LockedByOther
      <4>3. c[k] = NoQuote
        BY <2>3, <4>2
      <4> QED BY <2>5, <4>1, <4>3 DEF LoadInv, PendingDiffers, LockedByOther
    <3> QED BY <3>1, <3>2
  <2> QED BY <2>1, <2>6 DEF LoadInv
<1>6. ASSUME NEW w \in Writer, Commit(w) PROVE LoadInv'
  <2>1. UNCHANGED <<report, lastRev>>
    BY <1>6 DEF Commit, ercot
  <2>2. Ended(w)
    BY <1>6, <1>t DEF Commit, Finish, Ended, Nothing, NoChange, BaseInv, TypeOK
  <2>3. ASSUME NEW k \in Key, live'[k] # NoRow
        PROVE  \/ live[k] # NoRow /\ live'[k].rev = live[k].rev
               \/ \E q \in batch[w][k] : live'[k].rev = q.rev
    <3>1. ASSUME NEW q \in batch[w][k], live'[k] = Inserted(q, began[w])
          PROVE  live'[k].rev = q.rev
      BY <3>1 DEF Inserted
    <3>2. CASE /\ live[k] # NoRow /\ changed[w][k] \in batch[w][k] /\ changed[w][k] \in Quote
               /\ live'[k] = Revised(live[k], changed[w][k], began[w])
      BY <1>t, <3>2, RevisedType
    <3> QED BY <1>6, <2>3, <3>1, <3>2, CommitEffect
  <2>4. RevsOrdered'
    <3> SUFFICES ASSUME NEW k \in Key
                 PROVE  /\ live'[k] # NoRow => /\ live'[k].rev <= lastRev
                                               /\ \A r \in report[k] : live'[k].rev <= r.rev
                        /\ \A v \in Writer : \A q \in batch'[v][k] :
                              /\ q.rev <= lastRev /\ \A r \in report[k] : q.rev <= r.rev
                              /\ seen'[v][k] <= q.rev
      BY <2>1 DEF LoadInv, RevsOrdered
    <3>1. live'[k] # NoRow => /\ live'[k].rev <= lastRev
                              /\ \A r \in report[k] : live'[k].rev <= r.rev
      BY <2>3 DEF LoadInv, RevsOrdered
    <3>2. \A v \in Writer : \A q \in batch'[v][k] :
             /\ q.rev <= lastRev /\ \A r \in report[k] : q.rev <= r.rev
             /\ seen'[v][k] <= q.rev
      BY <2>2 DEF Ended, LoadInv, RevsOrdered
    <3> QED BY <3>1, <3>2
  <2>5. OneRow'
    BY <2>1, <2>2 DEF Ended, LoadInv, OneRow, AtMostOne
  <2>6. PendingDiffers'
    <3> SUFFICES ASSUME NEW v \in Writer, NEW k \in Key, changed'[v][k] # NoQuote
                 PROVE  /\ Differs(live'[k], changed'[v][k])
                        /\ \A u \in Writer \ {v} : changed'[u][k] = NoQuote
      BY DEF PendingDiffers, LockedByOther, Differs
    <3>1. v # w /\ changed'[v][k] = changed[v][k] /\ changed[v][k] # NoQuote
      BY <2>2 DEF Ended
    <3>2. \A u \in Writer \ {v} : changed[u][k] = NoQuote
      BY <3>1 DEF LoadInv, PendingDiffers, LockedByOther
    <3>3. live[k] # NoRow /\ changed[w][k] = NoQuote
      BY <3>1, <3>2 DEF BaseInv, ChangedOK
    <3>4. live'[k] = live[k]
      BY <1>6, <3>3, CommitEffect
    <3>5. \A u \in Writer \ {v} : changed'[u][k] = NoQuote
      BY <2>2, <3>2 DEF Ended
    <3> QED BY <3>1, <3>4, <3>5 DEF LoadInv, PendingDiffers
  <2> QED BY <2>4, <2>5, <2>6 DEF LoadInv
<1>7. ASSUME NEW w \in Writer, Abort(w) PROVE LoadInv'
  <2>1. UNCHANGED <<report, lastRev, live>>
    BY <1>7 DEF Abort, ercot, tables
  <2>2. Ended(w)
    BY <1>7, <1>t DEF Abort, Finish, Ended, Nothing, NoChange, BaseInv, TypeOK
  <2>3. OneRow'
    BY <2>1, <2>2 DEF Ended, LoadInv, OneRow, AtMostOne
  <2>4. RevsOrdered'
    BY <2>1, <2>2 DEF Ended, LoadInv, RevsOrdered
  <2>5. PendingDiffers'
    BY <2>1, <2>2 DEF Ended, LoadInv, PendingDiffers, LockedByOther, Differs
  <2> QED BY <2>3, <2>4, <2>5 DEF LoadInv
<1>8. CASE UNCHANGED vars
  BY <1>8 DEF vars, ercot, tables, notes, LoadInv, OneRow, RevsOrdered, PendingDiffers,
              LockedByOther
<1> QED BY <1>1, <1>2, <1>3, <1>4, <1>5, <1>6, <1>7, <1>8 DEF Next, Load

\* Such a table satisfies LoadInv from its empty beginning on.
LEMMA LoadHolds ==
    ASSUME RowsPerKey = 1
    PROVE  Spec => [](BaseInv /\ LoadInv)
<1>1. Init => LoadInv
  BY DEF Init, LoadInv, OneRow, AtMostOne, RevsOrdered, PendingDiffers, Nothing, NoChange
<1>2. BaseInv /\ LoadInv /\ [Next]_vars => LoadInv'
  BY LoadStep
<1> QED BY <1>1, <1>2, BaseInit, BaseStep, PTL DEF Spec

\* With one report row per key, and however many loads overlap, a load that
\* commits over what another stored since it fetched takes a row back no further
\* than the publication the row held at that fetch.
THEOREM NeverOlderThanTheFetch ==
    ASSUME RowsPerKey = 1
    PROVE  Spec => NeverOlderThanSeen
<1>1. BaseInv /\ LoadInv /\ [Next]_vars =>
         [\A w \in Writer, k \in Key :
             (Ends(w) /\ live'[k] # live[k]) => live'[k].rev >= seen[w][k]]_vars
  <2> SUFFICES ASSUME BaseInv, LoadInv, Next, NEW w \in Writer, NEW k \in Key,
                      Ends(w), live'[k] # live[k]
               PROVE  live'[k].rev >= seen[w][k]
    OBVIOUS
  <2>1. CASE Commit(w)
    <3>1. \E q \in batch[w][k] : q \in Quote /\ live'[k].rev = q.rev
      <4>1. ASSUME NEW q \in batch[w][k], live'[k] = Inserted(q, began[w])
            PROVE  live'[k].rev = q.rev
        BY <4>1 DEF Inserted
      <4>2. CASE /\ live[k] # NoRow
                 /\ changed[w][k] \in batch[w][k] /\ changed[w][k] \in Quote
                 /\ live'[k] = Revised(live[k], changed[w][k], began[w])
        <5>1. live[k] \in Row /\ began[w] \in Time
          BY <4>2 DEF BaseInv, TypeOK
        <5>2. live'[k].rev = changed[w][k].rev
          BY <4>2, <5>1, RevisedType
        <5> QED BY <4>2, <5>2
      <4>3. live[k] # live'[k]
        OBVIOUS
      <4> QED BY <2>1, <4>1, <4>2, <4>3, CommitEffect
    <3>2. PICK q \in batch[w][k] : q \in Quote /\ live'[k].rev = q.rev
      BY <3>1
    <3>3. seen[w][k] <= q.rev
      BY DEF LoadInv, RevsOrdered
    <3>4. seen[w][k] \in Int /\ q.rev \in Int
      BY <3>2 DEF BaseInv, TypeOK, Quote, Rev
    <3> QED BY <3>2, <3>3, <3>4
  <2>2. ASSUME NEW v \in Writer, Commit(v) PROVE v = w
    BY <2>2 DEF Commit, Finish, Ends, BaseInv, TypeOK
  <2> QED BY <2>1, <2>2
          DEF Next, Load, Tick, Publish, Fetch, Begin, Update, Abort, tables
<1> QED BY <1>1, LoadHolds, PTL DEF Spec, NeverOlderThanSeen

\* With one report row per key, a load that finds all it fetched already stored,
\* by itself or by another, commits without touching the table or its history.
THEOREM RepullsAreSilent ==
    ASSUME RowsPerKey = 1
    PROVE  Spec => RepullWritesNothing
<1>1. BaseInv /\ LoadInv /\ [Next]_vars =>
         [\A w \in Writer :
             (Ends(w) /\ Stored(w)) => UNCHANGED tables]_vars
  <2> SUFFICES ASSUME BaseInv, LoadInv, Next, NEW w \in Writer,
                      Ends(w), Stored(w)
               PROVE  UNCHANGED tables
    OBVIOUS
  <2>1. \A k \in Key : changed[w][k] = NoQuote
    <3> SUFFICES ASSUME NEW k \in Key, changed[w][k] # NoQuote PROVE FALSE
      OBVIOUS
    <3>1. changed[w][k] \in batch[w][k]
      BY DEF BaseInv, ChangedOK
    <3>2. [price |-> live[k].price, rev |-> live[k].rev] \in batch[w][k]
      BY <3>1 DEF Stored
    <3>3. changed[w][k] = [price |-> live[k].price, rev |-> live[k].rev]
      BY <3>1, <3>2 DEF LoadInv, OneRow, AtMostOne
    <3>4. Differs(live[k], changed[w][k])
      BY DEF LoadInv, PendingDiffers
    <3> QED BY <3>3, <3>4 DEF Differs
  <2>2. ASSUME Commit(w) PROVE UNCHANGED tables
    <3>1. \A k \in Key : live'[k] = live[k]
      <4> SUFFICES ASSUME NEW k \in Key PROVE live'[k] = live[k]
        OBVIOUS
      <4>1. live[k] = NoRow => batch[w][k] = {}
        BY DEF Stored
      <4> QED BY <2>1, <2>2, <4>1, CommitEffect
    <3>2. live' \in [Key -> Row \cup {NoRow}] /\ live \in [Key -> Row \cup {NoRow}]
      BY <2>2, CommitEffect DEF BaseInv, TypeOK
    <3>3. live' = live
      BY <3>1, <3>2
    <3>4. Repriced(w) = {}
      BY <2>1 DEF Repriced
    <3>5. history' = history
      BY <2>2, <3>4, CommitEffect
    <3> QED BY <3>3, <3>5 DEF tables
  <2>3. ASSUME NEW v \in Writer, Commit(v) PROVE UNCHANGED tables
    <3>1. v = w
      BY <2>3 DEF Commit, Finish, Ends, BaseInv, TypeOK
    <3> QED BY <2>2, <2>3, <3>1
  <2> QED BY <2>3 DEF Next, Load, Tick, Publish, Fetch, Begin, Update, Abort, tables
<1> QED BY <1>1, LoadHolds, PTL DEF Spec, RepullWritesNothing

-----------------------------------------------------------------------------
(* Until two transactions are open at once the table implements PriceLedger: *)
(* a commit records a revision from its stamp on, and every earlier answer   *)
(* stands.                                                                   *)

\* A nonempty set of instants has a last one.
LEMMA LastInstant ==
    ASSUME NEW S \in SUBSET Time, S # {}
    PROVE  \E t \in S : \A s \in S : s <= t
<1> DEFINE R == OpToRel(<, Nat)
           Left == {MaxClock - s : s \in S}
<1>1. S \subseteq 0 .. MaxClock /\ MaxClock \in Nat
  BY BoundsAssumption DEF Time
<1>2. Left \subseteq Nat /\ Left # {}
  BY <1>1
<1>3. PICK n \in Left : \A m \in Left : <<m, n>> \notin R
  <2> HIDE DEF R, Left
  <2> QED BY <1>2, NatLessThanWellFounded, WFMin DEF R
<1>4. PICK t \in S : n = MaxClock - t
  BY <1>3
<1>5. ASSUME NEW s \in S PROVE s <= t
  <2>1. MaxClock - s \in Left /\ MaxClock - s \in Nat /\ n \in Nat
    BY <1>1, <1>2
  <2>2. <<MaxClock - s, n>> \notin R
    BY <1>3, <2>1
  <2>3. ~(MaxClock - s < n)
    BY <2>1, <2>2 DEF OpToRel
  <2> QED BY <1>1, <1>4, <2>3
<1> QED BY <1>5

\* The stamp of the newest revision, as Ledger defines it.
Frontier == CHOOSE t \in Stamps : \A s \in Stamps : s <= t

LEMMA FrontierIsLast ==
    ASSUME TypeOK
    PROVE  Frontier \in Stamps /\ Frontier \in Time /\ \A s \in Stamps : s <= Frontier
<1>1. Stamps \subseteq Time /\ Stamps # {}
  BY BoundsAssumption DEF TypeOK, Stamps, Row, Time
<1>2. \E t \in Stamps : \A s \in Stamps : s <= t
  BY <1>1, LastInstant
<1> QED BY <1>1, <1>2 DEF Frontier

\* A read depends on the rows that match it alone.
LEMMA ReadSame ==
    ASSUME NEW k, NEW t, Matches(k, t)' = Matches(k, t)
    PROVE  AsOf(k, t)' = AsOf(k, t)
<1>1. Answers(k, t)' = Answers(k, t)
  BY DEF Answers, Newest
<1> QED BY <1>1 DEF AsOf

\* The rows that answer a read, one by one, before and after a step.
LEMMA MatchIff ==
    ASSUME NEW k, NEW t, NEW m
    PROVE  /\ m \in Matches(k, t) <=>
                \/ \E h \in history : /\ h.key = k /\ h.price_from <= t /\ h.price_to > t
                                      /\ m = [price |-> h.price, from |-> h.price_from]
                \/ /\ live[k] # NoRow /\ live[k].price_from <= t /\ live[k].ingested_at <= t
                   /\ m = [price |-> live[k].price, from |-> live[k].price_from]
           /\ m \in Matches(k, t)' <=>
                \/ \E h \in history' : /\ h.key = k /\ h.price_from <= t /\ h.price_to > t
                                       /\ m = [price |-> h.price, from |-> h.price_from]
                \/ /\ live'[k] # NoRow /\ live'[k].price_from <= t /\ live'[k].ingested_at <= t
                   /\ m = [price |-> live'[k].price, from |-> live'[k].price_from]
  BY DEF Matches

\* The keys whose price a commit gives or replaces.
Moved(w, k) == k \in Repriced(w) \/ (live[k] = NoRow /\ live'[k] # NoRow)

\* What a commit does to the row of a key, as far as a read can tell.
LEMMA CommitRows ==
    ASSUME BaseInv, BaseInv', ChainInv, NEW w \in Writer, Commit(w), NEW k \in Key
    PROVE  /\ began[w] \in Time
           /\ live[k] # NoRow =>
                /\ live[k] \in Row /\ live'[k] # NoRow
                /\ live[k].ingested_at <= live[k].price_from
                /\ live[k].price_from <= began[w]
           /\ live'[k] # NoRow => live'[k] \in Row
           /\ Moved(w, k) => /\ live'[k] # NoRow
                             /\ live'[k].price_from = began[w]
                             /\ live'[k].ingested_at <= began[w]
           /\ (~Moved(w, k) /\ live'[k] # NoRow) =>
                /\ live[k] # NoRow
                /\ live'[k].price = live[k].price
                /\ live'[k].price_from = live[k].price_from
                /\ live'[k].ingested_at = live[k].ingested_at
<1>1. /\ began[w] \in Time /\ pc[w] = "updated"
      /\ live[k] # NoRow => live[k] \in Row
      /\ live'[k] # NoRow => live'[k] \in Row
  BY DEF BaseInv, TypeOK, Commit
<1>2. live[k] # NoRow =>
         live[k].ingested_at <= live[k].price_from /\ live[k].price_from <= began[w]
  BY <1>1 DEF ChainInv, StampsOrdered, InTransaction
<1>3. CASE live[k] = NoRow
  <2>1. CASE live'[k] = NoRow
    BY <1>1, <1>3, <2>1, CommitEffect DEF Moved
  <2>2. CASE live'[k] # NoRow
    <3>1. PICK q \in batch[w][k] : q \in Quote /\ live'[k] = Inserted(q, began[w])
      BY <1>3, <2>2, CommitEffect
    <3>2. live'[k].price_from = began[w] /\ live'[k].ingested_at = began[w]
      BY <3>1 DEF Inserted
    <3> QED BY <1>1, <1>3, <2>2, <3>2 DEF Moved, Time
  <2> QED BY <2>1, <2>2
<1>4. CASE live[k] # NoRow /\ changed[w][k] = NoQuote
  <2>1. live'[k] = live[k] /\ ~Moved(w, k)
    BY <1>4, CommitEffect DEF Moved
  <2> QED BY <1>1, <1>2, <1>4, <2>1
<1>5. CASE live[k] # NoRow /\ changed[w][k] # NoQuote
  <2>1. changed[w][k] \in Quote /\ live'[k] = Revised(live[k], changed[w][k], began[w])
    BY <1>5, CommitEffect
  <2>2. /\ live'[k] \in Row
        /\ live'[k].price = changed[w][k].price
        /\ live'[k].ingested_at = live[k].ingested_at
        /\ live'[k].price_from =
              IF changed[w][k].price # live[k].price THEN began[w] ELSE live[k].price_from
    BY <1>1, <1>5, <2>1, RevisedType
  <2>3. Moved(w, k) <=> changed[w][k].price # live[k].price
    BY <1>5 DEF Moved, Repriced
  <2>4. live'[k] # NoRow
    BY <2>2, RowsAreNotNull
  <2>5. live[k].ingested_at \in Int /\ live[k].price_from \in Int /\ began[w] \in Int
    BY <1>1, <1>5 DEF Row, Time
  <2> QED BY <1>1, <1>2, <1>5, <2>2, <2>3, <2>4, <2>5
<1> QED BY <1>3, <1>4, <1>5

\* A commit changes the answers of the keys it moves, from its stamp on, and no
\* other answer.
LEMMA CommitReads ==
    ASSUME BaseInv, BaseInv', ChainInv, NEW w \in Writer, Commit(w),
           NEW k \in Key, NEW s \in Time
    PROVE  AsOf(k, s)' = IF s >= began[w] /\ Moved(w, k) THEN live'[k].price ELSE AsOf(k, s)
<1> DEFINE Link(j) == Captured(j, live[j], began[w])
<1>t. began[w] \in Int /\ s \in Int
  BY CommitRows DEF Time
<1>r. \A j \in Key :
        /\ live[j] # NoRow =>
             /\ live[j].price_from \in Int /\ live[j].ingested_at \in Int
             /\ live[j].ingested_at <= live[j].price_from /\ live[j].price_from <= began[w]
        /\ live'[j] # NoRow => live'[j].price_from \in Int /\ live'[j].ingested_at \in Int
  BY CommitRows DEF Row, Time
<1>h. \A h \in history : /\ h.price_from \in Int /\ h.price_to \in Int /\ h.key \in Key
                         /\ live[h.key] # NoRow /\ h.price_to <= live[h.key].price_from
  BY DEF BaseInv, TypeOK, HistoryRow, Time, ChainInv, Chain, IntervalsForward
<1>n. /\ \A h \in history' : h \in history \/ \E j \in Repriced(w) : h = Link(j)
      /\ history \subseteq history' /\ \A j \in Repriced(w) : Link(j) \in history'
      /\ \A j \in Repriced(w) : j \in Key /\ live[j] # NoRow
  BY CommitEffect
<1>l. \A j \in Key : /\ Link(j).key = j /\ Link(j).price = live[j].price
                     /\ Link(j).price_from = live[j].price_from /\ Link(j).price_to = began[w]
  BY DEF Captured
<1> HIDE DEF Link
<1>1. ASSUME Moved(w, k), s >= began[w] PROVE AsOf(k, s)' = live'[k].price
  <2> DEFINE new == [price |-> live'[k].price, from |-> live'[k].price_from]
  <2>1. live'[k] # NoRow /\ live'[k].price_from = began[w] /\ live'[k].ingested_at <= began[w]
    BY <1>1, CommitRows
  <2>2. new \in Matches(k, s)'
    BY <1>1, <1>r, <1>t, <2>1, MatchIff
  <2>3. ASSUME NEW m \in Matches(k, s)' PROVE m = new
    <3>1. ASSUME NEW h \in history', h.key = k, h.price_to > s PROVE FALSE
      <4>1. CASE h \in history
        BY <1>1, <1>h, <1>r, <1>t, <3>1, <4>1
      <4>2. ASSUME NEW j \in Repriced(w), h = Link(j) PROVE FALSE
        BY <1>1, <1>l, <1>n, <1>t, <3>1, <4>2
      <4> QED BY <1>n, <3>1, <4>1, <4>2
    <3> QED BY <2>3, <3>1, MatchIff
  <2>4. Matches(k, s)' = {new}
    BY <2>2, <2>3
  <2>5. new.from \in Int /\ new.price = live'[k].price
    BY <1>t, <2>1
  <2> HIDE DEF new
  <2>6. Answers(k, s)' = {new.price}
    BY <2>4, <2>5 DEF Answers, Newest
  <2> QED BY <2>5, <2>6 DEF AsOf
<1>2. ASSUME Moved(w, k), ~(s >= began[w]) PROVE AsOf(k, s)' = AsOf(k, s)
  <2>1. live'[k] # NoRow /\ live'[k].price_from = began[w]
    BY <1>2, CommitRows
  <2>2. ASSUME NEW m \in Matches(k, s)' PROVE m \in Matches(k, s)
    <3>1. ASSUME NEW h \in history', h.key = k, h.price_from <= s, h.price_to > s,
                 m = [price |-> h.price, from |-> h.price_from]
          PROVE  m \in Matches(k, s)
      <4>1. CASE h \in history
        BY <3>1, <4>1, MatchIff
      <4>2. ASSUME NEW j \in Repriced(w), h = Link(j) PROVE m \in Matches(k, s)
        <5>1. j = k /\ live[k] # NoRow
          BY <1>l, <1>n, <3>1, <4>2
        <5>2. /\ m = [price |-> live[k].price, from |-> live[k].price_from]
              /\ live[k].price_from <= s
          BY <1>l, <3>1, <4>2, <5>1
        <5>3. live[k].ingested_at <= s
          BY <1>r, <1>t, <5>1, <5>2
        <5> QED BY <5>1, <5>2, <5>3, MatchIff
      <4> QED BY <1>n, <3>1, <4>1, <4>2
    <3>2. ~(live'[k].price_from <= s)
      BY <1>2, <1>t, <2>1
    <3> QED BY <2>2, <3>1, <3>2, MatchIff
  <2>3. ASSUME NEW m \in Matches(k, s) PROVE m \in Matches(k, s)'
    <3>1. ASSUME NEW h \in history, h.key = k, h.price_from <= s, h.price_to > s,
                 m = [price |-> h.price, from |-> h.price_from]
          PROVE  m \in Matches(k, s)'
      BY <1>n, <3>1, MatchIff
    <3>2. CASE /\ live[k] # NoRow /\ live[k].price_from <= s
               /\ m = [price |-> live[k].price, from |-> live[k].price_from]
      <4>1. k \in Repriced(w)
        BY <1>2, <3>2 DEF Moved
      <4>2. /\ Link(k) \in history' /\ Link(k).key = k
            /\ Link(k).price_from <= s /\ Link(k).price_to > s
            /\ m = [price |-> Link(k).price, from |-> Link(k).price_from]
        BY <1>2, <1>l, <1>n, <1>t, <3>2, <4>1
      <4> QED BY <4>2, MatchIff
    <3> QED BY <2>3, <3>1, <3>2, MatchIff
  <2>4. Matches(k, s)' = Matches(k, s)
    BY <2>2, <2>3
  <2> QED BY <2>4, ReadSame
<1>3. ASSUME ~Moved(w, k) PROVE AsOf(k, s)' = AsOf(k, s)
  <2>1. \A h \in history' : h.key = k => h \in history
    BY <1>3, <1>l, <1>n DEF Moved
  <2>2. /\ live'[k] = NoRow <=> live[k] = NoRow
        /\ live[k] # NoRow => /\ live'[k].price = live[k].price
                              /\ live'[k].price_from = live[k].price_from
                              /\ live'[k].ingested_at = live[k].ingested_at
    BY <1>3, CommitRows
  <2>3. \A m : m \in Matches(k, s)' <=> m \in Matches(k, s)
    BY <1>n, <2>1, <2>2, MatchIff
  <2>4. Matches(k, s)' = Matches(k, s)
    BY <2>3 DEF Matches
  <2> QED BY <2>4, ReadSame
<1> QED BY <1>1, <1>2, <1>3

\* The answers and the newest stamp, as Ledger substitutes them.
Known == [k \in Key |-> [t \in Time |-> AsOf(k, t)]]

\* A step that leaves both tables alone leaves the ledger alone.
LEMMA LedgerStutters == UNCHANGED tables => UNCHANGED <<Known, Frontier>>
<1> SUFFICES ASSUME UNCHANGED tables PROVE UNCHANGED <<Known, Frontier>>
  OBVIOUS
<1>1. live' = live /\ history' = history
  BY DEF tables
<1>2. \A k \in Key, t \in Time : Matches(k, t)' = Matches(k, t)
  BY <1>1 DEF Matches
<1>3. \A k \in Key, t \in Time : AsOf(k, t)' = AsOf(k, t)
  BY <1>2, ReadSame
<1>4. Stamps' = Stamps
  BY <1>1 DEF Stamps
<1> QED BY <1>3, <1>4 DEF Known, Frontier

\* Once two transactions have been open at once the ledger promises no more than
\* that reads answer prices.
LEMMA Voided ==
    ASSUME BaseInv', overlapped'
    PROVE  Ledger!Next
<1>1. \A k \in Key, t \in Time : AsOf(k, t)' \in Price \cup {NoPrice}
  <2> SUFFICES ASSUME NEW k \in Key, NEW t \in Time
               PROVE  AsOf(k, t)' \in Price \cup {NoPrice}
    OBVIOUS
  <2>1. \A m \in Matches(k, t)' : m.price \in Price
    BY DEF Matches, BaseInv, TypeOK, HistoryRow, Row
  <2>2. \A p \in Answers(k, t)' : p \in Price
    BY <2>1 DEF Answers, Newest
  <2> QED BY <2>2 DEF AsOf
<1>2. Known' \in [Key -> [Time -> Price \cup {NoPrice}]]
  BY <1>1 DEF Known
<1>3. Stamps' \subseteq Time /\ Stamps' # {}
  BY BoundsAssumption DEF BaseInv, TypeOK, Stamps, Row, Time
<1>4. Frontier' \in Time
  <2>1. \E t \in Stamps' : \A x \in Stamps' : x <= t
    BY <1>3, LastInstant
  <2> QED BY <1>3, <2>1 DEF Frontier
<1>5. Ledger!Void
  BY <1>2, <1>4 DEF Ledger!Void, Ledger!Answer, Ledger!Time, Time, Known, Frontier, BaseInv, TypeOK
<1> QED BY <1>5 DEF Ledger!Next

\* A commit records the prices it gives or replaces, under its own stamp.
LEMMA CommitRecords ==
    ASSUME BaseInv, BaseInv', ChainInv, ~overlapped, NEW w \in Writer, Commit(w)
    PROVE  [Ledger!Next]_(Ledger!vars)
<1> DEFINE t == began[w]
           news == [k \in Key |-> IF Moved(w, k) THEN live'[k].price ELSE NoPrice]
<1>v. UNCHANGED overlapped
  BY DEF Commit
<1>1. t \in Time /\ TypeOK /\ TypeOK'
  BY DEF BaseInv, TypeOK
<1>2. news \in [Key -> Price \cup {NoPrice}]
     /\ \A k \in Key : news[k] # NoPrice <=> Moved(w, k)
  <2>1. \A k \in Key : Moved(w, k) => live'[k].price \in Price
    BY CommitRows DEF Row
  <2> QED BY <2>1, NullsAssumption
<1>3. \A k \in Key, s \in Time :
        AsOf(k, s)' = IF s >= t /\ news[k] # NoPrice THEN news[k] ELSE AsOf(k, s)
  BY <1>2, CommitReads
<1>4. Known' = [k \in Key |-> [s \in Time |->
                  IF s >= t /\ news[k] # NoPrice THEN news[k] ELSE Known[k][s]]]
  <2> HIDE DEF news, t
  <2> QED BY <1>3 DEF Known
<1>5. \A s \in Stamps : s <= t
  BY <1>1, CommitRows DEF Stamps, Time
<1>6. t >= Frontier
  BY <1>1, <1>5, FrontierIsLast DEF Time
<1>7. CASE \E k \in Key : Moved(w, k)
  <2>1. \A k \in Key : live'[k] # NoRow =>
           live'[k].price_from = t \/ live'[k].price_from \in Stamps
    BY CommitRows DEF Stamps
  <2>2. t \in Stamps'
    BY <1>7, CommitRows DEF Stamps
  <2>3. \A s \in Stamps' : s \in Time /\ s <= t
    BY <1>1, <1>5, <2>1, BoundsAssumption, CommitRows DEF Stamps, Time, Row
  <2>4. Frontier' = t
    <3>1. Frontier' \in Stamps' /\ \A s \in Stamps' : s <= Frontier'
      BY <1>1, <2>2, <2>3 DEF Frontier
    <3> QED BY <1>1, <2>2, <2>3, <3>1 DEF Time
  <2>5. PICK at \in Time, new \in [Key -> Price \cup {NoPrice}] : at = t /\ new = news
    BY <1>1, <1>2
  <2> HIDE DEF t, news
  <2>6. Ledger!Record(at, new)
    BY <1>4, <1>6, <1>v, <2>4, <2>5 DEF Ledger!Record, Ledger!Time, Known, Frontier, Time
  <2>7. Ledger!Next
    BY <2>6, Zenon DEF Ledger!Next, Ledger!Time, Ledger!Answer, Time
  <2> QED BY <2>7
<1>8. CASE ~ \E k \in Key : Moved(w, k)
  <2>1. Known' = Known
    BY <1>2, <1>4, <1>8 DEF Known
  <2>2. Stamps' = Stamps
    BY <1>8, CommitRows DEF Stamps
  <2>3. Frontier' = Frontier
    BY <2>2 DEF Frontier
  <2> QED BY <1>v, <2>1, <2>3 DEF Ledger!vars, Known, Frontier
<1> QED BY <1>7, <1>8

\* A price table implements the promise of PriceLedger whatever number of writers
\* it has: until two of their transactions are open at once, what an as-of read
\* answers for an instant is fixed once a later revision is in.
THEOREM TableImplementsLedger == Spec => ImplementsLedger
<1>1. Init => Ledger!Init
  <2> SUFFICES ASSUME Init PROVE Ledger!Init
    OBVIOUS
  <2>1. \A k \in Key, t \in Time : AsOf(k, t) = NoPrice
    BY DEF Init, AsOf, Answers, Newest, Matches
  <2>2. Stamps = {0}
    BY DEF Init, Stamps
  <2>3. Frontier = 0
    BY <2>2 DEF Frontier
  <2> QED BY <2>1, <2>3 DEF Init, Ledger!Init, Ledger!Time, Time, Frontier
<1>2. /\ BaseInv /\ BaseInv' /\ OrderInv /\ OrderInv' /\ [Next]_vars
      => [Ledger!Next]_(Ledger!vars)
  <2> SUFFICES ASSUME BaseInv, BaseInv', OrderInv, [Next]_vars
               PROVE  [Ledger!Next]_(Ledger!vars)
    OBVIOUS
  <2>1. CASE overlapped'
    BY <2>1, Voided
  <2>2. CASE ~overlapped'
    <3>1. overlapped' = overlapped /\ overlapped = FALSE /\ ChainInv
      BY <2>2 DEF Next, Load, Tick, Publish, Fetch, Begin, Update, Commit, Abort, notes,
                  vars, BaseInv, TypeOK, OrderInv
    <3>2. ASSUME NEW w \in Writer, Commit(w) PROVE [Ledger!Next]_(Ledger!vars)
      BY <3>1, <3>2, CommitRecords
    <3>3. CASE UNCHANGED tables
      BY <3>1, <3>3, LedgerStutters DEF Ledger!vars, Known, Frontier
    <3> QED BY <3>2, <3>3
            DEF Next, Load, Tick, Publish, Fetch, Begin, Update, Abort, tables, vars
  <2> QED BY <2>1, <2>2
<1> QED BY <1>1, <1>2, OrderHolds, PTL DEF Spec, ImplementsLedger, Ledger!Spec
=============================================================================
