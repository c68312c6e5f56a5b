---------------------------- MODULE BackfillProofs ----------------------------
(***************************************************************************)
(* Proofs about Backfill and the Paging it reads with, for any number of   *)
(* points, days, windows, pages, threads and runs.                         *)
(***************************************************************************)
EXTENDS Backfill, FiniteSetTheorems, TLAPS

-----------------------------------------------------------------------------
(* rows(): what is not read yet is on a page that is still to come.        *)

PagingType == report \in Seq(Key) /\ reader \in Reader

\* Row r is behind the pages read.
Ahead(r) == \E i \in 1 .. Len(report) : (reader.page - 1) * PageSize < i /\ report[i] = r

PagingInv ==
    /\ reader.stage = "reading" =>
          /\ reader.page <= MaxPages
          /\ \A r \in reader.first : r \in reader.got \/ Ahead(r)
    /\ NeverTruncated

LEMMA PageEnd == ASSUME NEW p \in Int PROVE p * PageSize = (p - 1) * PageSize + PageSize
  BY PagingAssumption

\* An empty page has nothing behind it.
LEMMA EmptyPage ==
    ASSUME PagingType, OnPage(reader.page) = {}
    PROVE  \A r : ~Ahead(r)
<1> DEFINE b == (reader.page - 1) * PageSize
<1>0. /\ reader.page \in Int /\ PageSize \in Nat \ {0} /\ b \in Int /\ Len(report) \in Nat
      /\ reader.page - 1 >= 0 /\ b >= 0
  <2>1. /\ reader.page \in Int /\ PageSize \in Nat \ {0} /\ Len(report) \in Nat
        /\ reader.page >= 1
    BY PagingAssumption DEF PagingType, Reader
  <2>. QED  BY <2>1
<1>1. reader.page * PageSize = b + PageSize
  BY <1>0, PageEnd
<1> HIDE DEF b
<1>2. SUFFICES ASSUME NEW r, NEW i \in 1 .. Len(report), b < i PROVE FALSE
  BY DEF Ahead, b
<1>3. b + 1 \in 1 .. Len(report) /\ b < b + 1 /\ b + 1 <= b + PageSize
  BY <1>0, <1>2
<1>4. report[b + 1] \in OnPage(reader.page)
  BY <1>1, <1>3 DEF OnPage, b
<1>. QED  BY <1>4

\* A page that is read leaves ahead what is on the pages behind it.
LEMMA ReadAhead ==
    ASSUME PagingType, NEW r, Ahead(r)
    PROVE  \/ r \in OnPage(reader.page)
           \/ \E i \in 1 .. Len(report) : reader.page * PageSize < i /\ report[i] = r
<1>1. /\ reader.page * PageSize \in Int /\ Len(report) \in Nat
  <2>1. reader.page \in Int /\ PageSize \in Int /\ Len(report) \in Nat
    BY PagingAssumption DEF PagingType, Reader
  <2>. QED  BY <2>1
<1> DEFINE e == reader.page * PageSize
<1>2. PICK i \in 1 .. Len(report) : (reader.page - 1) * PageSize < i /\ report[i] = r
  BY DEF Ahead
<1>3. CASE i <= e
  BY <1>2, <1>3 DEF OnPage
<1>4. CASE ~(i <= e)
  BY <1>1, <1>2, <1>4
<1>. QED  BY <1>3, <1>4

LEMMA ReadStep ==
    ASSUME PagingType, PagingInv, Read
    PROVE  /\ PagingType' /\ PagingInv' /\ report' = report
           /\ reader'.first = reader.first
           /\ reader'.got \subseteq reader.got \cup Content(report)
<1>1. CASE GetFails
  BY <1>1 DEF GetFails, PagingType, Reader, PagingInv, NeverTruncated
<1>2. ASSUME NEW meta \in BOOLEAN, GetPage(meta)
      PROVE  /\ PagingType' /\ PagingInv' /\ report' = report
             /\ reader'.first = reader.first
             /\ reader'.got \subseteq reader.got \cup Content(report)
  <2> DEFINE p == reader.page
             s == IF OnPage(p) = {} \/ LastPage(p, meta) THEN "done"
                  ELSE IF p = MaxPages THEN AfterLast ELSE "reading"
  <2>1. /\ reader.stage = "reading" /\ report' = report
        /\ reader' = [reader EXCEPT !.got = @ \cup OnPage(p), !.page = p + 1, !.stage = s]
    BY <1>2 DEF GetPage
  <2>2. /\ p \in 1 .. MaxPages + 1 /\ p <= MaxPages /\ MaxPages \in Nat /\ Len(report) \in Nat
        /\ PageSize \in Nat
    BY <2>1, PagingAssumption DEF PagingType, PagingInv, Reader
  <2>3. OnPage(p) \subseteq Content(report) /\ Content(report) \subseteq Key
    BY DEF OnPage, Content, PagingType
  <2>4. reader \in Reader
    BY DEF PagingType
  <2>5. s \in {"reading", "done", "raised"} /\ (s = "reading" => p # MaxPages)
    BY DEF AfterLast
  <2>5a. s = "done" => OnPage(p) = {} \/ LastPage(p, meta)
    BY DEF AfterLast
  <2>6. /\ reader'.stage = s /\ reader'.page = p + 1 /\ reader'.first = reader.first
        /\ reader'.got = reader.got \cup OnPage(p) /\ reader' \in Reader
    <3> HIDE DEF s, p
    <3>1. p + 1 \in 1 .. MaxPages + 1
      BY <2>2
    <3>2. OnPage(p) \subseteq Row
      BY <2>3, BackfillAssumption
    <3>. QED  BY <2>1, <2>4, <2>5, <3>1, <3>2 DEF Reader
  <2> HIDE DEF s
  <2>7. \A r \in reader.first : r \in reader.got \/ Ahead(r)
    BY <2>1 DEF PagingInv
  <2>8. ASSUME s = "done" PROVE reader.first \subseteq reader.got \cup OnPage(p)
    <3>1. CASE OnPage(p) = {}
      BY <2>7, <3>1, EmptyPage
    <3>2. CASE LastPage(p, meta)
      <4>1. p * PageSize >= Len(report)
        <5>1. p * PageSize \in Int
          BY <2>2
        <5>. QED  BY <2>2, <3>2, <5>1 DEF LastPage, FullPage
      <4>2. ~\E i \in 1 .. Len(report) : p * PageSize < i
        <5>1. p * PageSize \in Int
          BY <2>2
        <5>. QED  BY <2>2, <4>1, <5>1
      <4>. QED  BY <2>7, <4>2, ReadAhead
    <3>. QED  BY <2>5a, <2>8, <3>1, <3>2
  <2>9. ASSUME s = "reading" PROVE \A r \in reader.first : r \in reader'.got \/ Ahead(r)'
    <3>1. (reader'.page - 1) * PageSize = p * PageSize
      BY <2>2, <2>6
    <3>2. \A r \in reader.first : Ahead(r) =>
             r \in OnPage(p) \/ \E i \in 1 .. Len(report) : p * PageSize < i /\ report[i] = r
      BY ReadAhead
    <3>. QED  BY <2>1, <2>6, <2>7, <3>1, <3>2 DEF Ahead
  <2>10. s = "reading" => p + 1 <= MaxPages
    BY <2>2, <2>5
  <2>11. PagingInv'
    BY <2>6, <2>8, <2>9, <2>10 DEF PagingInv, NeverTruncated
  <2>12. PagingType'
    BY <2>1, <2>6 DEF PagingType
  <2>. QED  BY <2>1, <2>3, <2>6, <2>11, <2>12
<1>. QED  BY <1>1, <1>2 DEF Read

\* A row that comes moves others back, never to a page read before.
LEMMA InsertStep ==
    ASSUME PagingType, PagingInv, NEW k \in Key, NEW i \in 1 .. Len(report) + 1, Insert(k, i)
    PROVE  /\ PagingType' /\ PagingInv' /\ reader' = reader
           /\ Content(report)' \subseteq Content(report) \cup {k}
<1>0. Len(report) \in Nat /\ i \in Nat /\ \A j \in 1 .. Len(report) : report[j] \in Key
  BY DEF PagingType
<1>1. /\ report' = [j \in 1 .. Len(report) + 1 |->
                      IF j < i THEN report[j] ELSE IF j = i THEN k ELSE report[j - 1]]
      /\ reader' = reader
  BY DEF Insert
<1>2. \A j \in 1 .. Len(report) + 1 :
         /\ report'[j] \in Key
         /\ report'[j] = k \/ \E h \in 1 .. Len(report) : report'[j] = report[h]
  <2> SUFFICES ASSUME NEW j \in 1 .. Len(report) + 1
               PROVE  report'[j] = k \/ \E h \in 1 .. Len(report) : report'[j] = report[h]
    BY <1>0
  <2>1. CASE j < i
    BY <1>0, <1>1, <2>1
  <2>2. CASE j = i
    BY <1>0, <1>1, <2>2
  <2>3. CASE j > i
    <3>1. j - 1 \in 1 .. Len(report) /\ report'[j] = report[j - 1]
      BY <1>0, <1>1, <2>3
    <3>. QED  BY <3>1
  <2>. QED  BY <1>0, <2>1, <2>2, <2>3
<1>3. report' \in Seq(Key) /\ Len(report') = Len(report) + 1
  <2>1. report' \in [1 .. Len(report) + 1 -> Key]
    BY <1>1, <1>2
  <2>2. Len(report) + 1 \in Nat
    BY <1>0
  <2>. QED  BY <2>1, <2>2
<1>4. ASSUME NEW r, Ahead(r) PROVE Ahead(r)'
  <2> DEFINE b == (reader.page - 1) * PageSize
  <2>1. PICK j \in 1 .. Len(report) : b < j /\ report[j] = r
    BY <1>4 DEF Ahead
  <2>2. b \in Int
    <3>1. reader.page \in Int /\ PageSize \in Int
      BY PagingAssumption DEF PagingType, Reader
    <3>. QED  BY <3>1
  <2>3. b' = b
    BY <1>1
  <2> HIDE DEF b
  <2>4. CASE j < i
    <3>1. j \in 1 .. Len(report) + 1 /\ report'[j] = r
      BY <1>0, <1>1, <2>1, <2>4
    <3>. QED  BY <1>3, <2>1, <2>3, <3>1 DEF Ahead, b
  <2>5. CASE ~(j < i)
    <3>1. j + 1 \in 1 .. Len(report) + 1 /\ report'[j + 1] = r /\ b < j + 1
      <4>1. j + 1 \in 1 .. Len(report) + 1 /\ b < j + 1 /\ ~(j + 1 < i) /\ j + 1 # i
            /\ (j + 1) - 1 = j
        BY <1>0, <2>1, <2>2, <2>5
      <4>. QED  BY <1>1, <2>1, <4>1
    <3>. QED  BY <1>3, <2>3, <3>1 DEF Ahead, b
  <2>. QED  BY <2>4, <2>5
<1>5. PagingInv'
  BY <1>1, <1>4 DEF PagingInv, NeverTruncated
<1>6. Content(report)' \subseteq Content(report) \cup {k}
  BY <1>2, <1>3 DEF Content
<1>. QED  BY <1>1, <1>3, <1>5, <1>6 DEF PagingType

-----------------------------------------------------------------------------
(* The thread: what it has loaded, and what it still has to.               *)

\* The load of t has still to come to key k.
Remaining(t, k) ==
    /\ InRange(k, t.left, t.from, t.to)
    /\ (t.lo > t.from /\ k.point = t.point) => t.lo <= k.day

InWindow(t, k) == InRange(k, {t.point}, t.lo, Stop(t.lo, t.to))

Loading(t) ==
    \A k \in log[t.run].wanted : Remaining(t, k) \/ (k \in stored /\ t.seen)

WorkerInv(t) ==
    /\ t.stage # "none" => t.run \in 1 .. MaxRuns /\ t.lo >= t.from /\ state.run = t.run
    /\ t.stage = "starting" => t.lo = t.from
    /\ t.stage \in {"opening", "reading", "finishing"} => Loading(t)
    /\ t.stage = "reading" =>
          \A k \in log[t.run].wanted : InWindow(t, k) => k \in reader.first
    /\ t.stage = "finishing" => t.left = {}

\* What is read and wanted is known to ERCOT.
RowsKnown ==
    /\ IsFiniteSet(published)
    /\ Content(report) \subseteq published
    /\ reader.got \subseteq published
    /\ \A n \in 1 .. MaxRuns : log[n].wanted \subseteq published

\* _state tells of an end only after the end.
Ended ==
    state.finished =>
        /\ state.run \in 1 .. MaxRuns
        /\ \A w \in Worker : worker[w].stage \in {"none", "unmarking", "releasing"}

IInv ==
    /\ TypeOK /\ PagingInv /\ RowsKnown /\ OneAtATime /\ Ended
    /\ \A w \in Worker : WorkerInv(worker[w])
    /\ FinishedIsLoaded /\ AnswersAgree

LEMMA InitIInv == Init => IInv
<1>. SUFFICES ASSUME Init PROVE IInv
  OBVIOUS
<1>1. Idle \in Task /\ Idle.stage = "none"
  <2>1. (CHOOSE p \in Point : TRUE) \in Point
    BY BackfillAssumption
  <2>. QED  BY <2>1, BackfillAssumption DEF Idle, Task, Day
<1>2. NoReader \in Reader /\ NoReader.stage = "idle" /\ NoReader.got = {}
  BY PagingAssumption DEF NoReader, Reader
<1>3. report = <<>> /\ reader = NoReader /\ Content(report) = {}
  BY DEF Init, PagingInit, Content
<1>4. \A n \in 1 .. MaxRuns : log[n].status = "none" /\ log[n].wanted = {}
  BY DEF Init
<1>5. TypeOK
  <2>1. published \subseteq Key
    BY BackfillAssumption DEF Init
  <2>2. log \in [1 .. MaxRuns -> Run]
    BY DEF Init, Run
  <2>3. report \in Seq(Key)
    BY <1>3
  <2>4. NoState \in [running : BOOLEAN, finished : BOOLEAN, error : BOOLEAN, run : 0 .. MaxRuns]
    BY BackfillAssumption DEF NoState
  <2>5. worker \in [Worker -> Task] /\ state = NoState /\ lock = FALSE /\ stored = {} /\ begun = 0
    BY <1>1 DEF Init
  <2>6. 0 \in 0 .. MaxRuns
    BY BackfillAssumption
  <2>. QED
    BY <1>2, <1>3, <2>1, <2>2, <2>3, <2>4, <2>5, <2>6 DEF TypeOK
<1>6. PagingInv
  BY <1>2, <1>3 DEF PagingInv, NeverTruncated
<1>7. RowsKnown
  <2>1. IsFiniteSet(published)
    BY BackfillAssumption DEF Init
  <2>. QED  BY <1>2, <1>3, <1>4, <2>1 DEF RowsKnown
<1>8. OneAtATime /\ Ended /\ AnswersAgree
  BY <1>1 DEF OneAtATime, Ended, AnswersAgree, Init, At, NoState
<1>9. \A w \in Worker : WorkerInv(worker[w])
  BY <1>1 DEF WorkerInv, Init
<1>10. FinishedIsLoaded
  BY <1>4 DEF FinishedIsLoaded
<1>. QED  BY <1>5, <1>6, <1>7, <1>8, <1>9, <1>10 DEF IInv

\* While w is at work every other thread is idle, and stays so.
LEMMA OthersIdle ==
    ASSUME IInv, NEW w \in Worker, ~At(w, "none"),
           \A v \in Worker \ {w} : worker'[v] = worker[v]
    PROVE  /\ \A v \in Worker \ {w} : worker[v].stage = "none" /\ worker'[v].stage = "none"
           /\ lock
  BY DEF IInv, OneAtATime, At

\* Only w can be at work after the step, and only under the lock.
LEMMA OneAfter ==
    ASSUME NEW w \in Worker, \A v \in Worker \ {w} : worker'[v].stage = "none",
           worker'[w].stage # "none" => lock'
    PROVE  OneAtATime'
  BY DEF OneAtATime, At

LEMMA WorkersAfter ==
    ASSUME NEW w \in Worker, \A v \in Worker \ {w} : worker'[v].stage = "none",
           WorkerInv(worker[w])'
    PROVE  \A v \in Worker : WorkerInv(worker[v])'
  BY DEF WorkerInv

\* A step that only takes w to a stage where nothing is being loaded.
LEMMA Leaves ==
    ASSUME IInv, NEW w \in Worker, ~At(w, "none"),
           NEW s \in {"failing", "unmarking", "releasing"}, Goto(w, s),
           UNCHANGED lock, state'.run = state.run
    PROVE  /\ worker' \in [Worker -> Task] /\ OneAtATime'
           /\ \A v \in Worker : WorkerInv(worker[v])'
           /\ worker'[w].stage = s
           /\ \A v \in Worker \ {w} : worker'[v].stage = "none"
<1>1. worker \in [Worker -> Task]
  BY DEF IInv, TypeOK
<1>2. worker' = [worker EXCEPT ![w].stage = s]
  BY DEF Goto
<1>3. /\ worker' \in [Worker -> Task]
      /\ worker'[w].stage = s /\ worker'[w].run = worker[w].run
      /\ worker'[w].lo = worker[w].lo /\ worker'[w].from = worker[w].from
      /\ \A v \in Worker \ {w} : worker'[v] = worker[v]
  BY <1>1, <1>2 DEF Task
<1>4. (\A v \in Worker \ {w} : worker'[v].stage = "none") /\ lock
  BY <1>3, OthersIdle
<1>5. OneAtATime'
  BY <1>4, OneAfter
<1>6. WorkerInv(worker[w])'
  BY <1>3 DEF IInv, WorkerInv, At
<1>7. \A v \in Worker : WorkerInv(worker[v])'
  BY <1>4, <1>6, WorkersAfter
<1>. QED  BY <1>3, <1>4, <1>5, <1>7

LEMMA StartInv ==
    ASSUME IInv, NEW w \in Worker, NEW q \in Request, Start(w, q)
    PROVE  IInv'
<1> DEFINE t == [Idle EXCEPT !.stage = "starting", !.run = begun + 1, !.left = q.points,
                             !.from = q.from, !.to = q.to, !.lo = q.from]
<1>1. /\ worker \in [Worker -> Task] /\ begun \in 0 .. MaxRuns /\ begun < MaxRuns
      /\ MaxRuns \in Nat /\ q.points \subseteq Point /\ q.from \in Day /\ q.to \in Day
      /\ Day \subseteq Int
  BY BackfillAssumption DEF IInv, TypeOK, Start, Day
<1>2. t \in Task /\ t.stage = "starting" /\ t.run = begun + 1 /\ t.lo = t.from /\ t.from \in Int
  <2>1. (CHOOSE p \in Point : TRUE) \in Point
    BY BackfillAssumption
  <2>2. begun + 1 \in 0 .. MaxRuns
    BY <1>1
  <2>. QED  BY <1>1, <2>1, <2>2 DEF Idle, Task
<1>3. worker' = [worker EXCEPT ![w] = t] /\ lock' = TRUE /\ begun' = begun + 1 /\ ~lock
  BY DEF Start, Begin
<1>4. state' = [NoState EXCEPT !.running = TRUE, !.run = begun + 1]
  BY DEF Start, Begin
<1>5. UNCHANGED <<report, reader, published, stored, log>>
  BY DEF Start, ercot
<1> HIDE DEF t
<1>6. worker' \in [Worker -> Task] /\ worker'[w] = t /\ \A v \in Worker \ {w} : worker'[v] = worker[v]
  BY <1>1, <1>2, <1>3
<1>7. \A v \in Worker \ {w} : worker'[v].stage = "none"
  BY <1>3, <1>6 DEF IInv, OneAtATime, At
<1>8. OneAtATime'
  BY <1>3, <1>7, OneAfter
<1>9. begun + 1 \in 1 .. MaxRuns
  BY <1>1
<1>10. WorkerInv(worker[w])'
  <2>1. worker'[w].stage = "starting" /\ worker'[w].run = begun + 1
        /\ worker'[w].lo = worker'[w].from /\ worker'[w].from \in Int
    BY <1>2, <1>6
  <2>2. state'.run = begun + 1
    BY <1>4 DEF NoState
  <2>. QED  BY <1>9, <2>1, <2>2 DEF WorkerInv
<1>11. \A v \in Worker : WorkerInv(worker[v])'
  BY <1>7, <1>10, WorkersAfter
<1>12. ~state'.finished
  BY <1>4 DEF NoState
<1>13. TypeOK'
  <2>1. begun + 1 \in 0 .. MaxRuns
    BY <1>9
  <2>2. state' \in [running : BOOLEAN, finished : BOOLEAN, error : BOOLEAN, run : 0 .. MaxRuns]
    BY <1>4, <2>1 DEF NoState
  <2>. QED  BY <1>3, <1>5, <1>6, <2>1, <2>2 DEF IInv, TypeOK
<1>14. PagingInv' /\ RowsKnown' /\ FinishedIsLoaded'
  BY <1>5 DEF IInv, PagingInv, NeverTruncated, Ahead, RowsKnown, Content, FinishedIsLoaded
<1>15. Ended' /\ AnswersAgree'
  BY <1>12 DEF Ended, AnswersAgree
<1>. QED  BY <1>8, <1>11, <1>13, <1>14, <1>15 DEF IInv

LEMMA StartRunInv ==
    ASSUME IInv, NEW w \in Worker, StartRun(w)
    PROVE  IInv'
<1> DEFINE t == worker[w]
           n == worker[w].run
           W == Wanted(t.left, t.from, t.to)
<1>1. /\ t \in Task /\ t.stage = "starting" /\ n \in 1 .. MaxRuns /\ t.lo = t.from
      /\ state.run = n /\ worker \in [Worker -> Task] /\ log \in [1 .. MaxRuns -> Run]
      /\ t.from \in Int
  <2>1. worker \in [Worker -> Task] /\ log \in [1 .. MaxRuns -> Run] /\ t.stage = "starting"
    BY DEF IInv, TypeOK, StartRun, At
  <2>2. t \in Task /\ Day \subseteq Int
    BY <2>1 DEF Day
  <2>3. WorkerInv(t)
    BY DEF IInv
  <2>. QED  BY <2>1, <2>2, <2>3 DEF WorkerInv, Task
<1>2. /\ log' = [log EXCEPT ![n] = [status |-> "running", wanted |-> W]]
      /\ worker' = [worker EXCEPT ![w].stage = "opening"]
      /\ UNCHANGED <<report, reader, lock, state, published, stored, begun>>
  BY DEF StartRun, Goto, ercot
<1>3. W \subseteq published /\ published \subseteq Key
  BY DEF Wanted, IInv, TypeOK
<1>4. /\ worker' \in [Worker -> Task] /\ worker'[w].stage = "opening"
      /\ worker'[w].run = n /\ worker'[w].left = t.left /\ worker'[w].from = t.from
      /\ worker'[w].to = t.to /\ worker'[w].lo = t.lo
      /\ \A v \in Worker \ {w} : worker'[v] = worker[v]
  BY <1>1, <1>2 DEF Task
<1>5. /\ log' \in [1 .. MaxRuns -> Run] /\ log'[n].wanted = W /\ log'[n].status = "running"
      /\ \A m \in 1 .. MaxRuns \ {n} : log'[m] = log[m]
  BY <1>1, <1>2, <1>3 DEF Run
<1>6. (\A v \in Worker \ {w} : worker'[v].stage = "none") /\ lock
  BY <1>1, <1>4, OthersIdle DEF At
<1>7. OneAtATime'
  BY <1>2, <1>6, OneAfter
<1>8. WorkerInv(worker[w])'
  <2>1. \A k \in W : InRange(k, t.left, t.from, t.to)
    BY DEF Wanted
  <2>2. Loading(worker[w])'
    <3>1. \A k \in W : Remaining(worker'[w], k)
      BY <1>1, <1>4, <2>1 DEF Remaining, InRange
    <3>2. \A k \in log'[worker'[w].run].wanted : Remaining(worker'[w], k)
      BY <1>4, <1>5, <3>1
    <3>. QED  BY <3>2 DEF Loading, Remaining, InRange
  <2>. QED  BY <1>1, <1>2, <1>4, <2>2 DEF WorkerInv
<1>9. \A v \in Worker : WorkerInv(worker[v])'
  BY <1>6, <1>8, WorkersAfter
<1>10. ~state.finished
  BY <1>1 DEF IInv, Ended
<1>11. TypeOK'
  BY <1>2, <1>4, <1>5 DEF IInv, TypeOK
<1>12. PagingInv'
  BY <1>2 DEF IInv, PagingInv, NeverTruncated, Ahead
<1>13. RowsKnown' /\ FinishedIsLoaded'
  BY <1>2, <1>3, <1>5 DEF IInv, RowsKnown, Content, FinishedIsLoaded
<1>14. Ended' /\ AnswersAgree'
  BY <1>2, <1>10 DEF Ended, AnswersAgree
<1>. QED  BY <1>7, <1>9, <1>11, <1>12, <1>13, <1>14 DEF IInv

\* A thread that ends leaves nothing behind but the log.
LEMMA GoneInv ==
    ASSUME IInv, NEW w \in Worker, ~At(w, "none"), worker' = [worker EXCEPT ![w] = Idle],
           lock' \in BOOLEAN, UNCHANGED <<ercot, state, published, stored, log, begun>>
    PROVE  IInv'
<1>1. worker \in [Worker -> Task]
  BY DEF IInv, TypeOK
<1>2. Idle \in Task /\ Idle.stage = "none"
  <2>1. (CHOOSE p \in Point : TRUE) \in Point
    BY BackfillAssumption
  <2>. QED  BY <2>1, BackfillAssumption DEF Idle, Task, Day
<1>3. worker' \in [Worker -> Task] /\ worker'[w].stage = "none"
      /\ \A v \in Worker \ {w} : worker'[v] = worker[v]
  BY <1>1, <1>2
<1>4. \A v \in Worker : worker'[v].stage = "none"
  BY <1>3, OthersIdle
<1>5. UNCHANGED <<report, reader, state, published, stored, log, begun>>
  BY DEF ercot
<1>6. OneAtATime' /\ \A v \in Worker : WorkerInv(worker[v])'
  BY <1>4 DEF OneAtATime, At, WorkerInv
<1>7. TypeOK'
  BY <1>3, <1>5 DEF IInv, TypeOK
<1>8. PagingInv' /\ RowsKnown' /\ FinishedIsLoaded' /\ AnswersAgree'
  BY <1>5 DEF IInv, PagingInv, NeverTruncated, Ahead, RowsKnown, Content, FinishedIsLoaded,
              AnswersAgree
<1>9. Ended'
  BY <1>4, <1>5 DEF IInv, Ended
<1>. QED  BY <1>6, <1>7, <1>8, <1>9 DEF IInv

LEMMA OpenWindowInv ==
    ASSUME IInv, NEW w \in Worker, OpenWindow(w)
    PROVE  IInv'
<1> DEFINE t == worker[w]
           R(p) == Window([t EXCEPT !.point = p])
<1>1. /\ t \in Task /\ t.stage = "opening" /\ worker \in [Worker -> Task] /\ WorkerInv(t)
      /\ Day \subseteq Int /\ published \subseteq Key /\ t.run \in 1 .. MaxRuns
      /\ t.left \subseteq Point
  <2>1. worker \in [Worker -> Task] /\ t.stage = "opening" /\ WorkerInv(t) /\ published \subseteq Key
    BY DEF IInv, TypeOK, OpenWindow, At
  <2>2. t \in Task /\ Day \subseteq Int
    BY <2>1 DEF Day
  <2>. QED  BY <2>1, <2>2 DEF WorkerInv, Task
<1>2. PICK p \in t.left :
         /\ t.lo > t.from => p = t.point
         /\ worker' = [worker EXCEPT ![w].stage = "reading", ![w].point = p]
         /\ \E s \in [1 .. Cardinality(R(p)) -> R(p)] : Content(s) = R(p) /\ Open(s)
  BY DEF OpenWindow
<1>3. PICK s \in [1 .. Cardinality(R(p)) -> R(p)] : Content(s) = R(p) /\ Open(s)
  BY <1>2
<1>4. UNCHANGED <<lock, state, published, stored, log, begun>>
  BY DEF OpenWindow
<1> DEFINE u == worker'[w]
<1>5. /\ worker' \in [Worker -> Task] /\ u.stage = "reading" /\ u.point = p /\ u.run = t.run
      /\ u.left = t.left /\ u.from = t.from /\ u.to = t.to /\ u.lo = t.lo /\ u.seen = t.seen
      /\ \A v \in Worker \ {w} : worker'[v] = worker[v]
  BY <1>1, <1>2 DEF Task
<1>6. R(p) = {k \in published : InWindow(u, k)}
  <2>1. [t EXCEPT !.point = p].point = p /\ [t EXCEPT !.point = p].lo = t.lo
        /\ [t EXCEPT !.point = p].to = t.to
    BY <1>1 DEF Task
  <2>. QED  BY <1>5, <2>1 DEF Window, Wanted, InWindow
<1> HIDE DEF u, R
<1>7. /\ report' = s /\ reader.stage = "idle"
      /\ reader' = [NoReader EXCEPT !.stage = "reading", !.first = R(p)]
  BY <1>3 DEF Open
<1>8. /\ R(p) \subseteq published /\ R(p) \subseteq Key
  BY <1>1, <1>6
<1>9. /\ reader' \in Reader /\ reader'.stage = "reading" /\ reader'.page = 1
      /\ reader'.first = R(p) /\ reader'.got = {}
  <2>1. R(p) \subseteq Row
    BY <1>8, BackfillAssumption
  <2>2. reader' = [stage |-> "reading", page |-> 1, got |-> {}, first |-> R(p)]
    BY <1>7 DEF NoReader
  <2>3. 1 \in 1 .. MaxPages + 1
    BY PagingAssumption
  <2>. QED  BY <2>1, <2>2, <2>3 DEF Reader
<1>10. report' \in Seq(Key) /\ Content(report)' = R(p)
  <2>1. Cardinality(R(p)) \in Nat
    <3>1. IsFiniteSet(R(p))
      BY <1>8, FS_Subset DEF IInv, RowsKnown
    <3>. QED  BY <3>1, FS_CardinalityType
  <2>2. s \in Seq(Key)
    BY <1>8, <2>1
  <2>3. Content(report)' = Content(s)
    BY <1>7 DEF Content
  <2>. QED  BY <1>3, <1>7, <2>2, <2>3
<1>11. (\A v \in Worker \ {w} : worker'[v].stage = "none") /\ lock
  BY <1>1, <1>5, OthersIdle DEF At, u
<1>12. OneAtATime'
  BY <1>4, <1>11, OneAfter
<1>13. Loading(worker[w])'
  <2>1. \A k \in log[t.run].wanted : Remaining(t, k) \/ (k \in stored /\ t.seen)
    BY <1>1 DEF WorkerInv, Loading
  <2>2. \A k : Remaining(t, k) => Remaining(u, k)
    BY <1>2, <1>5 DEF Remaining, InRange
  <2>3. \A k \in log[u.run].wanted : Remaining(u, k) \/ (k \in stored /\ u.seen)
    BY <1>5, <2>1, <2>2
  <2>. QED  BY <1>4, <2>3 DEF Loading, Remaining, InRange, u
<1>14. WorkerInv(worker[w])'
  <2>1. \A k \in log[u.run].wanted : InWindow(u, k) => k \in reader'.first
    BY <1>1, <1>5, <1>6, <1>9 DEF IInv, RowsKnown
  <2>2. u.stage = "reading" /\ u.run \in 1 .. MaxRuns /\ u.lo >= u.from /\ state.run = u.run
    BY <1>1, <1>5 DEF WorkerInv
  <2>. QED  BY <1>4, <1>13, <2>1, <2>2 DEF WorkerInv, InWindow, InRange, Stop, u
<1>15. \A v \in Worker : WorkerInv(worker[v])'
  BY <1>11, <1>14, WorkersAfter
<1>16. TypeOK'
  BY <1>4, <1>5, <1>9, <1>10 DEF IInv, TypeOK
<1>17. PagingInv'
  <2>1. \A r \in reader'.first : Ahead(r)'
    <3>1. \A i \in 1 .. Len(report') : (reader'.page - 1) * PageSize < i
      <4>1. (reader'.page - 1) * PageSize = 0
        BY <1>9, PagingAssumption
      <4>. QED  BY <4>1
    <3>. QED  BY <1>9, <1>10, <3>1 DEF Ahead, Content
  <2>. QED  BY <1>9, <2>1, PagingAssumption DEF PagingInv, NeverTruncated
<1>18. RowsKnown'
  BY <1>4, <1>8, <1>9, <1>10 DEF IInv, RowsKnown
<1>19. FinishedIsLoaded' /\ AnswersAgree'
  BY <1>4 DEF IInv, FinishedIsLoaded, AnswersAgree
<1>20. Ended'
  <2>1. ~state.finished
    BY <1>1 DEF IInv, Ended
  <2>. QED  BY <1>4, <2>1 DEF Ended
<1>. QED  BY <1>12, <1>15, <1>16, <1>17, <1>18, <1>19, <1>20 DEF IInv

LEMMA ReadPageInv ==
    ASSUME IInv, NEW w \in Worker, ReadPage(w)
    PROVE  IInv'
<1>1. UNCHANGED <<lock, state, worker, published, stored, log, begun>> /\ Read
  BY DEF ReadPage
<1>2. PagingType /\ PagingInv /\ Content(report) \subseteq published
  BY DEF IInv, TypeOK, PagingType, RowsKnown
<1>3. /\ PagingType' /\ PagingInv' /\ report' = report /\ reader'.first = reader.first
      /\ reader'.got \subseteq reader.got \cup Content(report)
  BY <1>1, <1>2, ReadStep
<1>4. TypeOK'
  BY <1>1, <1>3 DEF IInv, TypeOK, PagingType
<1>5. RowsKnown'
  BY <1>1, <1>2, <1>3 DEF IInv, RowsKnown, Content
<1>6. \A v \in Worker : WorkerInv(worker[v])'
  BY <1>1, <1>3 DEF IInv, WorkerInv, Loading, Remaining, InWindow, InRange, Stop
<1>7. OneAtATime' /\ Ended' /\ FinishedIsLoaded' /\ AnswersAgree'
  BY <1>1 DEF IInv, OneAtATime, At, Ended, FinishedIsLoaded, AnswersAgree
<1>. QED  BY <1>3, <1>4, <1>5, <1>6, <1>7 DEF IInv

\* Closing the reader is always in order.
LEMMA CloseStep ==
    ASSUME Close
    PROVE  /\ report' = <<>> /\ reader' \in Reader /\ reader'.got = {}
           /\ reader'.stage = "idle" /\ PagingInv' /\ Content(report)' = {}
<1>1. report' = <<>> /\ reader' = NoReader
  BY DEF Close
<1>2. NoReader \in Reader /\ NoReader.stage = "idle" /\ NoReader.got = {}
  BY PagingAssumption DEF NoReader, Reader
<1>. QED  BY <1>1, <1>2 DEF PagingInv, NeverTruncated, Content

\* What is still to come for t is, once its window is stored, what is left for the
\* task it moves to.
LEMMA MovedOn ==
    ASSUME NEW t \in Task, t.lo >= t.from, NEW k, Remaining(t, k), ~InWindow(t, k),
           k.day \in Int
    PROVE  Remaining(Moved(t, Stop(t.lo, t.to)), k)
<1> DEFINE s == Stop(t.lo, t.to)
           u == Moved(t, s)
<1>1. /\ t.lo \in Int /\ t.from \in Int /\ t.to \in Int /\ Span \in Nat \ {0}
      /\ t.left \subseteq Point
  BY BackfillAssumption DEF Task, Day
<1>2. s \in Int /\ (s # t.to => s >= t.lo)
  BY <1>1 DEF Stop
<1> HIDE DEF s
<1>3. /\ u.left = IF s = t.to THEN t.left \ {t.point} ELSE t.left
      /\ u.lo = IF s = t.to THEN t.from ELSE s + 1
      /\ u.from = t.from /\ u.to = t.to /\ u.point = t.point
  BY DEF Moved, Task
<1>4. /\ k.point \in t.left /\ t.from <= k.day /\ k.day <= t.to
      /\ (t.lo > t.from /\ k.point = t.point) => t.lo <= k.day
  BY DEF Remaining, InRange
<1>5. k.point # t.point \/ k.day < t.lo \/ s < k.day
  BY <1>1, <1>2 DEF InWindow, InRange, s
<1> HIDE DEF u
<1>6. CASE k.point # t.point
  BY <1>1, <1>3, <1>4, <1>6 DEF Remaining, InRange, u, s
<1>7. CASE k.point = t.point
  <2>1. t.lo <= k.day
    BY <1>1, <1>4, <1>7
  <2>2. s < k.day /\ s # t.to
    BY <1>1, <1>2, <1>4, <1>5, <1>7, <2>1
  <2>3. u.left = t.left /\ u.lo = s + 1 /\ u.lo <= k.day
    BY <1>2, <1>3, <2>2
  <2>. QED  BY <1>3, <1>4, <2>3 DEF Remaining, InRange, u, s
<1>. QED  BY <1>6, <1>7

LEMMA MovedType ==
    ASSUME NEW t \in Task, t.lo >= t.from
    PROVE  LET u == Moved(t, Stop(t.lo, t.to))
           IN  /\ u \in Task /\ u.stage \in {"opening", "finishing"} /\ u.lo >= u.from
               /\ u.run = t.run /\ u.seen = t.seen
               /\ u.stage = "finishing" => u.left = {}
<1> DEFINE s == Stop(t.lo, t.to)
           u == Moved(t, s)
<1>1. /\ t.lo \in Int /\ t.from \in Int /\ t.to \in Int /\ Span \in Nat \ {0}
      /\ t.from \in Day /\ t.lo >= 1 /\ t.to <= LastDay /\ LastDay \in Nat
  BY BackfillAssumption DEF Task, Day
<1>2. s # t.to => s >= t.lo /\ s + 1 <= t.to /\ s + 1 \in Day /\ s + 1 >= t.from
  <2>1. s # t.to => s = t.lo + Span - 1 /\ s < t.to
    BY DEF Stop
  <2>. QED  BY <1>1, <2>1 DEF Day
<1> HIDE DEF s
<1>3. /\ u.left = IF s = t.to THEN t.left \ {t.point} ELSE t.left
      /\ u.lo = IF s = t.to THEN t.from ELSE s + 1
      /\ u.stage = IF s = t.to /\ t.left = {t.point} THEN "finishing" ELSE "opening"
      /\ u.from = t.from /\ u.run = t.run /\ u.seen = t.seen
  BY DEF Moved, Task
<1>4. u \in Task
  <2> DEFINE lo2 == IF s = t.to THEN t.from ELSE s + 1
             left2 == IF s = t.to THEN t.left \ {t.point} ELSE t.left
             stage2 == IF s = t.to /\ t.left = {t.point} THEN "finishing" ELSE "opening"
  <2>1. u = [[[t EXCEPT !.stage = stage2] EXCEPT !.left = left2] EXCEPT !.lo = lo2]
    BY DEF Moved, Task
  <2>2. lo2 \in Day /\ left2 \in SUBSET Point /\ stage2 \in {"opening", "finishing"}
    BY <1>1, <1>2 DEF Task
  <2> HIDE DEF lo2, left2, stage2
  <2>. QED  BY <2>1, <2>2 DEF Task
<1>. QED  BY <1>1, <1>2, <1>3, <1>4 DEF s

LEMMA StoreInv ==
    ASSUME IInv, NEW w \in Worker, Store(w)
    PROVE  IInv'
<1> DEFINE t == worker[w]
           b == [t EXCEPT !.seen = t.seen \/ reader.got # {}]
           m == Moved(b, Stop(b.lo, b.to))
<1>1. /\ t \in Task /\ t.stage = "reading" /\ worker \in [Worker -> Task] /\ WorkerInv(t)
      /\ reader.stage = "done" /\ Close /\ stored' = stored \cup reader.got
      /\ worker' = [worker EXCEPT ![w] = m]
      /\ UNCHANGED <<lock, state, published, log, begun>>
  BY DEF IInv, TypeOK, Store, At
<1>2. /\ b \in Task /\ b.lo = t.lo /\ b.to = t.to /\ b.from = t.from /\ b.point = t.point
      /\ b.run = t.run /\ b.left = t.left /\ b.seen = (t.seen \/ reader.got # {})
  BY <1>1 DEF Task
<1>3. t.run \in 1 .. MaxRuns /\ t.lo >= t.from /\ state.run = t.run
  BY <1>1 DEF WorkerInv
<1> HIDE DEF b
<1>4. /\ m \in Task /\ m.stage \in {"opening", "finishing"} /\ m.lo >= m.from /\ m.run = b.run
      /\ m.seen = b.seen /\ (m.stage = "finishing" => m.left = {})
  BY <1>2, <1>3, MovedType
<1>5. worker' \in [Worker -> Task] /\ worker'[w] = m /\ \A v \in Worker \ {w} : worker'[v] = worker[v]
  <2> HIDE DEF m
  <2>. QED  BY <1>1, <1>4
<1>6. ASSUME NEW k \in log[t.run].wanted
      PROVE  Remaining(m, k) \/ (k \in stored' /\ m.seen)
  <2>1. k.day \in Int
    <3>1. k \in Key
      BY <1>3 DEF IInv, RowsKnown, TypeOK
    <3>. QED  BY <3>1 DEF Key, Day
  <2>2. CASE k \in stored /\ t.seen
    <3> HIDE DEF m
    <3>. QED  BY <1>1, <1>2, <1>4, <2>2
  <2>3. CASE Remaining(t, k) /\ ~InWindow(t, k)
    <3>1. Remaining(b, k) /\ ~InWindow(b, k)
      BY <1>2, <2>3 DEF Remaining, InWindow, InRange
    <3>. QED  BY <1>2, <1>3, <2>1, <3>1, MovedOn
  <2>4. CASE InWindow(t, k)
    <3>1. k \in reader.got
      BY <1>1, <2>4 DEF WorkerInv, IInv, PagingInv, NeverTruncated
    <3> HIDE DEF m
    <3>. QED  BY <1>1, <1>2, <1>4, <3>1
  <2>5. Remaining(t, k) \/ (k \in stored /\ t.seen)
    BY <1>1 DEF WorkerInv, Loading
  <2>. QED  BY <2>2, <2>3, <2>4, <2>5
<1> HIDE DEF m
<1>7. (\A v \in Worker \ {w} : worker'[v].stage = "none") /\ lock
  BY <1>1, <1>5, OthersIdle DEF At
<1>8. OneAtATime'
  BY <1>1, <1>7, OneAfter
<1>9. Loading(worker[w])'
  <2>1. \A k \in log'[worker'[w].run].wanted :
           Remaining(worker'[w], k) \/ (k \in stored' /\ worker'[w].seen)
    BY <1>1, <1>2, <1>4, <1>5, <1>6
  <2>. QED  BY <2>1 DEF Loading, Remaining, InRange
<1>10. WorkerInv(worker[w])'
  BY <1>1, <1>2, <1>3, <1>4, <1>5, <1>9 DEF WorkerInv
<1>11. \A v \in Worker : WorkerInv(worker[v])'
  BY <1>7, <1>10, WorkersAfter
<1>12. /\ report' = <<>> /\ reader' \in Reader /\ reader'.got = {} /\ PagingInv'
       /\ Content(report)' = {}
  BY <1>1, CloseStep
<1>13. stored' \subseteq published /\ RowsKnown'
  BY <1>1, <1>12 DEF IInv, TypeOK, RowsKnown
<1>14. TypeOK'
  <2>1. report' \in Seq(Key)
    BY <1>12
  <2>. QED  BY <1>1, <1>5, <1>12, <1>13, <2>1 DEF IInv, TypeOK
<1>15. FinishedIsLoaded' /\ AnswersAgree'
  BY <1>1 DEF IInv, FinishedIsLoaded, AnswersAgree
<1>16. Ended'
  <2>1. ~state.finished
    BY <1>1 DEF IInv, Ended
  <2>. QED  BY <1>1, <2>1 DEF Ended
<1>. QED  BY <1>8, <1>11, <1>12, <1>13, <1>14, <1>15, <1>16 DEF IInv

\* A step that leaves the tables alone and tells nobody of an end.
LEMMA FailingInv ==
    ASSUME IInv, NEW w \in Worker, worker[w].stage \in {"reading", "finishing"},
           Goto(w, "failing"), UNCHANGED <<lock, state, published, stored, log, begun>>,
           PagingInv', PagingType', RowsKnown'
    PROVE  IInv'
<1>1. /\ worker' \in [Worker -> Task] /\ OneAtATime' /\ \A v \in Worker : WorkerInv(worker[v])'
  BY Leaves DEF At
<1>2. TypeOK'
  BY <1>1 DEF IInv, TypeOK, PagingType
<1>3. Ended'
  BY DEF IInv, Ended
<1>4. FinishedIsLoaded' /\ AnswersAgree'
  BY DEF IInv, FinishedIsLoaded, AnswersAgree
<1>. QED  BY <1>1, <1>2, <1>3, <1>4 DEF IInv

LEMMA LoadFailsInv ==
    ASSUME IInv, NEW w \in Worker, LoadFails(w)
    PROVE  IInv'
<1>1. /\ worker[w].stage = "reading" /\ Goto(w, "failing") /\ Close
      /\ UNCHANGED <<lock, state, published, stored, log, begun>>
  BY DEF LoadFails, At
<1>2. /\ report' = <<>> /\ reader' \in Reader /\ reader'.got = {} /\ PagingInv'
      /\ Content(report)' = {}
  BY <1>1, CloseStep
<1>3. PagingType'
  <2>1. report' \in Seq(Key)
    BY <1>2
  <2>. QED  BY <1>2, <2>1 DEF PagingType
<1>4. RowsKnown'
  BY <1>1, <1>2 DEF IInv, RowsKnown
<1>. QED  BY <1>1, <1>2, <1>3, <1>4, FailingInv

\* The ends of the try and of its handler: one run's row and _state.
LEMMA EndInv ==
    ASSUME IInv, NEW w \in Worker, worker[w].stage \in {"finishing", "failing"},
           Goto(w, "unmarking"), NEW s \in {"ok", "empty", "error"},
           log' = [log EXCEPT ![worker[w].run].status = s],
           state' = [state EXCEPT !.finished = TRUE, !.error = (s = "error")],
           s # "error" => log[worker[w].run].wanted \subseteq stored,
           s = "empty" => log[worker[w].run].wanted = {},
           UNCHANGED <<ercot, lock, published, stored, begun>>
    PROVE  IInv'
<1> DEFINE n == worker[w].run
<1>0. /\ log \in [1 .. MaxRuns -> Run] /\ n \in 1 .. MaxRuns /\ state.run = n
      /\ state \in [running : BOOLEAN, finished : BOOLEAN, error : BOOLEAN, run : 0 .. MaxRuns]
  BY DEF IInv, TypeOK, WorkerInv
<1>1. UNCHANGED <<report, reader>>
  BY DEF ercot
<1>2. /\ state' \in [running : BOOLEAN, finished : BOOLEAN, error : BOOLEAN, run : 0 .. MaxRuns]
      /\ state'.run = n /\ state'.finished /\ (state'.error <=> s = "error")
  BY <1>0
<1>3. /\ worker' \in [Worker -> Task] /\ OneAtATime'
      /\ (\A v \in Worker : WorkerInv(worker[v])') /\ worker'[w].stage = "unmarking"
      /\ \A v \in Worker \ {w} : worker'[v].stage = "none"
  <2>1. state'.run = state.run
    BY <1>0, <1>2
  <2>. QED  BY <2>1, Leaves DEF At
<1>4. /\ log' \in [1 .. MaxRuns -> Run] /\ log'[n].status = s
      /\ \A m \in 1 .. MaxRuns : log'[m].wanted = log[m].wanted
      /\ \A m \in 1 .. MaxRuns \ {n} : log'[m].status = log[m].status
  BY <1>0 DEF Run
<1>5. TypeOK'
  BY <1>1, <1>2, <1>3, <1>4 DEF IInv, TypeOK
<1>6. PagingInv'
  BY <1>1 DEF IInv, PagingInv, NeverTruncated, Ahead
<1>7. RowsKnown'
  BY <1>1, <1>4 DEF IInv, RowsKnown, Content
<1>8. FinishedIsLoaded'
  <2> HIDE DEF n
  <2>1. SUFFICES ASSUME NEW m \in 1 .. MaxRuns
                 PROVE  /\ log'[m].status \in {"ok", "empty"} => log'[m].wanted \subseteq stored'
                        /\ log'[m].status = "empty" => log'[m].wanted = {}
    BY DEF FinishedIsLoaded
  <2>2. CASE m = n
    BY <1>0, <1>4, <2>2 DEF n
  <2>3. CASE m # n
    BY <1>4, <2>3 DEF IInv, FinishedIsLoaded
  <2>. QED  BY <2>2, <2>3
<1>9. Ended' /\ AnswersAgree'
  <2>1. Ended'
    BY <1>0, <1>2, <1>3 DEF Ended
  <2>2. AnswersAgree'
    BY <1>2, <1>4 DEF AnswersAgree
  <2>. QED  BY <2>1, <2>2
<1>. QED  BY <1>3, <1>5, <1>6, <1>7, <1>8, <1>9 DEF IInv

LEMMA FinishInv ==
    ASSUME IInv, NEW w \in Worker, Finish(w)
    PROVE  IInv'
<1> DEFINE t == worker[w]
           s == IF t.seen THEN "ok" ELSE "empty"
<1>1. /\ t.stage = "finishing" /\ Goto(w, "unmarking")
      /\ log' = [log EXCEPT ![t.run].status = s]
      /\ state' = [state EXCEPT !.finished = TRUE, !.error = FALSE]
      /\ UNCHANGED <<ercot, lock, published, stored, begun>>
  BY DEF Finish, At
<1>2. \A k \in log[t.run].wanted : k \in stored /\ t.seen
  <2>1. WorkerInv(t)
    BY DEF IInv
  <2>2. \A k : ~Remaining(t, k)
    BY <1>1, <2>1 DEF WorkerInv, Remaining, InRange
  <2>. QED  BY <1>1, <2>1, <2>2 DEF WorkerInv, Loading
<1>3. s \in {"ok", "empty"} /\ (s = "error") = FALSE
  OBVIOUS
<1>4. s = "empty" => log[t.run].wanted = {}
  BY <1>2
<1>5. log[t.run].wanted \subseteq stored
  BY <1>2
<1> HIDE DEF s
<1>6. state' = [state EXCEPT !.finished = TRUE, !.error = (s = "error")]
  BY <1>1, <1>3
<1>. QED  BY <1>1, <1>3, <1>4, <1>5, <1>6, EndInv

LEMMA FailInv ==
    ASSUME IInv, NEW w \in Worker, Fail(w)
    PROVE  IInv'
<1>1. /\ worker[w].stage = "failing" /\ Goto(w, "unmarking")
      /\ log' = [log EXCEPT ![worker[w].run].status = "error"]
      /\ state' = [state EXCEPT !.finished = TRUE, !.error = TRUE]
      /\ UNCHANGED <<ercot, lock, published, stored, begun>>
  BY DEF Fail, At
<1>2. state' = [state EXCEPT !.finished = TRUE, !.error = ("error" = "error")]
  BY <1>1
<1>. QED  BY <1>1, <1>2, EndInv

LEMMA FinishRaisesInv ==
    ASSUME IInv, NEW w \in Worker, FinishRaises(w)
    PROVE  IInv'
<1>1. /\ worker[w].stage = "finishing" /\ Goto(w, "failing")
      /\ UNCHANGED <<report, reader, lock, state, published, stored, log, begun>>
  BY DEF FinishRaises, At, ercot
<1>2. PagingInv' /\ PagingType' /\ RowsKnown'
  BY <1>1 DEF IInv, TypeOK, PagingInv, NeverTruncated, Ahead, PagingType, RowsKnown, Content
<1>. QED  BY <1>1, <1>2, FailingInv

\* The end of a thread: only its stage and "running" change.
LEMMA UnwindInv ==
    ASSUME IInv, NEW w \in Worker, NEW s \in {"unmarking", "releasing"},
           worker[w].stage \in {"failing", "unmarking"}, Goto(w, s),
           state' \in [running : BOOLEAN, finished : BOOLEAN, error : BOOLEAN, run : 0 .. MaxRuns],
           state'.run = state.run, state'.finished = state.finished, state'.error = state.error,
           UNCHANGED <<ercot, lock, published, stored, log, begun>>
    PROVE  IInv'
<1>1. /\ worker' \in [Worker -> Task] /\ OneAtATime'
      /\ (\A v \in Worker : WorkerInv(worker[v])') /\ worker'[w].stage = s
      /\ \A v \in Worker \ {w} : worker'[v].stage = "none"
  BY Leaves DEF At
<1>2. UNCHANGED <<report, reader>>
  BY DEF ercot
<1>3. TypeOK'
  BY <1>1, <1>2 DEF IInv, TypeOK
<1>4. PagingInv' /\ RowsKnown' /\ FinishedIsLoaded'
  BY <1>2 DEF IInv, PagingInv, NeverTruncated, Ahead, RowsKnown, Content, FinishedIsLoaded
<1>5. AnswersAgree' /\ Ended'
  BY <1>1 DEF IInv, AnswersAgree, Ended
<1>. QED  BY <1>1, <1>3, <1>4, <1>5 DEF IInv

LEMMA FailRaisesInv ==
    ASSUME IInv, NEW w \in Worker, FailRaises(w)
    PROVE  IInv'
  BY UnwindInv DEF FailRaises, At, IInv, TypeOK

LEMMA UnmarkInv ==
    ASSUME IInv, NEW w \in Worker, Unmark(w)
    PROVE  IInv'
<1>1. /\ state \in [running : BOOLEAN, finished : BOOLEAN, error : BOOLEAN, run : 0 .. MaxRuns]
      /\ state' = [state EXCEPT !.running = FALSE]
  BY DEF Unmark, IInv, TypeOK
<1>2. /\ state' \in [running : BOOLEAN, finished : BOOLEAN, error : BOOLEAN, run : 0 .. MaxRuns]
      /\ state'.run = state.run /\ state'.finished = state.finished /\ state'.error = state.error
  BY <1>1
<1>. QED  BY <1>2, UnwindInv DEF Unmark, At

LEMMA PublishInv ==
    ASSUME IInv, NEW k \in Late, Publish(k)
    PROVE  IInv'
<1>1. /\ published' = published \cup {k} /\ k \in Key
      /\ UNCHANGED <<lock, state, worker, stored, log, begun>>
  BY BackfillAssumption DEF Publish
<1>2. PagingType /\ PagingInv /\ RowsKnown
  BY DEF IInv, TypeOK, PagingType
<1>3. /\ PagingType' /\ PagingInv' /\ reader' = reader
      /\ Content(report)' \subseteq Content(report) \cup {k}
  <2>1. CASE \E i \in 1 .. Len(report) + 1 : Insert(k, i)
    BY <1>1, <1>2, <2>1, InsertStep
  <2>2. CASE UNCHANGED ercot
    BY <1>2, <2>2 DEF ercot, PagingType, PagingInv, NeverTruncated, Ahead, Content
  <2>. QED  BY <2>1, <2>2 DEF Publish
<1>4. TypeOK'
  BY <1>1, <1>3 DEF IInv, TypeOK, PagingType
<1>5. RowsKnown'
  <2>1. IsFiniteSet(published')
    BY <1>1, <1>2, FS_AddElement DEF RowsKnown
  <2>. QED  BY <1>1, <1>2, <1>3, <2>1 DEF RowsKnown
<1>6. \A v \in Worker : WorkerInv(worker[v])'
  BY <1>1, <1>3 DEF IInv, WorkerInv, Loading, Remaining, InWindow, InRange, Stop
<1>7. OneAtATime' /\ Ended' /\ FinishedIsLoaded' /\ AnswersAgree'
  BY <1>1 DEF IInv, OneAtATime, At, Ended, FinishedIsLoaded, AnswersAgree
<1>. QED  BY <1>3, <1>4, <1>5, <1>6, <1>7 DEF IInv

LEMMA RestartInv == ASSUME IInv, Restart PROVE IInv'
<1>1. /\ lock' = FALSE /\ state' = NoState /\ worker' = [w \in Worker |-> Idle]
      /\ report' = <<>> /\ reader' = NoReader
      /\ UNCHANGED <<published, stored, log, begun>>
  BY DEF Restart
<1>2. Idle \in Task /\ Idle.stage = "none"
  <2>1. (CHOOSE p \in Point : TRUE) \in Point
    BY BackfillAssumption
  <2>. QED  BY <2>1, BackfillAssumption DEF Idle, Task, Day
<1>3. NoReader \in Reader /\ NoReader.stage = "idle" /\ NoReader.got = {}
  BY PagingAssumption DEF NoReader, Reader
<1>4. NoState \in [running : BOOLEAN, finished : BOOLEAN, error : BOOLEAN, run : 0 .. MaxRuns]
      /\ ~NoState.finished
  BY BackfillAssumption DEF NoState
<1>5. report' \in Seq(Key) /\ Content(report)' = {}
  BY <1>1 DEF Content
<1>6. TypeOK'
  BY <1>1, <1>2, <1>3, <1>4, <1>5 DEF IInv, TypeOK
<1>7. PagingInv' /\ RowsKnown'
  BY <1>1, <1>3, <1>5 DEF IInv, PagingInv, NeverTruncated, RowsKnown
<1>8. OneAtATime' /\ Ended' /\ AnswersAgree' /\ \A w \in Worker : WorkerInv(worker[w])'
  BY <1>1, <1>2, <1>4 DEF OneAtATime, At, Ended, AnswersAgree, WorkerInv
<1>9. FinishedIsLoaded'
  BY <1>1 DEF IInv, FinishedIsLoaded
<1>. QED  BY <1>6, <1>7, <1>8, <1>9 DEF IInv

LEMMA NextIInv == IInv /\ [Next]_vars => IInv'
<1>. SUFFICES ASSUME IInv, [Next]_vars PROVE IInv'
  OBVIOUS
<1>1. CASE UNCHANGED vars
  <2>1. UNCHANGED <<report, reader, lock, state, worker, published, stored, log, begun>>
    BY <1>1 DEF vars, ercot
  <2>2. TypeOK' /\ PagingInv' /\ RowsKnown' /\ OneAtATime' /\ Ended'
    BY <2>1 DEF IInv, TypeOK, PagingInv, NeverTruncated, Ahead, RowsKnown, Content, OneAtATime, At,
                Ended
  <2>3. (\A w \in Worker : WorkerInv(worker[w])') /\ FinishedIsLoaded' /\ AnswersAgree'
    BY <2>1 DEF IInv, WorkerInv, Loading, Remaining, InWindow, InRange, Stop, FinishedIsLoaded,
                AnswersAgree
  <2>. QED  BY <2>2, <2>3 DEF IInv
<1>2. ASSUME NEW w \in Worker, NEW q \in Request, Start(w, q) PROVE IInv'
  BY <1>2, StartInv
<1>3. ASSUME NEW w \in Worker, RunSteps(w) PROVE IInv'
  <2>1. CASE StartRun(w)
    BY <2>1, StartRunInv
  <2>2. CASE StartRunRaises(w)
    <3>1. lock' \in BOOLEAN
      BY <2>2 DEF StartRunRaises, IInv, TypeOK
    <3>. QED  BY <2>2, <3>1, GoneInv DEF StartRunRaises, At, ercot
  <2>3. CASE OpenWindow(w)
    BY <2>3, OpenWindowInv
  <2>4. CASE ReadPage(w)
    BY <2>4, ReadPageInv
  <2>5. CASE Store(w)
    BY <2>5, StoreInv
  <2>6. CASE LoadFails(w)
    BY <2>6, LoadFailsInv
  <2>7. CASE Finish(w)
    BY <2>7, FinishInv
  <2>8. CASE FinishRaises(w)
    BY <2>8, FinishRaisesInv
  <2>9. CASE Fail(w)
    BY <2>9, FailInv
  <2>10. CASE FailRaises(w)
    BY <2>10, FailRaisesInv
  <2>11. CASE Unmark(w)
    BY <2>11, UnmarkInv
  <2>12. CASE Release(w)
    BY <2>12, GoneInv DEF Release, At, ercot
  <2>. QED
    BY <1>3, <2>1, <2>2, <2>3, <2>4, <2>5, <2>6, <2>7, <2>8, <2>9, <2>10, <2>11, <2>12 DEF RunSteps
<1>4. ASSUME NEW k \in Late, Publish(k) PROVE IInv'
  BY <1>4, PublishInv
<1>5. CASE Restart
  BY <1>5, RestartInv
<1>. QED  BY <1>1, <1>2, <1>3, <1>4, <1>5 DEF Next

-----------------------------------------------------------------------------
\* The inductive invariant holds in every state.
LEMMA Invariance == Spec => []IInv
  BY InitIInv, NextIInv, PTL DEF Spec

\* rows() returns with everything the report held when it was opened, whatever is
\* published meanwhile (client.py: rows), for every page size and page cap.
THEOREM PagesAreComplete == Spec => []NeverTruncated
<1>1. IInv => NeverTruncated
  BY DEF IInv, PagingInv
<1>. QED  BY <1>1, Invariance, PTL

\* A backfill that says ok or empty has stored all that its range held when it
\* began (backfill.py: _windows, _run), for every range, window and set of points.
THEOREM LoadsAreComplete == Spec => []FinishedIsLoaded
<1>1. IInv => FinishedIsLoaded
  BY DEF IInv
<1>. QED  BY <1>1, Invariance, PTL

\* GET /backfill and ingest_runs never tell of different ends (backfill.py: _run).
THEOREM AnswersDoAgree == Spec => []AnswersAgree
<1>1. IInv => AnswersAgree
  BY DEF IInv
<1>. QED  BY <1>1, Invariance, PTL

\* There is never more than one load under way, nor one without the lock
\* (backfill.py: start, _run), whichever step raises.
THEOREM OneLoadAtATime == Spec => []OneAtATime
<1>1. IInv => OneAtATime
  BY DEF IInv
<1>. QED  BY <1>1, Invariance, PTL

-----------------------------------------------------------------------------
(* The lock is held by somebody, unless start_run can raise.               *)

LEMMA HeldStep ==
    ASSUME "start_run" \notin Faults, IInv, RefusedForARun, [Next]_vars
    PROVE  RefusedForARun'
<1>. worker \in [Worker -> Task]
  BY DEF IInv, TypeOK
<1>1. ASSUME NEW w \in Worker, NEW s \in {"opening", "reading", "failing", "unmarking", "releasing"},
             worker'[w].stage = s
      PROVE  RefusedForARun'
  BY <1>1 DEF RefusedForARun, At
<1>2. ASSUME UNCHANGED <<lock, worker>> PROVE RefusedForARun'
  BY <1>2 DEF RefusedForARun, At
<1>3. ASSUME NEW w \in Worker, NEW q \in Request, Start(w, q) PROVE RefusedForARun'
  <2>1. worker'[w].stage = "starting"
    BY <1>3 DEF Start, Begin, Idle
  <2>. QED  BY <2>1 DEF RefusedForARun, At
<1>4. ASSUME NEW w \in Worker, RunSteps(w) PROVE RefusedForARun'
  <2>1. ASSUME NEW s \in {"opening", "reading", "failing", "unmarking", "releasing"}, Goto(w, s)
        PROVE  RefusedForARun'
    <3>1. worker'[w].stage = s
      BY <2>1 DEF Goto, Task
    <3>. QED  BY <1>1, <3>1
  <2>2. CASE StartRun(w)
    BY <2>1, <2>2 DEF StartRun
  <2>3. CASE StartRunRaises(w)
    BY <2>3 DEF StartRunRaises
  <2>4. CASE OpenWindow(w)
    <3>1. PICK p \in worker[w].left : worker' = [worker EXCEPT ![w].stage = "reading", ![w].point = p]
      BY <2>4 DEF OpenWindow
    <3>2. worker'[w].stage = "reading"
      BY <3>1 DEF Task
    <3>. QED  BY <1>1, <3>2
  <2>5. CASE ReadPage(w)
    BY <1>2, <2>5 DEF ReadPage
  <2>6. CASE Store(w)
    <3> DEFINE b == [worker[w] EXCEPT !.seen = worker[w].seen \/ reader.got # {}]
    <3>1. b \in Task /\ b.lo >= b.from
      <4>1. worker[w] \in Task /\ worker[w].lo >= worker[w].from
        BY <2>6 DEF IInv, WorkerInv, Store, At
      <4>. QED  BY <4>1 DEF Task
    <3>2. worker' = [worker EXCEPT ![w] = Moved(b, Stop(b.lo, b.to))]
      BY <2>6 DEF Store
    <3> HIDE DEF b
    <3>3. worker'[w].stage \in {"opening", "finishing"}
      BY <3>1, <3>2, MovedType
    <3>. QED  BY <3>3 DEF RefusedForARun, At
  <2>7. CASE LoadFails(w)
    BY <2>1, <2>7 DEF LoadFails
  <2>8. CASE Finish(w) \/ Fail(w) \/ FailRaises(w)
    BY <2>1, <2>8 DEF Finish, Fail, FailRaises
  <2>9. CASE FinishRaises(w)
    BY <2>1, <2>9 DEF FinishRaises
  <2>10. CASE Unmark(w)
    BY <2>1, <2>10 DEF Unmark
  <2>11. CASE Release(w)
    BY <2>11 DEF Release, RefusedForARun
  <2>. QED
    BY <1>4, <2>2, <2>3, <2>4, <2>5, <2>6, <2>7, <2>8, <2>9, <2>10, <2>11 DEF RunSteps
<1>5. ASSUME NEW k \in Late, Publish(k) PROVE RefusedForARun'
  BY <1>2, <1>5 DEF Publish
<1>6. CASE Restart
  BY <1>6 DEF Restart, RefusedForARun
<1>7. CASE UNCHANGED vars
  BY <1>2, <1>7 DEF vars
<1>. QED  BY <1>3, <1>4, <1>5, <1>6, <1>7 DEF Next

\* The backfill's lock, state and rows keep their types (backfill.py: start, _run),
\* and nothing is stored that ERCOT did not publish.
THEOREM LoadTypes == Spec => []TypeOK
<1>1. IInv => TypeOK
  BY DEF IInv
<1>. QED  BY <1>1, Invariance, PTL DEF Spec

\* A start is refused only for a load under way (backfill.py: start, _run), if
\* start_run and the client's constructor never raise.  Without that assumption
\* the run backfill_leak refutes it.
THEOREM LockIsAThread ==
    ASSUME "start_run" \notin Faults
    PROVE  Spec => []RefusedForARun
<1>1. Init => RefusedForARun
  BY DEF Init, RefusedForARun
<1>2. IInv /\ RefusedForARun /\ [Next]_vars => RefusedForARun'
  BY HeldStep
<1>. QED  BY <1>1, <1>2, Invariance, PTL DEF Spec

=============================================================================
