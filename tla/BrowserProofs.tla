--------------------------- MODULE BrowserProofs ---------------------------
(* Proofs about the browser. For any targets, snapshots and bounds: that   *)
(* rows on screen never go back to an older snapshot and that a tab at     *)
(* rest shows the rows the panel reports (public/explorer.js, worker.js,   *)
(* app.js); for any edits and changes from elsewhere, that a draft         *)
(* announces what it would overwrite (public/query.js); and, for any rows  *)
(* of jobs and any controls, that the Step timeline tab says of its runs   *)
(* and steps what all their jobs say, opens every run it lists on a job,   *)
(* and offers what its options do (shared/steps.mjs).                      *)
EXTENDS Explorer, QueryEditor, Steps, FiniteSetTheorems, SequenceTheorems,
        WellFoundedInduction, TLAPS

(* Snapshots of rows, and the panel states that name them.                 *)
Rows == Targets \X Nat
Statuses == {"idle", "loading", "ready", "error"}
States == [target : Targets, status : Statuses, rows : Rows]

ServerType(s) ==
    s \in [target : Targets, asked : BOOLEAN,
           entry : [Targets -> [status : Statuses, revision : Nat]]]
Revision(s, of) == s.entry[of[1]].revision
Known(st, s) == st \in States /\ st.rows[2] <= Revision(s, st.rows)

ViewType(v) ==
    /\ v = [loaded |-> v.loaded, fetching |-> v.fetching, snapshot |-> v.snapshot,
            aggregate |-> v.aggregate, page |-> v.page, status |-> v.status,
            filters |-> v.filters, offset |-> v.offset, aggregateSeq |-> v.aggregateSeq,
            pageSeq |-> v.pageSeq, fetchSeq |-> v.fetchSeq]
    /\ v.loaded \in Rows \union {None} /\ v.fetching \in Rows \union {None}
    /\ v.filters \in Nat /\ v.offset \in Nat
    /\ v.aggregateSeq \in Nat /\ v.pageSeq \in Nat /\ v.fetchSeq \in Nat

---------------------------------------------------------------------------
(* The worker does what it is asked in order. Its jobs are the requests it *)
(* has not answered, or whose answers were not taken, each with the rows   *)
(* it is answered over.                                                    *)
Messages ==
    [type : {"load"}, of : Rows, seq : Nat] \union [type : {"release"}]
    \union [type : {"aggregate"}, seq : Nat, filters : Nat]
    \union [type : {"page"}, seq : Nat, filters : Nat, offset : Nat]
Answers == [request : Messages, rows : Rows \union {None}]

WorkerType(w) ==
    w \in [rows : Rows \union {None}, inbox : Seq(Messages), outbox : Seq(Answers),
           sent : Rows \union {None}]

(* over[i]: the rows held once the first i messages are done.              *)
InOrder(w, over) ==
    /\ over \in [0 .. Len(w.inbox) -> Rows \union {None}]
    /\ over[0] = w.rows /\ over[Len(w.inbox)] = w.sent
    /\ \A i \in 1 .. Len(w.inbox) : over[i] = Effect(w.inbox[i], over[i - 1])

Waiting(w, over) == {[request |-> w.inbox[i], rows |-> over[i]] : i \in 1 .. Len(w.inbox)}
Answered(w) == {w.outbox[i] : i \in 1 .. Len(w.outbox)}

Tracks(w, jobs) ==
    /\ WorkerType(w)
    /\ \E over : InOrder(w, over) /\ jobs = Waiting(w, over) \union Answered(w)

(* The worker after it has done its oldest message, and after its oldest   *)
(* answer was taken.                                                       *)
Done(w) ==
    LET effect == Effect(Head(w.inbox), w.rows) IN
    [w EXCEPT !.rows = effect, !.inbox = Tail(@),
              !.outbox = Append(@, [request |-> Head(w.inbox), rows |-> effect])]
Taken(w) == [w EXCEPT !.outbox = Tail(@)]
Oldest(w) == Head(w.outbox)

(* What is left of a sequence, and what it becomes.                        *)
Shortens(S, seq) ==
    \E n \in Nat, rest \in Seq(S) :
        /\ rest = Tail(seq) /\ Head(seq) = seq[1] /\ seq[1] \in S
        /\ Len(seq) = n + 1 /\ Len(rest) = n
        /\ \A i \in 1 .. n : rest[i] = seq[i + 1]
Lengthens(S, seq, e) ==
    \E n \in Nat, more \in Seq(S) :
        /\ more = Append(seq, e)
        /\ Len(seq) = n /\ Len(more) = n + 1 /\ more[n + 1] = e
        /\ \A i \in 1 .. n : more[i] = seq[i]

LEMMA Shortened ==
    ASSUME NEW S, NEW seq \in Seq(S), seq # <<>>
    PROVE  Shortens(S, seq)
<1>1. Len(seq) \in Nat /\ Len(seq) # 0
  <2>1. Len(seq) \in Nat \ {0}
    BY EmptySeq, ZenonT(60)
  <2> QED BY <2>1
<1>2. PICK n \in Nat : Len(seq) = n + 1
  <2>1. Len(seq) - 1 \in Nat /\ Len(seq) = (Len(seq) - 1) + 1
    BY <1>1
  <2> QED BY <2>1
<1>3. PICK rest \in Seq(S) :
        /\ rest = Tail(seq) /\ Len(rest) = Len(seq) - 1
        /\ \A i \in 1 .. Len(rest) : rest[i] = seq[i + 1]
  BY HeadTailProperties
<1>4. Len(rest) = n
  BY <1>2, <1>3
<1>5. Head(seq) = seq[1] /\ seq[1] \in S
  BY <1>2
<1>6. /\ rest = Tail(seq) /\ Head(seq) = seq[1] /\ seq[1] \in S
      /\ Len(seq) = n + 1 /\ Len(rest) = n
      /\ \A i \in 1 .. n : rest[i] = seq[i + 1]
  BY <1>2, <1>3, <1>4, <1>5
<1> QED BY <1>6, Zenon DEF Shortens

LEMMA Lengthened ==
    ASSUME NEW S, NEW seq \in Seq(S), NEW e \in S
    PROVE  Lengthens(S, seq, e)
<1>1. PICK n \in Nat : n = Len(seq)
  OBVIOUS
<1>2. PICK more : more = Append(seq, e)
  OBVIOUS
<1>3. /\ more \in Seq(S) /\ Len(more) = Len(seq) + 1 /\ more[Len(seq) + 1] = e
      /\ \A i \in 1 .. Len(seq) : more[i] = seq[i]
  BY <1>2, AppendProperties
<1> QED BY <1>1, <1>2, <1>3 DEF Lengthens

(* A place of a shorter box, beside the one before it and the one after it. *)
LEMMA Neighbours ==
  ASSUME NEW n \in Nat, NEW i \in 1 .. n
  PROVE  /\ i \in 0 .. n /\ i - 1 \in 0 .. n /\ (i - 1) + 1 = i
         /\ i + 1 \in 1 .. n + 1 /\ (i + 1) - 1 = i
OBVIOUS

(* The places of a box that is one longer. *)
LEMMA LongerRange ==
  ASSUME NEW n \in Nat
  PROVE  1 .. n + 1 = (1 .. n) \union {n + 1}
<1>1. \A i : i \in 1 .. n + 1 <=> i \in 1 .. n \/ i = n + 1
  OBVIOUS
<1> QED BY <1>1, Zenon

LEMMA EffectsAreRows ==
    ASSUME NEW m \in Messages, NEW rows \in Rows \union {None}
    PROVE  Effect(m, rows) \in Rows \union {None}
BY DEF Messages, Effect

LEMMA AskingAddsAJob ==
    ASSUME NEW w, NEW jobs, Tracks(w, jobs), NEW m \in Messages,
           NEW x, x = AskRows(w, m)
    PROVE  /\ x.sent = Effect(m, w.sent)
           /\ Tracks(x, jobs \union {[request |-> m, rows |-> Effect(m, w.sent)]})
<1>1. WorkerType(w)
  BY DEF Tracks
<1>2. PICK over : InOrder(w, over) /\ jobs = Waiting(w, over) \union Answered(w)
  BY DEF Tracks
<1>3. /\ x.rows = w.rows /\ x.inbox = Append(w.inbox, m) /\ x.outbox = w.outbox
      /\ x.sent = Effect(m, w.sent) /\ WorkerType(x)
  <2>1. PICK effect \in Rows \union {None} : effect = Effect(m, w.sent)
    BY <1>1, EffectsAreRows DEF WorkerType
  <2>2. w.inbox \in Seq(Messages)
    BY <1>1 DEF WorkerType
  <2>3. PICK inbox \in Seq(Messages) : inbox = Append(w.inbox, m)
    BY <2>2, AppendProperties
  <2>4. x = [w EXCEPT !.inbox = inbox, !.sent = effect]
    BY <2>1, <2>3 DEF AskRows
  <2> QED BY <1>1, <2>1, <2>3, <2>4 DEF WorkerType
<1>4. PICK n \in Nat : n = Len(w.inbox)
  BY <1>1 DEF WorkerType
<1>5. /\ Len(x.inbox) = n + 1 /\ x.inbox[n + 1] = m
      /\ \A i \in 1 .. n : x.inbox[i] = w.inbox[i]
  BY <1>1, <1>3, <1>4 DEF WorkerType
<1> DEFINE longer == [i \in 0 .. n + 1 |-> IF i = n + 1 THEN Effect(m, w.sent) ELSE over[i]]
<1>6. /\ \A i \in 0 .. n : longer[i] = over[i]
      /\ longer[n + 1] = Effect(m, w.sent)
      /\ longer \in [0 .. n + 1 -> Rows \union {None}]
  BY <1>1, <1>2, <1>4, EffectsAreRows DEF InOrder, WorkerType
<1> HIDE DEF longer
<1>7. InOrder(x, longer)
  <2>1. longer[0] = w.rows /\ longer[n] = w.sent
    BY <1>2, <1>4, <1>6 DEF InOrder
  <2>2. ASSUME NEW i \in 1 .. n + 1 PROVE longer[i] = Effect(x.inbox[i], longer[i - 1])
    <3>1. CASE i = n + 1
      BY <1>4, <1>5, <1>6, <2>1, <3>1
    <3>2. CASE i \in 1 .. n
      BY <1>2, <1>4, <1>5, <1>6, <3>2 DEF InOrder
    <3> QED BY <1>4, <3>1, <3>2
  <2> QED BY <1>3, <1>5, <1>6, <2>1, <2>2 DEF InOrder
<1>8. Waiting(x, longer) = Waiting(w, over) \union {[request |-> m, rows |-> Effect(m, w.sent)]}
  <2>1. \A i \in 1 .. n : [request |-> x.inbox[i], rows |-> longer[i]] = [request |-> w.inbox[i], rows |-> over[i]]
    BY <1>4, <1>5, <1>6
  <2>2. [request |-> x.inbox[n + 1], rows |-> longer[n + 1]] = [request |-> m, rows |-> Effect(m, w.sent)]
    BY <1>5, <1>6
  <2>3. Waiting(x, longer) = {[request |-> x.inbox[i], rows |-> longer[i]] : i \in 1 .. n}
                             \union {[request |-> x.inbox[n + 1], rows |-> longer[n + 1]]}
    <3>1. 1 .. n + 1 = (1 .. n) \union {n + 1}
      BY <1>4
    <3> QED BY <1>5, <3>1 DEF Waiting
  <2>4. {[request |-> x.inbox[i], rows |-> longer[i]] : i \in 1 .. n} = Waiting(w, over)
    BY <1>4, <2>1 DEF Waiting
  <2> QED BY <2>2, <2>3, <2>4
<1>9. Answered(x) = Answered(w)
  BY <1>3 DEF Answered
<1> QED BY <1>2, <1>3, <1>7, <1>8, <1>9 DEF Tracks

LEMMA WorkKeepsTheJobs ==
    ASSUME NEW w, NEW jobs, Tracks(w, jobs), w.inbox # <<>>,
           NEW x, x = Done(w)
    PROVE  x.sent = w.sent /\ Tracks(x, jobs)
<1>1. WorkerType(w)
  BY DEF Tracks
<1>2. PICK over : InOrder(w, over) /\ jobs = Waiting(w, over) \union Answered(w)
  BY DEF Tracks
<1>3. PICK inbox \in Seq(Messages) : inbox = w.inbox /\ inbox # <<>>
  BY <1>1 DEF WorkerType
<1>4. PICK n \in Nat, rest \in Seq(Messages), m \in Messages :
        /\ m = Head(w.inbox) /\ m = w.inbox[1] /\ rest = Tail(w.inbox)
        /\ Len(w.inbox) = n + 1 /\ Len(rest) = n
        /\ \A i \in 1 .. n : rest[i] = w.inbox[i + 1]
  <2>1. Shortens(Messages, inbox)
    BY <1>3, Shortened
  <2> QED BY <1>3, <2>1 DEF Shortens
<1>5. PICK answer : answer = [request |-> m, rows |-> Effect(m, w.rows)]
  OBVIOUS
<1>6. answer \in Answers /\ answer.rows = over[1]
  <2>1. over[1] = Effect(m, over[0]) /\ over[0] = w.rows
    BY <1>2, <1>4 DEF InOrder
  <2> QED BY <1>1, <1>4, <1>5, <2>1, EffectsAreRows DEF Answers, WorkerType
<1>7. PICK outbox \in Seq(Answers) :
        /\ outbox = Append(w.outbox, answer) /\ Len(outbox) = Len(w.outbox) + 1
        /\ outbox[Len(w.outbox) + 1] = answer
        /\ \A i \in 1 .. Len(w.outbox) : outbox[i] = w.outbox[i]
  <2>1. PICK before \in Seq(Answers) : before = w.outbox
    BY <1>1 DEF WorkerType
  <2>2. Lengthens(Answers, before, answer)
    BY <1>6, <2>1, Lengthened
  <2> QED BY <2>1, <2>2 DEF Lengthens
<1>8. /\ x.rows = over[1] /\ x.inbox = rest /\ x.outbox = outbox
      /\ x.sent = w.sent /\ WorkerType(x)
  <2>1. PICK rows \in Rows \union {None} : rows = over[1] /\ rows = Effect(m, w.rows)
    BY <1>5, <1>6 DEF Answers
  <2>2. x = [w EXCEPT !.rows = rows, !.inbox = rest, !.outbox = outbox]
    BY <1>4, <1>5, <1>7, <2>1 DEF Done
  <2> QED BY <1>1, <2>1, <2>2 DEF WorkerType
<1> DEFINE after == [i \in 0 .. n |-> over[i + 1]]
<1>9. /\ \A i \in 0 .. n : after[i] = over[i + 1]
      /\ after \in [0 .. n -> Rows \union {None}]
  BY <1>2, <1>4 DEF InOrder
<1> HIDE DEF after
<1>10. InOrder(x, after)
  <2>1. after[0] = over[1] /\ after[n] = w.sent
    BY <1>2, <1>4, <1>9 DEF InOrder
  <2>2. ASSUME NEW i \in 1 .. n PROVE after[i] = Effect(x.inbox[i], after[i - 1])
    <3>1. over[i + 1] = Effect(w.inbox[i + 1], over[i])
      <4>1. i + 1 \in 1 .. n + 1 /\ (i + 1) - 1 = i
        BY Neighbours
      <4>2. i + 1 \in 1 .. Len(w.inbox)
        BY <1>4, <4>1, Zenon
      <4> QED BY <1>2, <4>1, <4>2 DEF InOrder
    <3>2. after[i] = over[i + 1] /\ after[i - 1] = over[i]
      <4>1. i \in 0 .. n /\ i - 1 \in 0 .. n /\ (i - 1) + 1 = i
        BY Neighbours
      <4>2. after[i - 1] = over[(i - 1) + 1]
        BY <1>9, <4>1
      <4> QED BY <1>9, <4>1, <4>2
    <3> QED BY <1>4, <1>8, <3>1, <3>2
  <2> QED BY <1>4, <1>8, <1>9, <2>1, <2>2 DEF InOrder
<1>11. Waiting(w, over) = Waiting(x, after) \union {answer}
  <2>1. \A i \in 1 .. n : [request |-> x.inbox[i], rows |-> after[i]] = [request |-> w.inbox[i + 1], rows |-> over[i + 1]]
    BY <1>4, <1>8, <1>9
  <2>2. [request |-> w.inbox[1], rows |-> over[1]] = answer
    BY <1>4, <1>5, <1>6
  <2>3. \A i \in 1 .. n + 1 : i = 1 \/ (i - 1) \in 1 .. n
    BY <1>4
  <2>4. \A j \in Waiting(w, over) : j \in Waiting(x, after) \union {answer}
    <3> SUFFICES ASSUME NEW i \in 1 .. n + 1
                 PROVE  [request |-> w.inbox[i], rows |-> over[i]] \in Waiting(x, after) \union {answer}
      BY <1>4 DEF Waiting
    <3>1. CASE i = 1
      BY <2>2, <3>1
    <3>2. CASE i - 1 \in 1 .. n
      <4>1. PICK k \in 1 .. n : k = i - 1 /\ k + 1 = i
        BY <1>4, <3>2
      <4>2. [request |-> w.inbox[i], rows |-> over[i]] = [request |-> x.inbox[k], rows |-> after[k]]
        BY <2>1, <4>1
      <4> QED BY <1>4, <1>8, <4>2 DEF Waiting
    <3> QED BY <2>3, <3>1, <3>2
  <2>5. \A j \in Waiting(x, after) : j \in Waiting(w, over)
    <3> SUFFICES ASSUME NEW i \in 1 .. n
                 PROVE  [request |-> x.inbox[i], rows |-> after[i]] \in Waiting(w, over)
      BY <1>4, <1>8 DEF Waiting
    <3>1. i + 1 \in 1 .. Len(w.inbox)
      BY <1>4
    <3> QED BY <2>1, <3>1 DEF Waiting
  <2>6. answer \in Waiting(w, over)
    <3>1. 1 \in 1 .. Len(w.inbox)
      BY <1>4
    <3> QED BY <2>2, <3>1 DEF Waiting
  <2> QED BY <2>4, <2>5, <2>6
<1>12. Answered(x) = Answered(w) \union {answer}
  <2>1. PICK k \in Nat : k = Len(w.outbox)
    BY <1>1 DEF WorkerType
  <2>2. /\ Len(x.outbox) = k + 1 /\ x.outbox[k + 1] = answer
        /\ \A i \in 1 .. k : x.outbox[i] = w.outbox[i]
    BY <1>7, <1>8, <2>1
  <2>3. Answered(x) = {x.outbox[i] : i \in 1 .. k} \union {x.outbox[k + 1]}
    <3>1. 1 .. k + 1 = (1 .. k) \union {k + 1}
      BY <2>1, LongerRange
    <3> QED BY <2>2, <3>1 DEF Answered
  <2>4. {x.outbox[i] : i \in 1 .. k} = Answered(w)
    BY <2>1, <2>2 DEF Answered
  <2> QED BY <2>2, <2>3, <2>4
<1> QED BY <1>2, <1>8, <1>10, <1>11, <1>12 DEF Tracks

LEMMA TakingRemovesAJob ==
    ASSUME NEW w, NEW jobs, Tracks(w, jobs), w.outbox # <<>>,
           NEW answer, answer = Oldest(w),
           NEW x, x = Taken(w)
    PROVE  /\ x.sent = w.sent
           /\ answer \in jobs /\ answer \in Answers
           /\ \E left : Tracks(x, left) /\ left \subseteq jobs /\ jobs \subseteq left \union {answer}
<1>1. WorkerType(w)
  BY DEF Tracks
<1>2. PICK over : InOrder(w, over) /\ jobs = Waiting(w, over) \union Answered(w)
  BY DEF Tracks
<1>3. PICK outbox \in Seq(Answers) : outbox = w.outbox /\ outbox # <<>>
  BY <1>1 DEF WorkerType
<1>4. PICK n \in Nat, rest \in Seq(Answers) :
        /\ answer \in Answers /\ answer = w.outbox[1] /\ rest = Tail(w.outbox)
        /\ Len(w.outbox) = n + 1 /\ Len(rest) = n
        /\ \A i \in 1 .. n : rest[i] = w.outbox[i + 1]
  <2>1. Shortens(Answers, outbox)
    BY <1>3, Shortened
  <2> QED BY <1>3, <2>1 DEF Shortens, Oldest
<1>5. /\ x.rows = w.rows /\ x.inbox = w.inbox /\ x.outbox = rest
      /\ x.sent = w.sent /\ WorkerType(x)
  <2>1. x = [w EXCEPT !.outbox = rest]
    BY <1>4 DEF Taken
  <2> QED BY <1>1, <2>1 DEF WorkerType
<1>6. Len(x.outbox) = n /\ \A i \in 1 .. n : x.outbox[i] = w.outbox[i + 1]
  BY <1>4, <1>5
<1>7. InOrder(x, over) /\ Waiting(x, over) = Waiting(w, over)
  BY <1>2, <1>5 DEF InOrder, Waiting
<1>8. Answered(x) \subseteq Answered(w)
  <2> SUFFICES ASSUME NEW i \in 1 .. n PROVE x.outbox[i] \in Answered(w)
    BY <1>6 DEF Answered
  <2>1. i + 1 \in 1 .. Len(w.outbox)
    BY <1>4
  <2> QED BY <1>6, <2>1 DEF Answered
<1>9. Answered(w) \subseteq Answered(x) \union {answer}
  <2> SUFFICES ASSUME NEW i \in 1 .. n + 1 PROVE w.outbox[i] \in Answered(x) \union {answer}
    BY <1>4 DEF Answered
  <2>1. CASE i = 1
    BY <1>4, <2>1
  <2>2. CASE i - 1 \in 1 .. n
    <3>1. PICK k \in 1 .. n : k + 1 = i
      BY <1>4, <2>2
    <3> QED BY <1>6, <3>1 DEF Answered
  <2> QED BY <1>4, <2>1, <2>2
<1>10. answer \in Answered(w)
  <2>1. 1 \in 1 .. Len(w.outbox)
    BY <1>4
  <2> QED BY <1>4, <2>1 DEF Answered
<1>11. Tracks(x, Waiting(w, over) \union Answered(x))
  BY <1>5, <1>7 DEF Tracks
<1> QED BY <1>2, <1>4, <1>5, <1>8, <1>9, <1>10, <1>11

LEMMA IdleHasNoJobs == Tracks(IdleWorker, {}) /\ IdleWorker.sent = None
<1>1. WorkerType(IdleWorker)
  BY DEF WorkerType, IdleWorker
<1>2. Len(IdleWorker.inbox) = 0 /\ Len(IdleWorker.outbox) = 0 /\ IdleWorker.rows = None /\ IdleWorker.sent = None
  BY DEF IdleWorker
<1>3. InOrder(IdleWorker, [i \in 0 .. 0 |-> None])
  BY <1>2 DEF InOrder
<1>4. Waiting(IdleWorker, [i \in 0 .. 0 |-> None]) = {} /\ Answered(IdleWorker) = {}
  BY <1>2 DEF Waiting, Answered
<1> QED BY <1>1, <1>2, <1>3, <1>4 DEF Tracks

LEMMA EmptyBoxesHaveNoJobs ==
    ASSUME NEW w, NEW jobs, Tracks(w, jobs), w.inbox = <<>>, w.outbox = <<>>
    PROVE  jobs = {}
BY DEF Tracks, Waiting, Answered

---------------------------------------------------------------------------
(* What holds between the panel, what the explorer keeps (v), its fetches  *)
(* and the worker's jobs, sent being the rows that the worker will hold    *)
(* once its jobs are done.                                                 *)
NotBehind(of, known) == known # None /\ known[1] = of[1] => known[2] <= of[2]

Holding(s, v) ==
    v.loaded # None => v.snapshot = v.loaded /\ v.loaded[2] <= Revision(s, v.loaded)

WantedLoad(v, j) == j.request.type = "load" /\ j.request.seq = v.fetchSeq

FetchFits(s, v, f) ==
    /\ f = [of |-> f.of, seq |-> f.seq, answer |-> f.answer]
    /\ f.of \in Rows /\ f.seq = v.fetchSeq /\ f.of[2] <= Revision(s, f.of)
    /\ f.answer # None => IF f.answer = "gone" THEN f.of[2] < Revision(s, f.of)
                                               ELSE NotBehind(f.of, v.loaded)
    /\ v.loaded # f.of
    /\ v.fetching = f.of \/ (v.fetching = None /\ v.loaded = None)

(* At most one fetch, the one that is wanted, until its rows are sent. *)
Fetching(s, v, F, J) ==
    /\ F = {} \/ \E f : F = {f} /\ FetchFits(s, v, f)
    /\ F # {} => \A j \in J : ~WantedLoad(v, j)
    /\ v.fetching # None => F # {} \/ \E j \in J : WantedLoad(v, j)

LoadFits(s, v, j, sent) ==
    /\ j.request.of \in Rows /\ j.request.of[2] <= Revision(s, j.request.of)
    /\ j.request.seq \in Nat /\ j.request.seq <= v.fetchSeq
    /\ WantedLoad(v, j) =>
         /\ sent = j.request.of /\ NotBehind(j.request.of, v.loaded)
         /\ \/ v.fetching = j.request.of
            \/ v.fetching = None /\ v.loaded \in {None, j.request.of}

Loading(s, v, J, sent) == \A j \in J : j.request.type = "load" => LoadFits(s, v, j, sent)

Counting(v, J) ==
    \A j \in J :
        /\ j.request.type = "aggregate" => j.request.seq \in Nat /\ j.request.seq <= v.aggregateSeq
        /\ j.request.type = "page" => j.request.seq \in Nat /\ j.request.seq <= v.pageSeq

CurrentAggregate(v, j) == j.request.type = "aggregate" /\ j.request.seq = v.aggregateSeq
CurrentPage(v, j) == j.request.type = "page" /\ j.request.seq = v.pageSeq
AggregateFits(v, j) == j.rows = v.loaded /\ j.request.filters = v.filters
PageFits(v, j) == j.rows = v.loaded /\ j.request.filters = v.filters /\ j.request.offset = v.offset
AggregateDrawn(v) == v.aggregate = [of |-> v.loaded, filters |-> v.filters]
PageDrawn(v) == v.page = [of |-> v.loaded, filters |-> v.filters, offset |-> v.offset]

(* Of the rows held, with no others sent, what is asked for last is drawn  *)
(* or still to come.                                                       *)
Drawing(v, J, sent) ==
    v.loaded # None /\ sent = v.loaded =>
        /\ \A j \in J : CurrentAggregate(v, j) => AggregateFits(v, j)
        /\ \/ \E j \in J : CurrentAggregate(v, j)
           \/ /\ AggregateDrawn(v)
              /\ \A j \in J : CurrentPage(v, j) => PageFits(v, j)
              /\ PageDrawn(v) \/ \E j \in J : CurrentPage(v, j)

Browsing(s, v, F, J, sent) ==
    /\ ViewType(v) /\ sent \in Rows \union {None}
    /\ Holding(s, v)
    /\ Fetching(s, v, F, J)
    /\ Loading(s, v, J, sent)
    /\ Counting(v, J)
    /\ Drawing(v, J, sent)

(* The rows that a state reports are under way or on screen, if they are   *)
(* still those the panel holds.                                            *)
Reports(s, st, v, sent) ==
    st.status = "ready" /\ st.rows[2] = Revision(s, st.rows) =>
        st.rows = v.fetching \/ (st.rows = v.loaded /\ v.fetching = None /\ sent = v.loaded)

Forward(v, x) ==
    v.loaded # None /\ x.loaded # None /\ v.loaded[1] = x.loaded[1] => v.loaded[2] <= x.loaded[2]

KnownStates(s) == {st \in States : st.rows[2] <= Revision(s, st.rows)}

(* Snapshots are only ever replaced by newer ones. *)
Ahead(s, r) == \A t \in Targets : s.entry[t].revision <= r.entry[t].revision

LEMMA RevisionsGrow ==
    ASSUME NEW s, NEW r, ServerType(s), ServerType(r), Ahead(s, r)
    PROVE  \A of \in Rows : /\ Revision(s, of) \in Nat /\ Revision(r, of) \in Nat
                            /\ Revision(s, of) <= Revision(r, of)
BY DEF ServerType, Ahead, Revision, Rows

LEMMA MoreIsKnown ==
    ASSUME NEW s, NEW r, ServerType(s), ServerType(r), Ahead(s, r)
    PROVE  KnownStates(s) \subseteq KnownStates(r)
<1> SUFFICES ASSUME NEW st \in States, st.rows[2] <= Revision(s, st.rows)
             PROVE  st.rows[2] <= Revision(r, st.rows)
  BY DEF KnownStates
<1>1. st.rows \in Rows
  BY DEF States
<1>2. st.rows[2] \in Nat
  BY <1>1 DEF Rows
<1>3. PICK a \in Nat, b \in Nat : a = Revision(s, st.rows) /\ b = Revision(r, st.rows) /\ a <= b
  BY <1>1, RevisionsGrow
<1> QED BY <1>2, <1>3

LEMMA ServerMoves ==
    ASSUME NEW s, NEW r, ServerType(s), ServerType(r), Ahead(s, r),
           NEW v, NEW F, NEW J, NEW sent, Browsing(s, v, F, J, sent)
    PROVE  Browsing(r, v, F, J, sent)
<1>1. \A of \in Rows : /\ Revision(s, of) \in Nat /\ Revision(r, of) \in Nat
                       /\ Revision(s, of) <= Revision(r, of) /\ of[2] \in Nat
  BY RevisionsGrow DEF Rows
<1>2. ViewType(v) /\ Holding(s, v) /\ Fetching(s, v, F, J) /\ Loading(s, v, J, sent)
  BY DEF Browsing
<1>3. Holding(r, v)
  <2> SUFFICES ASSUME v.loaded # None PROVE v.snapshot = v.loaded /\ v.loaded[2] <= Revision(r, v.loaded)
    BY DEF Holding
  <2>1. v.loaded \in Rows /\ v.snapshot = v.loaded /\ v.loaded[2] <= Revision(s, v.loaded)
    BY <1>2 DEF ViewType, Holding
  <2> QED BY <1>1, <2>1
<1>4. \A f : FetchFits(s, v, f) => FetchFits(r, v, f)
  <2> SUFFICES ASSUME NEW f, FetchFits(s, v, f) PROVE FetchFits(r, v, f)
    OBVIOUS
  <2>1. f.of \in Rows /\ f.of[2] <= Revision(s, f.of)
    BY DEF FetchFits
  <2>2. f.of[2] <= Revision(r, f.of) /\ (f.of[2] < Revision(s, f.of) => f.of[2] < Revision(r, f.of))
    BY <1>1, <2>1
  <2> QED BY <2>2 DEF FetchFits
<1>5. Fetching(r, v, F, J)
  BY <1>2, <1>4 DEF Fetching
<1>6. Loading(r, v, J, sent)
  <2> SUFFICES ASSUME NEW j \in J, LoadFits(s, v, j, sent) PROVE LoadFits(r, v, j, sent)
    BY <1>2 DEF Loading
  <2>1. j.request.of[2] <= Revision(r, j.request.of)
    BY <1>1 DEF LoadFits
  <2> QED BY <2>1 DEF LoadFits
<1> QED BY <1>3, <1>5, <1>6 DEF Browsing

LEMMA ServerMovesReports ==
    ASSUME NEW s, NEW r, ServerType(s), ServerType(r), Ahead(s, r),
           NEW v, NEW sent, NEW st \in KnownStates(s), Reports(s, st, v, sent)
    PROVE  Reports(r, st, v, sent)
<1>1. st.rows \in Rows /\ st.rows[2] <= Revision(s, st.rows)
  BY DEF KnownStates, States
<1>2. st.rows[2] \in Nat
  BY <1>1 DEF Rows
<1>3. PICK a \in Nat, b \in Nat : a = Revision(s, st.rows) /\ b = Revision(r, st.rows) /\ a <= b
  BY <1>1, RevisionsGrow
<1>4. st.rows[2] = Revision(r, st.rows) => st.rows[2] = Revision(s, st.rows)
  BY <1>1, <1>2, <1>3
<1> QED BY <1>4 DEF Reports

(* A state is taken, by a view whose fetches are F. *)
SyncedWith(v, F, st) ==
    IF SyncedView(v, st).fetchSeq # v.fetchSeq
      THEN {[of |-> st.rows, seq |-> v.fetchSeq + 1, answer |-> None]} ELSE F

Taking(v, x, F, G, st) ==
    \/ /\ st.status = "ready" /\ st.rows # v.loaded /\ st.rows # v.fetching
       /\ x = [v EXCEPT !.fetching = st.rows, !.fetchSeq = @ + 1, !.status = "loading"]
       /\ G = {[of |-> st.rows, seq |-> v.fetchSeq + 1, answer |-> None]}
    \/ /\ st.status = "ready" => st.rows = v.loaded \/ st.rows = v.fetching
       /\ x = [v EXCEPT !.status = x.status] /\ G = F

LEMMA Takings ==
    ASSUME NEW v, ViewType(v), NEW st \in States, NEW F,
           NEW x, x = SyncedView(v, st), NEW G, G = SyncedWith(v, F, st)
    PROVE  Taking(v, x, F, G, st)
<1>1. CASE st.status = "ready" /\ st.rows # v.loaded /\ st.rows # v.fetching
  <2>1. x = [v EXCEPT !.fetching = st.rows, !.fetchSeq = @ + 1, !.status = "loading"]
    BY <1>1 DEF SyncedView, SameRows
  <2>2. x.fetchSeq = v.fetchSeq + 1 /\ x.fetchSeq # v.fetchSeq
    BY <2>1 DEF ViewType
  <2> QED BY <1>1, <2>1, <2>2 DEF Taking, SyncedWith
<1>2. CASE ~(st.status = "ready" /\ st.rows # v.loaded /\ st.rows # v.fetching)
  <2>1. PICK status : x = [v EXCEPT !.status = status]
    <3>1. CASE st.status = "idle"
      <4>1. v = [v EXCEPT !.status = v.status]
        BY DEF ViewType
      <4> QED BY <3>1, <4>1 DEF SyncedView
    <3>2. CASE st.status = "error"
      BY <3>2 DEF SyncedView
    <3>3. CASE st.status = "loading"
      BY <3>3 DEF SyncedView
    <3>4. CASE st.status = "ready"
      BY <1>2, <3>4 DEF SyncedView, SameRows
    <3> QED BY <3>1, <3>2, <3>3, <3>4 DEF States, Statuses
  <2>2. x.status = status /\ x.fetchSeq = v.fetchSeq
    BY <2>1 DEF ViewType
  <2> QED BY <1>2, <2>1, <2>2 DEF Taking, SyncedWith
<1> QED BY <1>1, <1>2

(* The parts of a view that drawing depends on. *)
SameDrawing(v, x) ==
    /\ x.loaded = v.loaded /\ x.filters = v.filters /\ x.offset = v.offset
    /\ x.aggregateSeq = v.aggregateSeq /\ x.pageSeq = v.pageSeq
    /\ x.aggregate = v.aggregate /\ x.page = v.page

LEMMA DrawingKept ==
    ASSUME NEW v, NEW x, SameDrawing(v, x), NEW J, NEW sent, Counting(v, J), Drawing(v, J, sent)
    PROVE  Counting(x, J) /\ Drawing(x, J, sent)
<1>1. Counting(x, J)
  BY DEF SameDrawing, Counting
<1>2. \A j \in J : /\ CurrentAggregate(x, j) <=> CurrentAggregate(v, j)
                   /\ CurrentPage(x, j) <=> CurrentPage(v, j)
                   /\ AggregateFits(x, j) <=> AggregateFits(v, j)
                   /\ PageFits(x, j) <=> PageFits(v, j)
  BY DEF SameDrawing, CurrentAggregate, CurrentPage, AggregateFits, PageFits
<1>3. (AggregateDrawn(x) <=> AggregateDrawn(v)) /\ (PageDrawn(x) <=> PageDrawn(v)) /\ x.loaded = v.loaded
  BY DEF SameDrawing, AggregateDrawn, PageDrawn
<1> QED BY <1>1, <1>2, <1>3 DEF Drawing

LEMMA RowsAreNotNone == None \notin Rows
BY ExplorerAssumption DEF Rows

LEMMA StatesTaken ==
    ASSUME NEW s, ServerType(s), NEW v, NEW F, NEW J, NEW sent, Browsing(s, v, F, J, sent),
           NEW st \in KnownStates(s),
           NEW x, x = SyncedView(v, st), NEW G, G = SyncedWith(v, F, st)
    PROVE  /\ Browsing(s, x, G, J, sent) /\ x.loaded = v.loaded
           /\ st.status = "ready" /\ (st.rows = v.loaded => v.fetching = None /\ sent = v.loaded)
                => Reports(s, st, x, sent)
<1>1. /\ ViewType(v) /\ sent \in Rows \union {None} /\ Holding(s, v) /\ Fetching(s, v, F, J)
      /\ Loading(s, v, J, sent) /\ Counting(v, J) /\ Drawing(v, J, sent)
  BY DEF Browsing
<1>2. st \in States /\ st.rows \in Rows /\ st.rows[2] <= Revision(s, st.rows)
  BY DEF KnownStates, States
<1>3. Taking(v, x, F, G, st)
  BY <1>1, <1>2, Takings
<1>4. CASE /\ st.status = "ready" /\ st.rows # v.loaded /\ st.rows # v.fetching
           /\ x = [v EXCEPT !.fetching = st.rows, !.fetchSeq = @ + 1, !.status = "loading"]
           /\ G = {[of |-> st.rows, seq |-> v.fetchSeq + 1, answer |-> None]}
  <2>1. /\ SameDrawing(v, x) /\ ViewType(x) /\ x.snapshot = v.snapshot
        /\ x.fetching = st.rows /\ x.fetchSeq = v.fetchSeq + 1
    <3>1. PICK rows \in Rows, next \in Nat : rows = st.rows /\ next = v.fetchSeq + 1
      BY <1>1, <1>2 DEF ViewType
    <3>2. x = [v EXCEPT !.fetching = rows, !.fetchSeq = next, !.status = "loading"]
      BY <1>4, <3>1
    <3>3. /\ x.loaded = v.loaded /\ x.snapshot = v.snapshot /\ x.aggregate = v.aggregate /\ x.page = v.page
          /\ x.filters = v.filters /\ x.offset = v.offset /\ x.aggregateSeq = v.aggregateSeq
          /\ x.pageSeq = v.pageSeq /\ x.fetching = rows /\ x.fetchSeq = next /\ x.status = "loading"
      BY <1>1, <3>2 DEF ViewType
    <3>4. ViewType(x)
      BY <1>1, <3>1, <3>2, <3>3 DEF ViewType
    <3> QED BY <3>1, <3>3, <3>4 DEF SameDrawing
  <2>2. x.loaded = v.loaded /\ v.fetchSeq \in Nat
    BY <1>1, <2>1 DEF SameDrawing, ViewType
  <2>3. Holding(s, x)
    BY <1>1, <2>1, <2>2 DEF Holding
  <2>4. \A j \in J : ~WantedLoad(x, j)
    BY <1>1, <2>1, <2>2 DEF WantedLoad, Loading, LoadFits
  <2>5. Fetching(s, x, G, J)
    <3>1. PICK f : f = [of |-> st.rows, seq |-> v.fetchSeq + 1, answer |-> None]
      OBVIOUS
    <3>2. FetchFits(s, x, f)
      BY <1>2, <1>4, <2>1, <2>2, <3>1 DEF FetchFits
    <3>3. G = {f} /\ G # {}
      BY <1>4, <3>1
    <3> QED BY <2>4, <3>2, <3>3 DEF Fetching
  <2>6. Loading(s, x, J, sent)
    <3> SUFFICES ASSUME NEW j \in J, LoadFits(s, v, j, sent) PROVE LoadFits(s, x, j, sent)
      BY <1>1 DEF Loading
    <3>1. j.request.seq \in Nat /\ j.request.seq <= x.fetchSeq
      BY <2>1, <2>2 DEF LoadFits
    <3> QED BY <2>4, <3>1 DEF LoadFits
  <2>7. Counting(x, J) /\ Drawing(x, J, sent)
    BY <1>1, <2>1, DrawingKept
  <2>8. Reports(s, st, x, sent)
    BY <2>1 DEF Reports
  <2> QED BY <1>1, <2>1, <2>2, <2>3, <2>5, <2>6, <2>7, <2>8 DEF Browsing
<1>5. CASE /\ st.status = "ready" => st.rows = v.loaded \/ st.rows = v.fetching
           /\ x = [v EXCEPT !.status = x.status] /\ G = F
  <2>1. PICK status : status = x.status
    OBVIOUS
  <2>2. x = [v EXCEPT !.status = status]
    BY <1>5, <2>1
  <2>3. /\ SameDrawing(v, x) /\ ViewType(x) /\ x.snapshot = v.snapshot /\ x.loaded = v.loaded
        /\ x.fetching = v.fetching /\ x.fetchSeq = v.fetchSeq
    BY <1>1, <2>2 DEF SameDrawing, ViewType
  <2>4. Holding(s, x)
    BY <1>1, <2>3 DEF Holding
  <2>5. (\A j : WantedLoad(x, j) <=> WantedLoad(v, j)) /\ (\A f : FetchFits(s, v, f) => FetchFits(s, x, f))
    BY <2>3 DEF WantedLoad, FetchFits
  <2>6. Fetching(s, x, G, J)
    BY <1>1, <1>5, <2>3, <2>5 DEF Fetching
  <2>7. Loading(s, x, J, sent)
    BY <1>1, <2>3, <2>5 DEF Loading, LoadFits
  <2>8. Counting(x, J) /\ Drawing(x, J, sent)
    BY <1>1, <2>3, DrawingKept
  <2>9. st.status = "ready" /\ (st.rows = v.loaded => v.fetching = None /\ sent = v.loaded)
          => Reports(s, st, x, sent)
    BY <1>5, <2>3 DEF Reports
  <2> QED BY <1>1, <2>3, <2>4, <2>6, <2>7, <2>8, <2>9 DEF Browsing
<1> QED BY <1>3, <1>4, <1>5, Zenon DEF Taking

(* The parts of a view that its rows and fetches depend on. *)
SameFetching(v, x) ==
    x.loaded = v.loaded /\ x.fetching = v.fetching /\ x.fetchSeq = v.fetchSeq /\ x.snapshot = v.snapshot

LEMMA FetchingKept ==
    ASSUME NEW s, NEW v, NEW F, NEW J, NEW sent, NEW x, SameFetching(v, x),
           Holding(s, v), Fetching(s, v, F, J), Loading(s, v, J, sent)
    PROVE  Holding(s, x) /\ Fetching(s, x, F, J) /\ Loading(s, x, J, sent)
<1>1. (\A j : WantedLoad(x, j) <=> WantedLoad(v, j)) /\ (\A f : FetchFits(s, v, f) => FetchFits(s, x, f))
  BY DEF SameFetching, WantedLoad, FetchFits
<1>2. Holding(s, x)
  BY DEF SameFetching, Holding
<1>3. Fetching(s, x, F, J)
  BY <1>1 DEF Fetching, SameFetching
<1>4. Loading(s, x, J, sent)
  BY <1>1 DEF Loading, LoadFits, SameFetching
<1> QED BY <1>2, <1>3, <1>4

(* Jobs come and go without a load among them. *)
LEMMA JobsKept ==
    ASSUME NEW s, NEW v, NEW F, NEW J, NEW sent, Fetching(s, v, F, J), Loading(s, v, J, sent),
           NEW K, \A j \in K : j \in J \/ j.request.type # "load",
           \A j \in J : WantedLoad(v, j) => j \in K
    PROVE  Fetching(s, v, F, K) /\ Loading(s, v, K, sent)
<1>1. \A j \in K : WantedLoad(v, j) => j \in J
  BY DEF WantedLoad
<1>2. Fetching(s, v, F, K)
  BY <1>1 DEF Fetching
<1>3. Loading(s, v, K, sent)
  BY DEF Loading
<1> QED BY <1>2, <1>3

LEMMA Resets ==
    ASSUME NEW s, NEW v, NEW F, NEW J, NEW sent, Browsing(s, v, F, J, sent),
           NEW x, x = ResetView(v),
           NEW K, K = J \union {[request |-> [type |-> "release"], rows |-> None]}
    PROVE  Browsing(s, x, {}, K, None) /\ x.fetchSeq # v.fetchSeq /\ x.loaded = None
<1>1. ViewType(v) /\ Loading(s, v, J, sent) /\ Counting(v, J)
  BY DEF Browsing
<1>2. PICK a \in Nat, b \in Nat, c \in Nat :
        a = v.aggregateSeq + 1 /\ b = v.pageSeq + 1 /\ c = v.fetchSeq + 1
  BY <1>1 DEF ViewType
<1>3. x = [v EXCEPT !.loaded = None, !.fetching = None, !.aggregate = None, !.page = None,
                    !.snapshot = None, !.status = "idle", !.filters = 0, !.offset = 0,
                    !.aggregateSeq = a, !.pageSeq = b, !.fetchSeq = c]
  BY <1>2 DEF ResetView
<1>4. /\ x.loaded = None /\ x.fetching = None /\ x.fetchSeq = c
      /\ x.aggregateSeq = a /\ x.pageSeq = b /\ ViewType(x)
  <2>1. x = [loaded |-> None, fetching |-> None, snapshot |-> None, aggregate |-> None, page |-> None,
             status |-> "idle", filters |-> 0, offset |-> 0,
             aggregateSeq |-> a, pageSeq |-> b, fetchSeq |-> c]
    BY <1>1, <1>3 DEF ViewType
  <2> QED BY <1>2, <2>1 DEF ViewType
<1>5. x.fetchSeq # v.fetchSeq
  BY <1>1, <1>2, <1>4 DEF ViewType
<1>6. \A j \in K : j \in J \/ j.request.type = "release"
  OBVIOUS
<1>7. Holding(s, x) /\ Drawing(x, K, None)
  BY <1>4 DEF Holding, Drawing
<1>8. Fetching(s, x, {}, K)
  BY <1>4 DEF Fetching
<1>9. Loading(s, x, K, None)
  <2> SUFFICES ASSUME NEW j \in J, LoadFits(s, v, j, sent) PROVE LoadFits(s, x, j, None)
    BY <1>1, <1>6 DEF Loading
  <2>1. j.request.seq \in Nat /\ j.request.seq <= v.fetchSeq /\ v.fetchSeq \in Nat
    BY <1>1 DEF LoadFits, ViewType
  <2>2. j.request.seq <= x.fetchSeq /\ ~WantedLoad(x, j)
    BY <1>2, <1>4, <2>1 DEF WantedLoad
  <2> QED BY <2>1, <2>2 DEF LoadFits
<1>10. Counting(x, K)
  <2> SUFFICES ASSUME NEW j \in J
               PROVE  /\ j.request.type = "aggregate" => j.request.seq \in Nat /\ j.request.seq <= x.aggregateSeq
                      /\ j.request.type = "page" => j.request.seq \in Nat /\ j.request.seq <= x.pageSeq
    BY <1>6 DEF Counting
  <2>1. v.aggregateSeq \in Nat /\ v.pageSeq \in Nat
    BY <1>1 DEF ViewType
  <2> QED BY <1>1, <1>2, <1>4, <2>1 DEF Counting
<1> QED BY <1>4, <1>5, <1>7, <1>8, <1>9, <1>10 DEF Browsing

LEMMA Dies ==
    ASSUME NEW s, NEW v, NEW F, NEW J, NEW sent, Browsing(s, v, F, J, sent),
           NEW x, x = FailedView(v)
    PROVE  Browsing(s, x, F, {}, None) /\ x.loaded = None
<1>1. ViewType(v) /\ Fetching(s, v, F, J)
  BY DEF Browsing
<1>2. x.loaded = None /\ x.fetching = None /\ x.fetchSeq = v.fetchSeq /\ ViewType(x)
  <2>1. x = [v EXCEPT !.loaded = None, !.fetching = None, !.status = "error"]
    BY DEF FailedView
  <2> QED BY <1>1, <2>1 DEF ViewType
<1>3. \A f : FetchFits(s, v, f) => FetchFits(s, x, f)
  BY <1>2, RowsAreNotNone DEF FetchFits, NotBehind
<1>4. Fetching(s, x, F, {})
  BY <1>1, <1>2, <1>3 DEF Fetching
<1>5. Holding(s, x) /\ Loading(s, x, {}, None) /\ Counting(x, {}) /\ Drawing(x, {}, None)
  BY <1>2 DEF Holding, Loading, Counting, Drawing
<1> QED BY <1>2, <1>4, <1>5 DEF Browsing

(* The one fetch. *)
LEMMA TheFetch ==
    ASSUME NEW s, NEW v, NEW F, NEW J, NEW sent, Browsing(s, v, F, J, sent), NEW f \in F
    PROVE  F = {f} /\ F \ {f} = {} /\ FetchFits(s, v, f) /\ \A j \in J : ~WantedLoad(v, j)
BY DEF Browsing, Fetching

LEMMA Serves ==
    ASSUME NEW s, ServerType(s), NEW v, NEW F, NEW J, NEW sent, Browsing(s, v, F, J, sent),
           NEW f \in F, NEW answer,
           answer = IF Revision(s, f.of) = f.of[2] THEN "rows" ELSE "gone",
           NEW G, G = (F \ {f}) \union {[f EXCEPT !.answer = answer]}
    PROVE  Browsing(s, v, G, J, sent)
<1>1. ViewType(v) /\ Holding(s, v) /\ Fetching(s, v, F, J)
  BY DEF Browsing
<1>2. F \ {f} = {} /\ FetchFits(s, v, f) /\ \A j \in J : ~WantedLoad(v, j)
  BY TheFetch
<1>3. PICK g : g = [f EXCEPT !.answer = answer]
  OBVIOUS
<1>4. /\ g.of = f.of /\ g.seq = f.seq /\ g.answer = answer
      /\ g = [of |-> g.of, seq |-> g.seq, answer |-> g.answer]
  BY <1>2, <1>3 DEF FetchFits
<1>5. PICK of \in Rows : of = f.of
  BY <1>2 DEF FetchFits
<1>6. of[2] \in Nat /\ Revision(s, of) \in Nat /\ of[2] <= Revision(s, of)
  BY <1>2, <1>5 DEF Rows, Revision, ServerType, FetchFits
<1>7. answer = "gone" => of[2] < Revision(s, of)
  BY <1>5, <1>6
<1>8. answer # "gone" => NotBehind(of, v.loaded)
  <2> SUFFICES ASSUME answer # "gone", v.loaded # None, v.loaded[1] = of[1] PROVE v.loaded[2] <= of[2]
    BY DEF NotBehind
  <2>1. Revision(s, v.loaded) = of[2]
    BY <1>5 DEF Revision
  <2> QED BY <1>1, <2>1 DEF Holding
<1>9. FetchFits(s, v, g)
  BY <1>2, <1>4, <1>5, <1>7, <1>8 DEF FetchFits
<1>10. G = {g}
  BY <1>2, <1>3
<1>11. Fetching(s, v, G, J)
  BY <1>2, <1>9, <1>10 DEF Fetching
<1> QED BY <1>11 DEF Browsing

LEMMA FetchesOfNothing ==
    ASSUME NEW s, ServerType(s), NEW v, NEW F, NEW J, NEW sent, Browsing(s, v, F, J, sent),
           NEW f \in F, f.answer # None, f.answer = "gone",
           NEW x, x = [v EXCEPT !.fetching = None],
           NEW st \in KnownStates(s)
    PROVE  /\ f.seq = v.fetchSeq /\ Browsing(s, x, F \ {f}, J, sent) /\ x.loaded = v.loaded
           /\ Reports(s, st, v, sent) => Reports(s, st, x, sent)
<1>1. /\ ViewType(v) /\ Holding(s, v) /\ Loading(s, v, J, sent) /\ Counting(v, J) /\ Drawing(v, J, sent)
      /\ sent \in Rows \union {None}
  BY DEF Browsing
<1>2. F \ {f} = {} /\ FetchFits(s, v, f) /\ \A j \in J : ~WantedLoad(v, j)
  BY TheFetch
<1>3. /\ SameDrawing(v, x) /\ x.fetching = None /\ x.loaded = v.loaded /\ x.snapshot = v.snapshot
      /\ x.fetchSeq = v.fetchSeq /\ ViewType(x)
  BY <1>1 DEF SameDrawing, ViewType
<1>4. Holding(s, x) /\ Counting(x, J) /\ Drawing(x, J, sent)
  BY <1>1, <1>3, DrawingKept DEF Holding
<1>5. \A j \in J : ~WantedLoad(x, j)
  BY <1>2, <1>3 DEF WantedLoad
<1>6. Fetching(s, x, F \ {f}, J)
  BY <1>2, <1>3 DEF Fetching
<1>7. Loading(s, x, J, sent)
  BY <1>1, <1>3, <1>5 DEF Loading, LoadFits
<1>8. Reports(s, st, v, sent) => Reports(s, st, x, sent)
  <2> SUFFICES ASSUME Reports(s, st, v, sent), st.status = "ready", st.rows[2] = Revision(s, st.rows)
               PROVE  st.rows = v.loaded /\ sent = v.loaded
    BY <1>3 DEF Reports
  <2>1. f.of[2] # Revision(s, f.of)
    <3>1. PICK of \in Rows : of = f.of
      BY <1>2 DEF FetchFits
    <3>2. of[2] \in Nat /\ Revision(s, of) \in Nat /\ of[2] < Revision(s, of)
      BY <1>2, <3>1 DEF Rows, Revision, ServerType, FetchFits
    <3> QED BY <3>1, <3>2
  <2>2. st.rows # f.of
    BY <2>1
  <2>3. st.rows # None
    BY RowsAreNotNone DEF KnownStates, States
  <2>4. st.rows # v.fetching
    BY <1>2, <2>2, <2>3 DEF FetchFits
  <2> QED BY <2>4 DEF Reports
<1> QED BY <1>1, <1>2, <1>3, <1>4, <1>6, <1>7, <1>8 DEF Browsing, FetchFits

(* The job of a fetch whose rows have come. *)
LoadJob(f) == [request |-> [type |-> "load", of |-> f.of, seq |-> f.seq], rows |-> f.of]

LEMMA Sends ==
    ASSUME NEW s, ServerType(s), NEW v, NEW F, NEW J, NEW sent, Browsing(s, v, F, J, sent),
           NEW f \in F, f.answer # None, f.answer # "gone",
           NEW st \in KnownStates(s)
    PROVE  /\ f.seq = v.fetchSeq /\ f.of \in Rows /\ f.seq \in Nat
           /\ Browsing(s, v, F \ {f}, J \union {LoadJob(f)}, f.of)
           /\ Reports(s, st, v, sent) => Reports(s, st, v, f.of)
<1>1. ViewType(v) /\ Holding(s, v) /\ Loading(s, v, J, sent) /\ Counting(v, J)
  BY DEF Browsing
<1>2. F \ {f} = {} /\ FetchFits(s, v, f) /\ \A j \in J : ~WantedLoad(v, j)
  BY TheFetch
<1>3. PICK n, K : n = LoadJob(f) /\ K = J \union {n}
  OBVIOUS
<1>4. /\ n.request.type = "load" /\ n.request.of = f.of /\ n.request.seq = v.fetchSeq
      /\ WantedLoad(v, n) /\ K = J \union {n} /\ v.fetchSeq \in Nat /\ f.of \in Rows
  BY <1>1, <1>2, <1>3 DEF LoadJob, FetchFits, WantedLoad, ViewType
<1>5. Fetching(s, v, F \ {f}, K)
  BY <1>2, <1>4 DEF Fetching
<1>6. LoadFits(s, v, n, f.of)
  BY <1>2, <1>4 DEF LoadFits, FetchFits
<1>7. Loading(s, v, K, f.of)
  <2>1. \A j \in J : j.request.type = "load" => LoadFits(s, v, j, f.of)
    BY <1>1, <1>2 DEF Loading, LoadFits
  <2> QED BY <1>4, <1>6, <2>1 DEF Loading
<1>8. Counting(v, K)
  BY <1>1, <1>4 DEF Counting
<1>9. Drawing(v, K, f.of)
  BY <1>2 DEF Drawing, FetchFits
<1>10. Reports(s, st, v, sent) => Reports(s, st, v, f.of)
  <2> SUFFICES ASSUME st.rows = v.loaded, v.fetching = None PROVE FALSE
    BY DEF Reports
  <2>1. v.loaded = None
    BY <1>2, RowsAreNotNone DEF FetchFits
  <2> QED BY <2>1, RowsAreNotNone DEF KnownStates, States
<1> QED BY <1>1, <1>2, <1>3, <1>4, <1>5, <1>7, <1>8, <1>9, <1>10 DEF Browsing, FetchFits

Narrowed(v) ==
    [v EXCEPT !.filters = @ + 1, !.offset = 0,
              !.aggregateSeq = IF v.loaded = None THEN @ ELSE @ + 1]
Turned(v) == [v EXCEPT !.offset = @ + 1, !.pageSeq = @ + 1]
Asked(J, message, rows) == J \union {[request |-> message, rows |-> rows]}

LEMMA NarrowsNothing ==
    ASSUME NEW s, NEW v, NEW F, NEW J, NEW sent, Browsing(s, v, F, J, sent),
           NEW x, x = Narrowed(v), v.loaded = None
    PROVE  SameFetching(v, x) /\ Browsing(s, x, F, J, sent)
<1>1. /\ ViewType(v) /\ Holding(s, v) /\ Fetching(s, v, F, J) /\ Loading(s, v, J, sent)
      /\ Counting(v, J)
  BY DEF Browsing
<1>2. PICK a \in Nat, b \in Nat : a = v.filters + 1 /\ b = v.aggregateSeq
  BY <1>1 DEF ViewType
<1>3. x = [v EXCEPT !.filters = a, !.offset = 0, !.aggregateSeq = b]
  BY <1>2 DEF Narrowed
<1>4. /\ SameFetching(v, x) /\ ViewType(x) /\ x.aggregateSeq = v.aggregateSeq /\ x.pageSeq = v.pageSeq
      /\ x.loaded = None
  <2>1. x = [loaded |-> v.loaded, fetching |-> v.fetching, snapshot |-> v.snapshot,
             aggregate |-> v.aggregate, page |-> v.page, status |-> v.status,
             filters |-> a, offset |-> 0, aggregateSeq |-> b,
             pageSeq |-> v.pageSeq, fetchSeq |-> v.fetchSeq]
    BY <1>1, <1>3 DEF ViewType
  <2> QED BY <1>1, <1>2, <2>1 DEF ViewType, SameFetching
<1>5. Counting(x, J) /\ Drawing(x, J, sent)
  BY <1>1, <1>4 DEF Counting, Drawing
<1>6. Holding(s, x) /\ Fetching(s, x, F, J) /\ Loading(s, x, J, sent)
  BY <1>1, <1>4, FetchingKept
<1> QED BY <1>4, <1>5, <1>6 DEF Browsing

LEMMA Narrows ==
    ASSUME NEW s, NEW v, NEW F, NEW J, NEW sent, Browsing(s, v, F, J, sent),
           NEW x, x = Narrowed(v), v.loaded # None,
           NEW K, K = Asked(J, AggregateRequest(x), sent)
    PROVE  /\ SameFetching(v, x) /\ Browsing(s, x, F, K, sent)
           /\ AggregateRequest(x) \in Messages
<1>1. /\ ViewType(v) /\ Holding(s, v) /\ Fetching(s, v, F, J) /\ Loading(s, v, J, sent)
      /\ Counting(v, J)
  BY DEF Browsing
<1>2. PICK a \in Nat, b \in Nat : a = v.filters + 1 /\ b = v.aggregateSeq + 1
  BY <1>1 DEF ViewType
<1>3. x = [v EXCEPT !.filters = a, !.offset = 0, !.aggregateSeq = b]
  BY <1>2 DEF Narrowed
<1>4. /\ SameFetching(v, x) /\ x.aggregateSeq = b /\ x.pageSeq = v.pageSeq
      /\ x.loaded = v.loaded /\ x.filters = a
  BY <1>1, <1>3 DEF ViewType, SameFetching
<1>5. ViewType(x)
  <2>1. x = [loaded |-> v.loaded, fetching |-> v.fetching, snapshot |-> v.snapshot,
             aggregate |-> v.aggregate, page |-> v.page, status |-> v.status,
             filters |-> a, offset |-> 0, aggregateSeq |-> b,
             pageSeq |-> v.pageSeq, fetchSeq |-> v.fetchSeq]
    BY <1>1, <1>3 DEF ViewType
  <2> QED BY <1>1, <1>2, <2>1 DEF ViewType
<1>6. PICK n : n = [request |-> AggregateRequest(x), rows |-> sent]
  OBVIOUS
<1>7. /\ n.request.type = "aggregate" /\ n.request.seq = b /\ n.request.filters = a /\ n.rows = sent
      /\ K = J \union {n} /\ AggregateRequest(x) \in Messages
  BY <1>2, <1>4, <1>6 DEF AggregateRequest, Asked, Messages
<1>8. \A j \in J : ~CurrentAggregate(x, j)
  BY <1>1, <1>2, <1>4 DEF Counting, CurrentAggregate, ViewType
<1>9. Counting(x, K)
  <2> SUFFICES ASSUME NEW j \in J
               PROVE  j.request.type = "aggregate" => j.request.seq \in Nat /\ j.request.seq <= x.aggregateSeq
    BY <1>1, <1>2, <1>4, <1>7 DEF Counting
  <2>1. v.aggregateSeq \in Nat
    BY <1>1 DEF ViewType
  <2> QED BY <1>1, <1>2, <1>4, <2>1 DEF Counting
<1>10. Drawing(x, K, sent)
  BY <1>4, <1>7, <1>8 DEF Drawing, CurrentAggregate, AggregateFits
<1>11. Fetching(s, v, F, K) /\ Loading(s, v, K, sent)
  <2>1. (\A j \in K : j \in J \/ j.request.type # "load") /\ \A j \in J : WantedLoad(v, j) => j \in K
    BY <1>7
  <2> QED BY <1>1, <2>1, JobsKept
<1>12. Holding(s, x) /\ Fetching(s, x, F, K) /\ Loading(s, x, K, sent)
  BY <1>1, <1>4, <1>11, FetchingKept
<1>13. sent \in Rows \union {None}
  BY DEF Browsing
<1> QED BY <1>4, <1>5, <1>7, <1>9, <1>10, <1>12, <1>13 DEF Browsing

LEMMA Turns ==
    ASSUME NEW s, NEW v, NEW F, NEW J, NEW sent, Browsing(s, v, F, J, sent),
           NEW x, x = Turned(v), v.loaded # None,
           NEW K, K = Asked(J, PageRequest(x), sent)
    PROVE  /\ SameFetching(v, x) /\ Browsing(s, x, F, K, sent)
           /\ PageRequest(x) \in Messages
<1>1. /\ ViewType(v) /\ Holding(s, v) /\ Fetching(s, v, F, J) /\ Loading(s, v, J, sent)
      /\ Counting(v, J) /\ Drawing(v, J, sent)
  BY DEF Browsing
<1>2. PICK a \in Nat, b \in Nat : a = v.offset + 1 /\ b = v.pageSeq + 1
  BY <1>1 DEF ViewType
<1>3. x = [v EXCEPT !.offset = a, !.pageSeq = b]
  BY <1>2 DEF Turned
<1>4. /\ SameFetching(v, x) /\ x.aggregateSeq = v.aggregateSeq /\ x.pageSeq = b
      /\ x.loaded = v.loaded /\ x.filters = v.filters /\ x.offset = a
      /\ x.aggregate = v.aggregate
  BY <1>1, <1>3 DEF ViewType, SameFetching
<1>5. ViewType(x)
  <2>1. x = [loaded |-> v.loaded, fetching |-> v.fetching, snapshot |-> v.snapshot,
             aggregate |-> v.aggregate, page |-> v.page, status |-> v.status,
             filters |-> v.filters, offset |-> a, aggregateSeq |-> v.aggregateSeq,
             pageSeq |-> b, fetchSeq |-> v.fetchSeq]
    BY <1>1, <1>3 DEF ViewType
  <2> QED BY <1>1, <1>2, <2>1 DEF ViewType
<1>6. PICK n : n = [request |-> PageRequest(x), rows |-> sent]
  OBVIOUS
<1>7. /\ n.request.type = "page" /\ n.request.seq = b /\ n.request.filters = v.filters
      /\ n.request.offset = a /\ n.rows = sent /\ v.filters \in Nat
      /\ K = J \union {n}
  BY <1>1, <1>2, <1>4, <1>6 DEF PageRequest, Asked, ViewType
<1>8. PageRequest(x) \in Messages
  BY <1>2, <1>4, <1>7 DEF PageRequest, Messages
<1>9. \A j \in J : ~CurrentPage(x, j)
  BY <1>1, <1>2, <1>4 DEF Counting, CurrentPage, ViewType
<1>10. Counting(x, K)
  <2> SUFFICES ASSUME NEW j \in J
               PROVE  j.request.type = "page" => j.request.seq \in Nat /\ j.request.seq <= x.pageSeq
    BY <1>1, <1>2, <1>4, <1>7 DEF Counting
  <2>1. v.pageSeq \in Nat
    BY <1>1 DEF ViewType
  <2> QED BY <1>1, <1>2, <1>4, <2>1 DEF Counting
<1>11. Drawing(x, K, sent)
  <2> SUFFICES ASSUME x.loaded # None, sent = x.loaded
               PROVE  /\ \A j \in K : CurrentAggregate(x, j) => AggregateFits(x, j)
                      /\ \/ \E j \in K : CurrentAggregate(x, j)
                         \/ /\ AggregateDrawn(x)
                            /\ \A j \in K : CurrentPage(x, j) => PageFits(x, j)
                            /\ \E j \in K : CurrentPage(x, j)
    BY DEF Drawing
  <2>1. /\ \A j : CurrentAggregate(x, j) <=> CurrentAggregate(v, j)
        /\ \A j : AggregateFits(x, j) <=> AggregateFits(v, j)
        /\ AggregateDrawn(x) <=> AggregateDrawn(v)
    BY <1>4 DEF CurrentAggregate, AggregateFits, AggregateDrawn
  <2>2. /\ \A j \in J : CurrentAggregate(v, j) => AggregateFits(v, j)
        /\ (\E j \in J : CurrentAggregate(v, j)) \/ AggregateDrawn(v)
    BY <1>1, <1>4 DEF Drawing
  <2>3. CurrentPage(x, n) /\ PageFits(x, n) /\ ~CurrentAggregate(x, n)
    BY <1>4, <1>7 DEF CurrentPage, PageFits, CurrentAggregate
  <2> QED BY <1>7, <1>9, <2>1, <2>2, <2>3
<1>12. Fetching(s, v, F, K) /\ Loading(s, v, K, sent)
  <2>1. (\A j \in K : j \in J \/ j.request.type # "load") /\ \A j \in J : WantedLoad(v, j) => j \in K
    BY <1>7
  <2> QED BY <1>1, <2>1, JobsKept
<1>13. Holding(s, x) /\ Fetching(s, x, F, K) /\ Loading(s, x, K, sent)
  BY <1>1, <1>4, <1>12, FetchingKept
<1>14. sent \in Rows \union {None}
  BY DEF Browsing
<1> QED BY <1>4, <1>5, <1>8, <1>10, <1>11, <1>13, <1>14 DEF Browsing

(* Answers: what the worker is left to do without the one taken.           *)
Without(J, L, j) == j \in J /\ L \subseteq J /\ J \subseteq L \union {j}

Replaced(v, of) == [LoadedView(v, of) EXCEPT !.aggregateSeq = @ + 1]

LEMMA LoadAnswered ==
    ASSUME NEW s, ServerType(s), NEW v, NEW F, NEW J, NEW sent, Browsing(s, v, F, J, sent),
           NEW j, NEW L, Without(J, L, j), WantedLoad(v, j),
           NEW x, x = Replaced(v, j.request.of),
           NEW K, K = Asked(L, AggregateRequest(x), sent),
           NEW st \in KnownStates(s)
    PROVE  /\ Browsing(s, x, F, K, sent) /\ Forward(v, x)
           /\ AggregateRequest(x) \in Messages
           /\ Reports(s, st, v, sent) => Reports(s, st, x, sent)
<1>1. /\ ViewType(v) /\ Fetching(s, v, F, J) /\ Loading(s, v, J, sent) /\ Counting(v, J)
  BY DEF Browsing
<1>2. PICK of \in Rows : of = j.request.of /\ LoadFits(s, v, j, sent)
  BY <1>1 DEF Without, WantedLoad, Loading, LoadFits
<1>3. /\ sent = of /\ NotBehind(of, v.loaded) /\ of[2] <= Revision(s, of)
      /\ v.fetching = of \/ (v.fetching = None /\ v.loaded \in {None, of})
  BY <1>2 DEF LoadFits
<1>4. F = {}
  BY <1>1 DEF Fetching, Without
<1>5. PICK a \in Nat, b \in Nat : a = v.aggregateSeq + 2 /\ b = v.pageSeq + 1
  BY <1>1 DEF ViewType
<1>6. x = [loaded |-> of, fetching |-> None, snapshot |-> of,
           aggregate |-> v.aggregate, page |-> v.page, status |-> "ready",
           filters |-> v.filters, offset |-> v.offset, aggregateSeq |-> a,
           pageSeq |-> b, fetchSeq |-> v.fetchSeq]
  <2>1. PICK c \in Nat : c = v.aggregateSeq + 1 /\ a = c + 1
    BY <1>1, <1>5 DEF ViewType
  <2>2. PICK y : y = LoadedView(v, of)
    OBVIOUS
  <2>3. y = [v EXCEPT !.loaded = of, !.fetching = None, !.snapshot = of, !.status = "ready",
                      !.aggregateSeq = c, !.pageSeq = b]
    BY <1>5, <2>1, <2>2 DEF LoadedView
  <2>4. y = [loaded |-> of, fetching |-> None, snapshot |-> of,
             aggregate |-> v.aggregate, page |-> v.page, status |-> "ready",
             filters |-> v.filters, offset |-> v.offset, aggregateSeq |-> c,
             pageSeq |-> b, fetchSeq |-> v.fetchSeq]
    BY <1>1, <2>3 DEF ViewType
  <2>5. x = [y EXCEPT !.aggregateSeq = a]
    BY <1>2, <2>1, <2>2, <2>4 DEF Replaced
  <2> QED BY <2>4, <2>5
<1>7. /\ x.loaded = of /\ x.fetching = None /\ x.snapshot = of /\ x.aggregateSeq = a /\ x.pageSeq = b
      /\ x.fetchSeq = v.fetchSeq /\ x.filters = v.filters
  BY <1>6
<1>8. ViewType(x)
  BY <1>1, <1>5, <1>6 DEF ViewType
<1>9. PICK n : n = [request |-> AggregateRequest(x), rows |-> sent]
  OBVIOUS
<1>10. /\ n.request.type = "aggregate" /\ n.request.seq = a /\ n.request.filters = x.filters
       /\ n.rows = sent /\ K = L \union {n} /\ AggregateRequest(x) \in Messages
  BY <1>5, <1>7, <1>8, <1>9 DEF AggregateRequest, Asked, Messages, ViewType
<1>11. Holding(s, x)
  BY <1>3, <1>7 DEF Holding
<1>12. Fetching(s, x, F, K)
  BY <1>4, <1>7 DEF Fetching
<1>13. Loading(s, x, K, sent)
  <2> SUFFICES ASSUME NEW i \in L, i.request.type = "load" PROVE LoadFits(s, x, i, sent)
    BY <1>10 DEF Loading
  <2>1. LoadFits(s, v, i, sent)
    BY <1>1 DEF Without, Loading
  <2>2. NotBehind(of, x.loaded)
    BY <1>2, <1>7 DEF NotBehind, Rows
  <2>3. WantedLoad(x, i) => WantedLoad(v, i)
    BY <1>7 DEF WantedLoad
  <2>4. WantedLoad(x, i) => i.request.of = of
    BY <1>3, <2>1, <2>3 DEF LoadFits
  <2> QED BY <1>3, <1>7, <2>1, <2>2, <2>4 DEF LoadFits
<1>14. \A i \in L : ~CurrentAggregate(x, i)
  <2> SUFFICES ASSUME NEW i \in J, i.request.type = "aggregate" PROVE i.request.seq # a
    BY <1>7 DEF Without, CurrentAggregate
  <2>1. i.request.seq \in Nat /\ i.request.seq <= v.aggregateSeq /\ v.aggregateSeq \in Nat
    BY <1>1 DEF Counting, ViewType
  <2> QED BY <1>5, <2>1
<1>15. Counting(x, K)
  <2> SUFFICES ASSUME NEW i \in J
               PROVE  /\ i.request.type = "aggregate" => i.request.seq \in Nat /\ i.request.seq <= a
                      /\ i.request.type = "page" => i.request.seq \in Nat /\ i.request.seq <= b
    BY <1>5, <1>7, <1>10 DEF Counting, Without
  <2>1. v.aggregateSeq \in Nat /\ v.pageSeq \in Nat
    BY <1>1 DEF ViewType
  <2> QED BY <1>1, <1>5, <2>1 DEF Counting
<1>16. Drawing(x, K, sent)
  BY <1>7, <1>10, <1>14 DEF Drawing, CurrentAggregate, AggregateFits
<1>17. Forward(v, x)
  BY <1>3, <1>7 DEF Forward, NotBehind
<1>18. Reports(s, st, v, sent) => Reports(s, st, x, sent)
  <2>1. st.rows # None
    BY RowsAreNotNone DEF KnownStates, States
  <2> QED BY <1>3, <1>7, <2>1 DEF Reports
<1> QED BY <1>3, <1>8, <1>10, <1>11, <1>12, <1>13, <1>15, <1>16, <1>17, <1>18 DEF Browsing

LEMMA LeftOver ==
    ASSUME NEW s, NEW v, NEW F, NEW J, NEW sent, Browsing(s, v, F, J, sent),
           NEW j, NEW L, Without(J, L, j), ~WantedLoad(v, j)
    PROVE  Fetching(s, v, F, L) /\ Loading(s, v, L, sent) /\ Counting(v, L)
<1>1. Fetching(s, v, F, J) /\ Loading(s, v, J, sent) /\ Counting(v, J)
  BY DEF Browsing
<1>2. (\A i \in L : i \in J \/ i.request.type # "load") /\ \A i \in J : WantedLoad(v, i) => i \in L
  BY DEF Without
<1>3. Fetching(s, v, F, L) /\ Loading(s, v, L, sent)
  BY <1>1, <1>2, JobsKept
<1>4. Counting(v, L)
  BY <1>1 DEF Counting, Without
<1> QED BY <1>3, <1>4

LEMMA NothingAnswered ==
    ASSUME NEW s, NEW v, NEW F, NEW J, NEW sent, Browsing(s, v, F, J, sent),
           NEW j, NEW L, Without(J, L, j), ~WantedLoad(v, j),
           ~CurrentAggregate(v, j), ~CurrentPage(v, j)
    PROVE  Browsing(s, v, F, L, sent)
<1>1. Fetching(s, v, F, L) /\ Loading(s, v, L, sent) /\ Counting(v, L)
  BY LeftOver
<1>2. \A i : i \in J /\ i # j => i \in L
  BY DEF Without
<1>3. \A i \in J : (CurrentAggregate(v, i) \/ CurrentPage(v, i)) => i \in L
  BY <1>2
<1>4. Drawing(v, J, sent)
  BY DEF Browsing
<1>5. Drawing(v, L, sent)
  BY <1>3, <1>4 DEF Drawing, Without
<1> QED BY <1>1, <1>5 DEF Browsing

Aggregated(v, j) ==
    [v EXCEPT !.aggregate = [of |-> j.rows, filters |-> j.request.filters], !.status = "ready",
              !.pageSeq = IF v.loaded = None THEN @ ELSE @ + 1]
Paged(v, j) ==
    [v EXCEPT !.page = [of |-> j.rows, filters |-> j.request.filters, offset |-> j.request.offset]]

LEMMA AggregateOfNothing ==
    ASSUME NEW s, NEW v, NEW F, NEW J, NEW sent, Browsing(s, v, F, J, sent),
           NEW j, NEW L, Without(J, L, j), CurrentAggregate(v, j), v.loaded = None,
           NEW x, x = Aggregated(v, j)
    PROVE  SameFetching(v, x) /\ Browsing(s, x, F, L, sent)
<1>1. ViewType(v) /\ Holding(s, v) /\ sent \in Rows \union {None}
  BY DEF Browsing
<1>2. ~WantedLoad(v, j)
  BY DEF CurrentAggregate, WantedLoad
<1>3. Fetching(s, v, F, L) /\ Loading(s, v, L, sent) /\ Counting(v, L)
  BY <1>2, LeftOver
<1>4. PICK aggregate : aggregate = [of |-> j.rows, filters |-> j.request.filters]
  OBVIOUS
<1>5. x = [v EXCEPT !.aggregate = aggregate, !.status = "ready", !.pageSeq = v.pageSeq]
  BY <1>4 DEF Aggregated
<1>6. x = [loaded |-> v.loaded, fetching |-> v.fetching, snapshot |-> v.snapshot,
           aggregate |-> aggregate, page |-> v.page, status |-> "ready",
           filters |-> v.filters, offset |-> v.offset, aggregateSeq |-> v.aggregateSeq,
           pageSeq |-> v.pageSeq, fetchSeq |-> v.fetchSeq]
  BY <1>1, <1>5 DEF ViewType
<1>7. SameFetching(v, x) /\ ViewType(x) /\ Counting(x, L) /\ Drawing(x, L, sent)
  BY <1>1, <1>3, <1>6 DEF SameFetching, ViewType, Counting, Drawing
<1>8. Holding(s, x) /\ Fetching(s, x, F, L) /\ Loading(s, x, L, sent)
  BY <1>1, <1>3, <1>7, FetchingKept
<1> QED BY <1>1, <1>7, <1>8 DEF Browsing

LEMMA AggregateAnswered ==
    ASSUME NEW s, NEW v, NEW F, NEW J, NEW sent, Browsing(s, v, F, J, sent),
           NEW j, NEW L, Without(J, L, j), CurrentAggregate(v, j), v.loaded # None,
           NEW x, x = Aggregated(v, j),
           NEW K, K = Asked(L, PageRequest(x), sent)
    PROVE  /\ SameFetching(v, x) /\ Browsing(s, x, F, K, sent)
           /\ PageRequest(x) \in Messages
<1>1. ViewType(v) /\ Holding(s, v) /\ Drawing(v, J, sent) /\ sent \in Rows \union {None}
  BY DEF Browsing
<1>2. ~WantedLoad(v, j)
  BY DEF CurrentAggregate, WantedLoad
<1>3. Fetching(s, v, F, L) /\ Loading(s, v, L, sent) /\ Counting(v, L)
  BY <1>2, LeftOver
<1>4. PICK b \in Nat : b = v.pageSeq + 1
  BY <1>1 DEF ViewType
<1>5. PICK aggregate : aggregate = [of |-> j.rows, filters |-> j.request.filters]
  OBVIOUS
<1>6. x = [v EXCEPT !.aggregate = aggregate, !.status = "ready", !.pageSeq = b]
  BY <1>4, <1>5 DEF Aggregated
<1>7. x = [loaded |-> v.loaded, fetching |-> v.fetching, snapshot |-> v.snapshot,
           aggregate |-> aggregate, page |-> v.page, status |-> "ready",
           filters |-> v.filters, offset |-> v.offset, aggregateSeq |-> v.aggregateSeq,
           pageSeq |-> b, fetchSeq |-> v.fetchSeq]
  BY <1>1, <1>6 DEF ViewType
<1>8. /\ SameFetching(v, x) /\ x.loaded = v.loaded /\ x.filters = v.filters /\ x.offset = v.offset
      /\ x.aggregateSeq = v.aggregateSeq /\ x.pageSeq = b /\ x.aggregate = aggregate
  BY <1>7 DEF SameFetching
<1>9. ViewType(x)
  BY <1>1, <1>4, <1>7 DEF ViewType
<1>10. PICK n : n = [request |-> PageRequest(x), rows |-> sent]
  OBVIOUS
<1>11. /\ n.request.type = "page" /\ n.request.seq = b /\ n.request.filters = v.filters
       /\ n.request.offset = v.offset /\ n.rows = sent /\ K = L \union {n}
  BY <1>8, <1>10 DEF PageRequest, Asked
<1>12. PageRequest(x) \in Messages
  BY <1>9 DEF PageRequest, Messages, ViewType
<1>13. \A i \in L : ~CurrentPage(x, i)
  BY <1>1, <1>3, <1>4, <1>8 DEF Counting, CurrentPage, ViewType
<1>14. Counting(x, K)
  <2> SUFFICES ASSUME NEW i \in L
               PROVE  /\ i.request.type = "aggregate" => i.request.seq \in Nat /\ i.request.seq <= x.aggregateSeq
                      /\ i.request.type = "page" => i.request.seq \in Nat /\ i.request.seq <= x.pageSeq
    BY <1>4, <1>8, <1>11 DEF Counting
  <2>1. v.pageSeq \in Nat
    BY <1>1 DEF ViewType
  <2> QED BY <1>3, <1>4, <1>8, <2>1 DEF Counting
<1>15. Drawing(x, K, sent)
  <2> SUFFICES ASSUME sent = v.loaded
               PROVE  /\ \A i \in K : CurrentAggregate(x, i) => AggregateFits(x, i)
                      /\ AggregateDrawn(x)
                      /\ \A i \in K : CurrentPage(x, i) => PageFits(x, i)
                      /\ \E i \in K : CurrentPage(x, i)
    BY <1>8 DEF Drawing
  <2>1. \A i \in J : CurrentAggregate(v, i) => AggregateFits(v, i)
    BY <1>1 DEF Drawing
  <2>2. /\ \A i : CurrentAggregate(x, i) <=> CurrentAggregate(v, i)
        /\ \A i : AggregateFits(x, i) <=> AggregateFits(v, i)
    BY <1>8 DEF CurrentAggregate, AggregateFits
  <2>3. AggregateDrawn(x)
    BY <1>5, <1>8, <2>1 DEF AggregateDrawn, AggregateFits, Without
  <2>4. CurrentPage(x, n) /\ PageFits(x, n) /\ ~CurrentAggregate(x, n)
    BY <1>8, <1>11 DEF CurrentPage, PageFits, CurrentAggregate
  <2>5. \A i \in K : CurrentAggregate(x, i) => AggregateFits(x, i)
    BY <1>11, <2>1, <2>2, <2>4 DEF Without
  <2> QED BY <1>11, <1>13, <2>3, <2>4, <2>5
<1>16. Fetching(s, v, F, K) /\ Loading(s, v, K, sent)
  <2>1. (\A i \in K : i \in L \/ i.request.type # "load") /\ \A i \in L : WantedLoad(v, i) => i \in K
    BY <1>11
  <2> QED BY <1>3, <2>1, JobsKept
<1>17. Holding(s, x) /\ Fetching(s, x, F, K) /\ Loading(s, x, K, sent)
  BY <1>1, <1>8, <1>16, FetchingKept
<1> QED BY <1>1, <1>8, <1>9, <1>12, <1>14, <1>15, <1>17 DEF Browsing

LEMMA PageAnswered ==
    ASSUME NEW s, NEW v, NEW F, NEW J, NEW sent, Browsing(s, v, F, J, sent),
           NEW j, NEW L, Without(J, L, j), CurrentPage(v, j),
           NEW x, x = Paged(v, j)
    PROVE  SameFetching(v, x) /\ Browsing(s, x, F, L, sent)
<1>1. ViewType(v) /\ Holding(s, v) /\ Drawing(v, J, sent) /\ sent \in Rows \union {None}
  BY DEF Browsing
<1>2. ~WantedLoad(v, j) /\ ~CurrentAggregate(v, j)
  BY DEF CurrentPage, WantedLoad, CurrentAggregate
<1>3. Fetching(s, v, F, L) /\ Loading(s, v, L, sent) /\ Counting(v, L)
  BY <1>2, LeftOver
<1>4. PICK page : page = [of |-> j.rows, filters |-> j.request.filters, offset |-> j.request.offset]
  OBVIOUS
<1>5. x = [loaded |-> v.loaded, fetching |-> v.fetching, snapshot |-> v.snapshot,
           aggregate |-> v.aggregate, page |-> page, status |-> v.status,
           filters |-> v.filters, offset |-> v.offset, aggregateSeq |-> v.aggregateSeq,
           pageSeq |-> v.pageSeq, fetchSeq |-> v.fetchSeq]
  <2>1. x = [v EXCEPT !.page = page]
    BY <1>4 DEF Paged
  <2> QED BY <1>1, <2>1 DEF ViewType
<1>6. /\ SameFetching(v, x) /\ x.loaded = v.loaded /\ x.filters = v.filters /\ x.offset = v.offset
      /\ x.aggregateSeq = v.aggregateSeq /\ x.pageSeq = v.pageSeq /\ x.aggregate = v.aggregate
      /\ x.page = page
  BY <1>5 DEF SameFetching
<1>7. ViewType(x) /\ Counting(x, L)
  BY <1>1, <1>3, <1>5 DEF ViewType, Counting
<1>8. Drawing(x, L, sent)
  <2>1. \A i : /\ CurrentAggregate(x, i) <=> CurrentAggregate(v, i)
               /\ CurrentPage(x, i) <=> CurrentPage(v, i)
               /\ AggregateFits(x, i) <=> AggregateFits(v, i)
               /\ PageFits(x, i) <=> PageFits(v, i)
    BY <1>6 DEF CurrentAggregate, CurrentPage, AggregateFits, PageFits
  <2>2. (AggregateDrawn(x) <=> AggregateDrawn(v)) /\ (PageFits(v, j) => PageDrawn(x))
    BY <1>4, <1>6 DEF AggregateDrawn, PageFits, PageDrawn
  <2>3. \A i \in J : CurrentAggregate(v, i) => i \in L
    BY <1>2 DEF Without
  <2> SUFFICES ASSUME v.loaded # None, sent = v.loaded
               PROVE  /\ \A i \in L : CurrentAggregate(v, i) => AggregateFits(v, i)
                      /\ \/ \E i \in L : CurrentAggregate(v, i)
                         \/ /\ AggregateDrawn(v)
                            /\ \A i \in L : CurrentPage(v, i) => PageFits(v, i)
                            /\ PageDrawn(x)
    BY <1>6, <2>1, <2>2 DEF Drawing
  <2> QED BY <1>1, <2>2, <2>3 DEF Drawing, Without
<1>9. Holding(s, x) /\ Fetching(s, x, F, L) /\ Loading(s, x, L, sent)
  BY <1>1, <1>3, <1>6, FetchingKept
<1> QED BY <1>1, <1>6, <1>7, <1>8, <1>9 DEF Browsing

(* A state is not outdated by what leaves rows and fetches alone. *)
LEMMA ReportsKept ==
    ASSUME NEW s, NEW st, NEW v, NEW x, NEW sent, SameFetching(v, x), Reports(s, st, v, sent)
    PROVE  Reports(s, st, x, sent)
BY DEF SameFetching, Reports

---------------------------------------------------------------------------
(* The inductive invariant of the tab.                                     *)
Streams(s, str, reps, st) ==
    /\ str = [up |-> str.up, frames |-> str.frames] /\ str.frames \in Seq(KnownStates(s))
    /\ reps \subseteq KnownStates(s) /\ st \in KnownStates(s)

TabInv ==
    /\ ServerType(server)
    /\ Streams(server, stream, replies, state)
    /\ \E J : Tracks(worker, J) /\ Browsing(server, view, fetches, J, worker.sent)
    /\ astray \in BOOLEAN
    /\ ~astray => Reports(server, state, view, worker.sent)

LEMMA StatesAreKnown ==
    ASSUME NEW s, ServerType(s)
    PROVE  StateOf(s) \in KnownStates(s)
<1>1. s.target \in Targets /\ s.entry[s.target].status \in Statuses /\ s.entry[s.target].revision \in Nat
  BY DEF ServerType
<1>2. PICK status \in Statuses : status = IF s.asked THEN s.entry[s.target].status ELSE "idle"
  BY <1>1 DEF Statuses
<1>3. PICK rows \in Rows : rows = <<s.target, s.entry[s.target].revision>>
  BY <1>1 DEF Rows
<1>4. StateOf(s) = [target |-> s.target, status |-> status, rows |-> rows]
  BY <1>2, <1>3 DEF StateOf
<1>5. rows[2] <= Revision(s, rows)
  BY <1>1, <1>3 DEF Revision
<1>6. StateOf(s) \in States /\ StateOf(s).rows = rows
  BY <1>1, <1>4 DEF States
<1> QED BY <1>5, <1>6 DEF KnownStates

(* The panel moves on, and announces the state it is in now. *)
LEMMA PanelMoves ==
    ASSUME TabInv, ServerType(server'), Ahead(server, server'),
           Announce(server') \/ UNCHANGED stream,
           replies' \subseteq replies \union {StateOf(server')},
           UNCHANGED <<state, view, fetches, worker, astray>>
    PROVE  TabInv'
<1>1. ServerType(server) /\ Streams(server, stream, replies, state)
  BY DEF TabInv
<1>2. KnownStates(server) \subseteq KnownStates(server') /\ StateOf(server') \in KnownStates(server')
  BY <1>1, MoreIsKnown, StatesAreKnown
<1>3. PICK frames \in Seq(KnownStates(server')) : frames = stream.frames
  BY <1>1, <1>2, SeqMonotonic DEF Streams
<1>4. /\ stream' = [up |-> stream'.up, frames |-> stream'.frames]
      /\ stream'.frames \in Seq(KnownStates(server'))
  <2>1. CASE stream' = stream
    BY <1>1, <1>3, <2>1 DEF Streams
  <2>2. CASE stream' = [stream EXCEPT !.frames = Append(@, StateOf(server'))]
    <3>1. PICK more \in Seq(KnownStates(server')) : more = Append(frames, StateOf(server'))
      BY <1>2, <1>3, AppendProperties
    <3>2. stream' = [stream EXCEPT !.frames = more]
      BY <1>3, <2>2, <3>1
    <3> QED BY <1>1, <3>1, <3>2 DEF Streams
  <2> QED BY <2>1, <2>2 DEF Announce
<1>5. Streams(server', stream', replies', state')
  BY <1>1, <1>2, <1>4 DEF Streams
<1>6. \E J : Tracks(worker', J) /\ Browsing(server', view', fetches', J, worker'.sent)
  <2>1. PICK J : Tracks(worker, J) /\ Browsing(server, view, fetches, J, worker.sent)
    BY DEF TabInv
  <2>2. Browsing(server', view, fetches, J, worker.sent)
    BY <1>1, <2>1, ServerMoves
  <2> QED BY <2>1, <2>2
<1>7. Reports(server, state, view, worker.sent) => Reports(server', state', view', worker'.sent)
  BY <1>1, ServerMovesReports DEF Streams
<1>8. astray' = astray /\ astray \in BOOLEAN /\ (~astray => Reports(server, state, view, worker.sent))
  BY DEF TabInv
<1> QED BY <1>5, <1>6, <1>7, <1>8 DEF TabInv

LEMMA EntryMoves ==
    ASSUME NEW s, ServerType(s), NEW t \in Targets,
           NEW asked \in BOOLEAN, NEW status \in Statuses, NEW revision \in Nat,
           s.entry[t].revision <= revision,
           NEW r, r = [s EXCEPT !.asked = asked,
                                !.entry = [@ EXCEPT ![t] = [status |-> status, revision |-> revision]]]
    PROVE  ServerType(r) /\ Ahead(s, r)
<1>1. PICK entry : entry = [s.entry EXCEPT ![t] = [status |-> status, revision |-> revision]]
  OBVIOUS
<1>2. entry \in [Targets -> [status : Statuses, revision : Nat]]
  BY <1>1 DEF ServerType
<1>3. \A u \in Targets : s.entry[u].revision <= entry[u].revision
  <2> SUFFICES ASSUME NEW u \in Targets PROVE s.entry[u].revision <= entry[u].revision
    OBVIOUS
  <2>1. CASE u = t
    BY <1>1, <2>1 DEF ServerType
  <2>2. CASE u # t
    <3>1. entry[u] = s.entry[u] /\ s.entry[u].revision \in Nat
      BY <1>1, <2>2 DEF ServerType
    <3> QED BY <3>1
  <2> QED BY <2>1, <2>2
<1>4. r = [s EXCEPT !.asked = asked, !.entry = entry]
  BY <1>1
<1>5. r.entry = entry /\ r \in [target : Targets, asked : BOOLEAN,
                                entry : [Targets -> [status : Statuses, revision : Nat]]]
  BY <1>2, <1>4 DEF ServerType
<1> QED BY <1>3, <1>5 DEF ServerType, Ahead

LEMMA Requesting ==
    ASSUME TabInv, NEW force \in BOOLEAN, RequestRows(force)
    PROVE  TabInv' /\ view' = view
<1>1. ServerType(server)
  BY DEF TabInv
<1>2. PICK t \in Targets : t = server.target
  BY <1>1 DEF ServerType
<1>3. PICK status \in Statuses, revision \in Nat :
        /\ revision = server.entry[t].revision
        /\ server' = [server EXCEPT !.asked = TRUE, !.entry[t].status = status]
  <2>1. PICK status : /\ status = (IF ~force /\ server.entry[t].status \in {"ready", "loading"}
                                     THEN server.entry[t].status ELSE "loading")
                      /\ server' = [server EXCEPT !.asked = TRUE, !.entry[t].status = status]
    BY <1>2 DEF RequestRows
  <2>2. server.entry[t].status \in Statuses /\ "loading" \in Statuses /\ server.entry[t].revision \in Nat
    BY <1>1 DEF ServerType, Statuses
  <2> QED BY <2>1, <2>2
<1>4. [server.entry[t] EXCEPT !.status = status] = [status |-> status, revision |-> revision]
  <2>1. server.entry[t] \in [status : Statuses, revision : Nat]
    BY <1>1 DEF ServerType
  <2> QED BY <1>3, <2>1
<1>5. server' = [server EXCEPT !.asked = TRUE,
                               !.entry = [@ EXCEPT ![t] = [status |-> status, revision |-> revision]]]
  BY <1>3, <1>4
<1>6. ServerType(server') /\ Ahead(server, server')
  <2>1. TRUE \in BOOLEAN /\ server.entry[t].revision <= revision
    BY <1>3
  <2>2. PICK r : r = server'
    OBVIOUS
  <2>3. r = [server EXCEPT !.asked = TRUE,
                           !.entry = [@ EXCEPT ![t] = [status |-> status, revision |-> revision]]]
    BY <1>5, <2>2
  <2>4. ServerType(r) /\ Ahead(server, r)
    BY <1>1, <2>1, <2>3, EntryMoves
  <2> QED BY <2>2, <2>4
<1>7. /\ Announce(server') /\ replies' = replies
      /\ UNCHANGED <<state, view, fetches, worker, astray>>
  BY DEF RequestRows
<1> QED BY <1>6, <1>7, PanelMoves

LEMMA Ending ==
    ASSUME TabInv, NEW t \in Targets, NEW status \in {"ready", "error"}, EndRows(t, status)
    PROVE  TabInv' /\ view' = view
<1>1. ServerType(server)
  BY DEF TabInv
<1>2. PICK before \in Nat, revision \in Nat :
        /\ before = server.entry[t].revision /\ before <= revision
        /\ revision = IF status = "ready" THEN before + 1 ELSE before
  BY <1>1 DEF ServerType
<1>3. server' = [server EXCEPT !.entry[t].status = status, !.entry[t].revision = revision]
  BY <1>2 DEF EndRows
<1>4. status \in Statuses
  BY DEF Statuses
<1>5. PICK asked \in BOOLEAN : asked = server.asked
  BY <1>1 DEF ServerType
<1>6. server' = [server EXCEPT !.asked = asked,
                               !.entry = [@ EXCEPT ![t] = [status |-> status, revision |-> revision]]]
  <2>1. server.entry[t] \in [status : Statuses, revision : Nat]
    BY <1>1 DEF ServerType
  <2>2. [[server.entry[t] EXCEPT !.status = status] EXCEPT !.revision = revision]
          = [status |-> status, revision |-> revision]
    <3>1. PICK e \in [status : Statuses, revision : Nat] : e = server.entry[t]
      BY <2>1
    <3>2. PICK g : g = [e EXCEPT !.status = status]
      OBVIOUS
    <3>3. g = [status |-> status, revision |-> e.revision]
      BY <3>1, <3>2
    <3>4. [g EXCEPT !.revision = revision] = [status |-> status, revision |-> revision]
      BY <3>3
    <3> QED BY <3>1, <3>2, <3>4
  <2>3. PICK entry : entry = [server.entry EXCEPT ![t] = [status |-> status, revision |-> revision]]
    OBVIOUS
  <2>4. server' = [server EXCEPT !.entry = entry]
    BY <1>1, <1>3, <2>2, <2>3 DEF ServerType
  <2>5. server' = [server EXCEPT !.asked = asked, !.entry = entry]
    BY <1>1, <1>5, <2>4 DEF ServerType
  <2> QED BY <2>3, <2>5
<1>7. ServerType(server') /\ Ahead(server, server')
  <2>1. PICK r : r = server'
    OBVIOUS
  <2>2. r = [server EXCEPT !.asked = asked,
                           !.entry = [@ EXCEPT ![t] = [status |-> status, revision |-> revision]]]
    BY <1>6, <2>1
  <2>3. ServerType(r) /\ Ahead(server, r)
    BY <1>1, <1>2, <1>4, <2>2, EntryMoves
  <2> QED BY <2>1, <2>3
<1>8. /\ Announce(server') \/ UNCHANGED stream
      /\ replies' = replies
      /\ UNCHANGED <<state, view, fetches, worker, astray>>
  BY DEF EndRows
<1> QED BY <1>7, <1>8, PanelMoves

LEMMA Switching ==
    ASSUME NEW s, ServerType(s), NEW t \in Targets,
           NEW r, r = s \/ r = [s EXCEPT !.target = t, !.asked = FALSE]
    PROVE  ServerType(r) /\ Ahead(s, r)
<1>1. r.entry = s.entry /\ ServerType(r)
  <2>1. CASE r = [s EXCEPT !.target = t, !.asked = FALSE]
    BY <2>1 DEF ServerType
  <2> QED BY <2>1
<1>2. \A u \in Targets : s.entry[u].revision \in Nat
  BY DEF ServerType
<1> QED BY <1>1, <1>2 DEF Ahead

LEMMA Posting ==
    ASSUME TabInv, NEW t \in Targets, Post(t) \/ Retarget(t)
    PROVE  TabInv' /\ view' = view
<1>1. ServerType(server)
  BY DEF TabInv
<1>2. server' = server \/ server' = [server EXCEPT !.target = t, !.asked = FALSE]
  BY DEF Post, Retarget, Switched
<1>3. ServerType(server') /\ Ahead(server, server')
  BY <1>1, <1>2, Switching
<1>4. Announce(server')
  BY DEF Post, Retarget
<1>5. /\ replies' \subseteq replies \union {StateOf(server')}
      /\ UNCHANGED <<state, view, fetches, worker, astray>>
  BY DEF Post, Retarget
<1> QED BY <1>3, <1>4, <1>5, PanelMoves

LEMMA Connecting ==
    ASSUME TabInv, Disconnect \/ Reconnect
    PROVE  TabInv' /\ view' = view
<1>1. UNCHANGED <<server, replies, state, view, fetches, worker, astray>>
  BY DEF Disconnect, Reconnect
<1>2. ServerType(server) /\ Streams(server, stream, replies, state)
  BY DEF TabInv
<1>3. PICK now \in KnownStates(server) : now = StateOf(server)
  BY <1>2, StatesAreKnown
<1>4. /\ stream' = [up |-> stream'.up, frames |-> stream'.frames]
      /\ stream'.frames \in Seq(KnownStates(server))
  <2>1. CASE Disconnect
    BY <2>1 DEF Disconnect
  <2>2. CASE Reconnect
    <3>1. stream' = [up |-> TRUE, frames |-> <<now>>]
      BY <1>3, <2>2 DEF Reconnect
    <3> QED BY <3>1
  <2> QED BY <2>1, <2>2
<1>5. Streams(server', stream', replies', state')
  BY <1>1, <1>2, <1>4 DEF Streams
<1> QED BY <1>1, <1>5 DEF TabInv

LEMMA ForwardWhenKept ==
    ASSUME NEW v, ViewType(v), NEW x, x.loaded = v.loaded
    PROVE  Forward(v, x)
BY DEF ViewType, Forward, Rows

(* What a state does to the view, to its fetches and to what is expected.  *)
LEMMA Arriving ==
    ASSUME ServerType(server), NEW v, NEW F, NEW J, NEW sent, Browsing(server, v, F, J, sent),
           NEW s \in KnownStates(server),
           view' = SyncedView(v, s), fetches' = SyncedWith(v, F, s),
           v.loaded # None => v.fetching = view.fetching /\ sent = worker.sent
    PROVE  /\ Browsing(server, view', fetches', J, sent) /\ view'.loaded = v.loaded
           /\ s.status = "ready" /\ ~Overtaking(v, s) => Reports(server, s, view', sent)
<1>1. s.rows # None
  BY RowsAreNotNone DEF KnownStates, States
<1>2. /\ Browsing(server, view', fetches', J, sent) /\ view'.loaded = v.loaded
      /\ s.status = "ready" /\ (s.rows = v.loaded => v.fetching = None /\ sent = v.loaded)
           => Reports(server, s, view', sent)
  BY StatesTaken
<1>3. ~Overtaking(v, s) => (s.rows = v.loaded => v.fetching = None /\ sent = v.loaded)
  BY <1>1 DEF Overtaking, SameRows
<1> QED BY <1>2, <1>3

LEMMA TakingAFrame ==
    ASSUME TabInv, TakeFrame
    PROVE  TabInv' /\ Forward(view, view')
<1>1. ServerType(server) /\ Streams(server, stream, replies, state) /\ astray \in BOOLEAN
  BY DEF TabInv
<1>2. PICK J : Tracks(worker, J) /\ Browsing(server, view, fetches, J, worker.sent)
  BY DEF TabInv
<1>3. PICK frames \in Seq(KnownStates(server)) : frames = stream.frames /\ frames # <<>>
  BY <1>1 DEF TakeFrame, Streams
<1>4. PICK s \in KnownStates(server), rest \in Seq(KnownStates(server)) :
        s = Head(frames) /\ rest = Tail(frames)
  BY <1>3, HeadTailProperties
<1>5. /\ stream' = [stream EXCEPT !.frames = rest] /\ state' = s
      /\ UNCHANGED <<server, replies, events>>
  BY <1>3, <1>4 DEF TakeFrame
<1>6. Streams(server', stream', replies', state')
  <2>1. stream' = [up |-> stream'.up, frames |-> stream'.frames] /\ stream'.frames = rest
    BY <1>1, <1>5 DEF Streams
  <2> QED BY <1>1, <1>4, <1>5, <2>1 DEF Streams
<1>7. ViewType(view)
  BY <1>2 DEF Browsing
<1>8. CASE s.target # state.target
  <2>1. /\ Sync(ResetView(view), s) /\ worker' = AskRows(worker, [type |-> "release"])
    BY <1>3, <1>4, <1>8 DEF TakeFrame
  <2>2. PICK v : v = ResetView(view)
    OBVIOUS
  <2>3. PICK K : K = J \union {[request |-> [type |-> "release"], rows |-> None]}
    OBVIOUS
  <2>4. Browsing(server, v, {}, K, None) /\ v.fetchSeq # view.fetchSeq /\ v.loaded = None
    BY <1>2, <2>2, <2>3, Resets
  <2>5. /\ view' = SyncedView(v, s) /\ fetches' = SyncedWith(v, {}, s)
        /\ astray' = IF s.status = "ready" THEN Overtaking(v, s) ELSE astray
    BY <2>1, <2>2, <2>4 DEF Sync, SyncedFetches, SyncedWith
  <2>6. Tracks(worker', K) /\ worker'.sent = None
    <3>1. PICK m \in Messages : m = [type |-> "release"]
      BY DEF Messages
    <3>2. Effect(m, worker.sent) = None
      BY <3>1 DEF Effect
    <3>3. Tracks(worker', J \union {[request |-> m, rows |-> None]}) /\ worker'.sent = None
      BY <1>2, <2>1, <3>1, <3>2, AskingAddsAJob
    <3> QED BY <2>3, <3>1, <3>3
  <2>7. /\ Browsing(server, view', fetches', K, None) /\ view'.loaded = None
        /\ s.status = "ready" /\ ~Overtaking(v, s) => Reports(server, s, view', None)
    BY <1>1, <2>4, <2>5, Arriving
  <2>8. ~Overtaking(v, s)
    BY <2>4, RowsAreNotNone DEF Overtaking, SameRows, KnownStates, States
  <2>9. Reports(server, s, view', None)
    BY <2>7, <2>8 DEF Reports
  <2>10. astray' \in BOOLEAN
    BY <1>1, <2>5 DEF Overtaking
  <2>11. Forward(view, view')
    BY <2>7 DEF Forward
  <2> QED BY <1>1, <1>5, <1>6, <2>6, <2>7, <2>9, <2>10, <2>11 DEF TabInv
<1>9. CASE s.target = state.target
  <2>1. Sync(view, s) /\ UNCHANGED worker
    BY <1>3, <1>4, <1>9 DEF TakeFrame
  <2>2. /\ view' = SyncedView(view, s) /\ fetches' = SyncedWith(view, fetches, s)
        /\ astray' = IF s.status = "ready" THEN Overtaking(view, s) ELSE astray
    BY <2>1 DEF Sync, SyncedFetches, SyncedWith
  <2>3. /\ Browsing(server, view', fetches', J, worker.sent) /\ view'.loaded = view.loaded
        /\ s.status = "ready" /\ ~Overtaking(view, s) => Reports(server, s, view', worker.sent)
    BY <1>1, <1>2, <2>2, Arriving
  <2>4. astray' \in BOOLEAN
    BY <1>1, <2>2 DEF Overtaking
  <2>5. ~astray' => Reports(server, s, view', worker.sent)
    BY <2>2, <2>3 DEF Reports
  <2>6. Forward(view, view')
    BY <1>7, <2>3, ForwardWhenKept
  <2> QED BY <1>1, <1>2, <1>5, <1>6, <2>1, <2>3, <2>4, <2>5, <2>6 DEF TabInv
<1> QED BY <1>8, <1>9

LEMMA TakingAReply ==
    ASSUME TabInv, NEW s \in replies, TakeReply(s)
    PROVE  TabInv' /\ Forward(view, view')
<1>1. ServerType(server) /\ Streams(server, stream, replies, state) /\ astray \in BOOLEAN
  BY DEF TabInv
<1>2. PICK J : Tracks(worker, J) /\ Browsing(server, view, fetches, J, worker.sent)
  BY DEF TabInv
<1>3. s \in KnownStates(server) /\ ViewType(view)
  BY <1>1, <1>2 DEF Streams, Browsing
<1>4. /\ replies' = replies \ {s} /\ state' = s /\ Sync(view, s)
      /\ UNCHANGED <<server, stream, worker, events>>
  BY DEF TakeReply
<1>5. Streams(server', stream', replies', state')
  BY <1>1, <1>3, <1>4 DEF Streams
<1>6. /\ view' = SyncedView(view, s) /\ fetches' = SyncedWith(view, fetches, s)
      /\ astray' = IF s.status = "ready" THEN Overtaking(view, s) ELSE astray
  BY <1>4 DEF Sync, SyncedFetches, SyncedWith
<1>7. /\ Browsing(server, view', fetches', J, worker.sent) /\ view'.loaded = view.loaded
      /\ s.status = "ready" /\ ~Overtaking(view, s) => Reports(server, s, view', worker.sent)
  BY <1>1, <1>2, <1>3, <1>6, Arriving
<1>8. astray' \in BOOLEAN
  BY <1>1, <1>6 DEF Overtaking
<1>9. ~astray' => Reports(server, s, view', worker.sent)
  BY <1>6, <1>7 DEF Reports
<1>10. Forward(view, view')
  BY <1>3, <1>7, ForwardWhenKept
<1> QED BY <1>1, <1>2, <1>4, <1>5, <1>7, <1>8, <1>9, <1>10 DEF TabInv

(* A step of the tab that leaves the panel and its states alone. *)
LEMMA TabMoves ==
    ASSUME TabInv, UNCHANGED <<server, stream, replies, state, astray>>,
           NEW K, Tracks(worker', K), Browsing(server, view', fetches', K, worker'.sent),
           Reports(server, state, view, worker.sent) => Reports(server, state, view', worker'.sent)
    PROVE  TabInv'
<1>1. ~astray' => Reports(server', state', view', worker'.sent)
  BY DEF TabInv
<1> QED BY <1>1 DEF TabInv

LEMMA Serving ==
    ASSUME TabInv, NEW f \in fetches, Serve(f)
    PROVE  TabInv' /\ view' = view
<1>1. ServerType(server)
  BY DEF TabInv
<1>2. PICK J : Tracks(worker, J) /\ Browsing(server, view, fetches, J, worker.sent)
  BY DEF TabInv
<1>3. PICK answer : answer = IF Revision(server, f.of) = f.of[2] THEN "rows" ELSE "gone"
  OBVIOUS
<1>4. /\ fetches' = (fetches \ {f}) \union {[f EXCEPT !.answer = answer]}
      /\ UNCHANGED <<server, stream, replies, state, view, worker, astray>>
  BY <1>3 DEF Serve, HeldRows, Revision
<1>5. Browsing(server, view, fetches', J, worker.sent)
  BY <1>1, <1>2, <1>3, <1>4, Serves
<1> QED BY <1>2, <1>4, <1>5, TabMoves

LEMMA TakingRows ==
    ASSUME TabInv, NEW f \in fetches, TakeRows(f)
    PROVE  TabInv' /\ Forward(view, view')
<1>1. ServerType(server) /\ Streams(server, stream, replies, state) /\ state \in KnownStates(server)
  BY DEF TabInv, Streams
<1>2. PICK J : Tracks(worker, J) /\ Browsing(server, view, fetches, J, worker.sent)
  BY DEF TabInv
<1>3. ViewType(view) /\ Wanted(f.seq)
  BY <1>2, TheFetch DEF Browsing, Wanted, FetchFits
<1>4. /\ f.answer # None /\ fetches' = fetches \ {f}
      /\ UNCHANGED <<server, stream, replies, state, astray>>
  BY DEF TakeRows
<1>5. CASE f.answer = "gone"
  <2>1. view' = [view EXCEPT !.fetching = None] /\ UNCHANGED worker
    BY <1>3, <1>5 DEF TakeRows
  <2>2. /\ Browsing(server, view', fetches', J, worker.sent) /\ view'.loaded = view.loaded
        /\ Reports(server, state, view, worker.sent) => Reports(server, state, view', worker.sent)
    BY <1>1, <1>2, <1>4, <1>5, <2>1, FetchesOfNothing
  <2>3. Forward(view, view')
    BY <1>3, <2>2, ForwardWhenKept
  <2> QED BY <1>2, <1>4, <2>1, <2>2, <2>3, TabMoves
<1>6. CASE f.answer # "gone"
  <2>1. PICK m : m = [type |-> "load", of |-> f.of, seq |-> f.seq]
    OBVIOUS
  <2>2. view' = view /\ worker' = AskRows(worker, m)
    BY <1>3, <1>6, <2>1 DEF TakeRows
  <2>3. PICK K : K = J \union {[request |-> m, rows |-> f.of]}
    OBVIOUS
  <2>4. /\ f.of \in Rows /\ f.seq \in Nat
        /\ Browsing(server, view, fetches', K, f.of)
        /\ Reports(server, state, view, worker.sent) => Reports(server, state, view, f.of)
    <3>1. K = J \union {LoadJob(f)}
      BY <2>1, <2>3 DEF LoadJob
    <3>2. f.answer # None /\ f.answer # "gone"
      BY <1>4, <1>6
    <3>3. /\ ServerType(server) /\ Browsing(server, view, fetches, J, worker.sent)
          /\ state \in KnownStates(server) /\ f \in fetches
      BY <1>1, <1>2
    <3>4. /\ f.of \in Rows /\ f.seq \in Nat
          /\ Browsing(server, view, fetches \ {f}, J \union {LoadJob(f)}, f.of)
          /\ Reports(server, state, view, worker.sent) => Reports(server, state, view, f.of)
      BY <3>2, <3>3, Sends, Zenon
    <3> QED BY <1>4, <3>1, <3>4
  <2>5. m \in Messages /\ Effect(m, worker.sent) = f.of
    BY <2>1, <2>4 DEF Messages, Effect
  <2>6. Tracks(worker', K) /\ worker'.sent = f.of
    BY <1>2, <2>2, <2>3, <2>5, AskingAddsAJob
  <2>7. Forward(view, view')
    BY <1>3, <2>2, ForwardWhenKept
  <2> QED BY <1>4, <2>2, <2>4, <2>6, <2>7, TabMoves
<1> QED BY <1>5, <1>6

LEMMA Narrowing ==
    ASSUME TabInv, Narrow
    PROVE  TabInv' /\ Forward(view, view')
<1>1. PICK J : Tracks(worker, J) /\ Browsing(server, view, fetches, J, worker.sent)
  BY DEF TabInv
<1>2. ViewType(view)
  BY <1>1 DEF Browsing
<1>3. /\ view' = Narrowed(view)
      /\ worker' = IF view.loaded = None THEN worker ELSE AskRows(worker, AggregateRequest(view'))
      /\ UNCHANGED <<server, stream, replies, state, fetches, astray>>
  BY DEF Narrow, Narrowed
<1>4. CASE view.loaded = None
  <2>1. worker' = worker
    BY <1>3, <1>4
  <2>2. SameFetching(view, view') /\ Browsing(server, view', fetches, J, worker.sent)
    BY <1>1, <1>3, <1>4, NarrowsNothing
  <2>3. Reports(server, state, view, worker.sent) => Reports(server, state, view', worker.sent)
    BY <2>2, ReportsKept
  <2>4. Forward(view, view')
    BY <1>2, <2>2, ForwardWhenKept DEF SameFetching
  <2> QED BY <1>1, <1>3, <2>1, <2>2, <2>3, <2>4, TabMoves
<1>5. CASE view.loaded # None
  <2>1. PICK m : m = AggregateRequest(view')
    OBVIOUS
  <2>2. worker' = AskRows(worker, m)
    BY <1>3, <1>5, <2>1
  <2>3. PICK K : K = Asked(J, m, worker.sent)
    OBVIOUS
  <2>4. /\ SameFetching(view, view') /\ Browsing(server, view', fetches, K, worker.sent) /\ m \in Messages
    BY <1>1, <1>3, <1>5, <2>1, <2>3, Narrows
  <2>5. Effect(m, worker.sent) = worker.sent
    BY <2>1 DEF AggregateRequest, Effect
  <2>6. Tracks(worker', K) /\ worker'.sent = worker.sent
    BY <1>1, <2>2, <2>3, <2>4, <2>5, AskingAddsAJob DEF Asked
  <2>7. Reports(server, state, view, worker.sent) => Reports(server, state, view', worker.sent)
    BY <2>4, ReportsKept
  <2>8. Forward(view, view')
    BY <1>2, <2>4, ForwardWhenKept DEF SameFetching
  <2> QED BY <1>3, <2>4, <2>6, <2>7, <2>8, TabMoves
<1> QED BY <1>4, <1>5

LEMMA TurningThePage ==
    ASSUME TabInv, TurnPage
    PROVE  TabInv' /\ Forward(view, view')
<1>1. PICK J : Tracks(worker, J) /\ Browsing(server, view, fetches, J, worker.sent)
  BY DEF TabInv
<1>2. ViewType(view)
  BY <1>1 DEF Browsing
<1>3. PICK m : m = PageRequest(view')
  OBVIOUS
<1>4. /\ view' = Turned(view) /\ view.loaded # None /\ worker' = AskRows(worker, m)
      /\ UNCHANGED <<server, stream, replies, state, fetches, astray>>
  BY <1>3 DEF TurnPage, Turned
<1>5. PICK K : K = Asked(J, m, worker.sent)
  OBVIOUS
<1>6. /\ SameFetching(view, view') /\ Browsing(server, view', fetches, K, worker.sent) /\ m \in Messages
  BY <1>1, <1>3, <1>4, <1>5, Turns
<1>7. Effect(m, worker.sent) = worker.sent
  BY <1>3 DEF PageRequest, Effect
<1>8. Tracks(worker', K) /\ worker'.sent = worker.sent
  BY <1>1, <1>4, <1>5, <1>6, <1>7, AskingAddsAJob DEF Asked
<1>9. Reports(server, state, view, worker.sent) => Reports(server, state, view', worker.sent)
  BY <1>6, ReportsKept
<1>10. Forward(view, view')
  BY <1>2, <1>6, ForwardWhenKept DEF SameFetching
<1> QED BY <1>4, <1>6, <1>8, <1>9, <1>10, TabMoves

LEMMA Working ==
    ASSUME TabInv, Work
    PROVE  TabInv' /\ view' = view
<1>1. PICK J : Tracks(worker, J) /\ Browsing(server, view, fetches, J, worker.sent)
  BY DEF TabInv
<1>2. /\ worker.inbox # <<>> /\ worker' = Done(worker)
      /\ UNCHANGED <<server, stream, replies, state, view, fetches, astray>>
  BY DEF Work, Done
<1>3. worker'.sent = worker.sent /\ Tracks(worker', J)
  BY <1>1, <1>2, WorkKeepsTheJobs
<1> QED BY <1>1, <1>2, <1>3, TabMoves

LEMMA Dying ==
    ASSUME TabInv, WorkerDies
    PROVE  TabInv' /\ Forward(view, view')
<1>1. PICK J : Tracks(worker, J) /\ Browsing(server, view, fetches, J, worker.sent)
  BY DEF TabInv
<1>2. /\ worker' = IdleWorker /\ view' = FailedView(view) /\ astray' = TRUE
      /\ UNCHANGED <<server, stream, replies, state, fetches>>
  BY DEF WorkerDies
<1>3. Browsing(server, view', fetches, {}, None) /\ view'.loaded = None
  BY <1>1, <1>2, Dies
<1>4. Tracks(worker', {}) /\ worker'.sent = None
  BY <1>2, IdleHasNoJobs
<1>5. Forward(view, view')
  BY <1>3 DEF Forward
<1> QED BY <1>2, <1>3, <1>4, <1>5 DEF TabInv

LEMMA TakingAnAnswer ==
    ASSUME TabInv, TakeAnswer
    PROVE  TabInv' /\ Forward(view, view')
<1>1. PICK J : Tracks(worker, J) /\ Browsing(server, view, fetches, J, worker.sent)
  BY DEF TabInv
<1>2. ViewType(view)
  BY <1>1 DEF Browsing
<1>3. ServerType(server) /\ state \in KnownStates(server)
  BY DEF TabInv, Streams
<1>4. PICK j : j = Oldest(worker)
  OBVIOUS
<1>5. PICK w : w = Taken(worker)
  OBVIOUS
<1>6. worker.outbox # <<>> /\ UNCHANGED <<server, stream, replies, state, fetches, astray>>
  BY DEF TakeAnswer
<1>7. w.sent = worker.sent /\ j \in J /\ j \in Answers
  BY <1>1, <1>4, <1>5, <1>6, TakingRemovesAJob
<1>8. PICK L : Tracks(w, L) /\ Without(J, L, j)
  BY <1>1, <1>4, <1>5, <1>6, TakingRemovesAJob DEF Without
<1>9. /\ WantedLoad(view, j) =>
           LET v == Replaced(view, j.request.of) IN
           view' = v /\ worker' = AskRows(w, AggregateRequest(v))
      /\ CurrentAggregate(view, j) =>
           LET v == Aggregated(view, j) IN
           view' = v /\ worker' = IF view.loaded = None THEN w ELSE AskRows(w, PageRequest(v))
      /\ CurrentPage(view, j) => view' = Paged(view, j) /\ worker' = w
      /\ ~WantedLoad(view, j) /\ ~CurrentAggregate(view, j) /\ ~CurrentPage(view, j)
           => view' = view /\ worker' = w
  BY <1>4, <1>5 DEF TakeAnswer, Oldest, Taken, WantedLoad, CurrentAggregate, CurrentPage, Wanted,
                    Replaced, Aggregated, Paged
<1>10. CASE WantedLoad(view, j)
  <2>1. PICK m : m = AggregateRequest(view')
    OBVIOUS
  <2>2. view' = Replaced(view, j.request.of) /\ worker' = AskRows(w, m)
    BY <1>9, <1>10, <2>1
  <2>3. PICK K : K = Asked(L, m, worker.sent)
    OBVIOUS
  <2>4. /\ Browsing(server, view', fetches, K, worker.sent) /\ Forward(view, view') /\ m \in Messages
        /\ Reports(server, state, view, worker.sent) => Reports(server, state, view', worker.sent)
    BY <1>1, <1>3, <1>8, <1>10, <2>1, <2>2, <2>3, LoadAnswered
  <2>5. Effect(m, w.sent) = worker.sent
    BY <1>7, <2>1 DEF AggregateRequest, Effect
  <2>6. Tracks(worker', K) /\ worker'.sent = worker.sent
    BY <1>7, <1>8, <2>2, <2>3, <2>4, <2>5, AskingAddsAJob DEF Asked
  <2> QED BY <1>6, <2>4, <2>6, TabMoves
<1>11. CASE CurrentAggregate(view, j) /\ view.loaded = None
  <2>1. view' = Aggregated(view, j) /\ worker' = w
    BY <1>9, <1>11
  <2>2. SameFetching(view, view') /\ Browsing(server, view', fetches, L, worker.sent)
    BY <1>1, <1>8, <1>11, <2>1, AggregateOfNothing
  <2>3. Reports(server, state, view, worker.sent) => Reports(server, state, view', worker.sent)
    BY <2>2, ReportsKept
  <2>4. Forward(view, view')
    BY <1>2, <2>2, ForwardWhenKept DEF SameFetching
  <2> QED BY <1>6, <1>7, <1>8, <2>1, <2>2, <2>3, <2>4, TabMoves
<1>12. CASE CurrentAggregate(view, j) /\ view.loaded # None
  <2>1. PICK m : m = PageRequest(view')
    OBVIOUS
  <2>2. view' = Aggregated(view, j) /\ worker' = AskRows(w, m)
    BY <1>9, <1>12, <2>1
  <2>3. PICK K : K = Asked(L, m, worker.sent)
    OBVIOUS
  <2>4. SameFetching(view, view') /\ Browsing(server, view', fetches, K, worker.sent) /\ m \in Messages
    BY <1>1, <1>8, <1>12, <2>1, <2>2, <2>3, AggregateAnswered
  <2>5. Effect(m, w.sent) = worker.sent
    BY <1>7, <2>1 DEF PageRequest, Effect
  <2>6. Tracks(worker', K) /\ worker'.sent = worker.sent
    BY <1>7, <1>8, <2>2, <2>3, <2>4, <2>5, AskingAddsAJob DEF Asked
  <2>7. Reports(server, state, view, worker.sent) => Reports(server, state, view', worker.sent)
    BY <2>4, ReportsKept
  <2>8. Forward(view, view')
    BY <1>2, <2>4, ForwardWhenKept DEF SameFetching
  <2> QED BY <1>6, <2>4, <2>6, <2>7, <2>8, TabMoves
<1>13. CASE CurrentPage(view, j)
  <2>1. view' = Paged(view, j) /\ worker' = w
    BY <1>9, <1>13
  <2>2. SameFetching(view, view') /\ Browsing(server, view', fetches, L, worker.sent)
    BY <1>1, <1>8, <1>13, <2>1, PageAnswered
  <2>3. Reports(server, state, view, worker.sent) => Reports(server, state, view', worker.sent)
    BY <2>2, ReportsKept
  <2>4. Forward(view, view')
    BY <1>2, <2>2, ForwardWhenKept DEF SameFetching
  <2> QED BY <1>6, <1>7, <1>8, <2>1, <2>2, <2>3, <2>4, TabMoves
<1>14. CASE ~WantedLoad(view, j) /\ ~CurrentAggregate(view, j) /\ ~CurrentPage(view, j)
  <2>1. view' = view /\ worker' = w
    BY <1>9, <1>14
  <2>2. Browsing(server, view', fetches, L, worker.sent)
    BY <1>1, <1>8, <1>14, <2>1, NothingAnswered
  <2>3. Forward(view, view')
    BY <1>2, <2>1, ForwardWhenKept
  <2> QED BY <1>6, <1>7, <1>8, <2>1, <2>2, <2>3, TabMoves
<1> QED BY <1>10, <1>11, <1>12, <1>13, <1>14

LEMMA TabStep ==
    ASSUME TabInv, [TabNext]_tabVars
    PROVE  TabInv' /\ Forward(view, view')
<1>1. ViewType(view)
  BY DEF TabInv, Browsing
<1>2. view' = view => Forward(view, view')
  BY <1>1, ForwardWhenKept
<1>3. CASE \E force \in BOOLEAN : RequestRows(force)
  BY <1>2, <1>3, Requesting
<1>4. CASE \E t \in Targets, status \in {"ready", "error"} : EndRows(t, status)
  BY <1>2, <1>4, Ending
<1>5. CASE \E t \in Targets : Post(t) \/ Retarget(t)
  BY <1>2, <1>5, Posting
<1>6. CASE Disconnect \/ Reconnect
  BY <1>2, <1>6, Connecting
<1>7. CASE Arrives
  BY <1>7, TakingAFrame, TakingAReply DEF Arrives
<1>8. CASE Fetches
  BY <1>2, <1>8, Serving, TakingRows DEF Fetches
<1>9. CASE Narrow \/ TurnPage
  BY <1>9, Narrowing, TurningThePage
<1>10. CASE Work \/ TakeAnswer
  BY <1>2, <1>10, Working, TakingAnAnswer
<1>11. CASE WorkerDies
  BY <1>11, Dying
<1>12. CASE UNCHANGED tabVars
  <2>1. TabInv'
    BY <1>12 DEF tabVars, TabInv
  <2> QED BY <1>2, <1>12, <2>1 DEF tabVars
<1> QED BY <1>3, <1>4, <1>5, <1>6, <1>7, <1>8, <1>9, <1>10, <1>11, <1>12, Zenon DEF TabNext

LEMMA TabStarts ==
    ASSUME TabInit
    PROVE  TabInv
<1>1. ServerType(server) /\ server = FirstServer
  BY ExplorerAssumption DEF TabInit, FirstServer, ServerType, Statuses
<1>2. Streams(server, stream, replies, state)
  <2>1. state \in KnownStates(server)
    BY <1>1, StatesAreKnown DEF TabInit
  <2> QED BY <2>1 DEF TabInit, Streams
<1>3. Tracks(worker, {}) /\ worker.sent = None
  BY IdleHasNoJobs DEF TabInit
<1>4. ViewType(view) /\ view.loaded = None /\ view.fetching = None
  BY DEF TabInit, ViewType
<1>5. Browsing(server, view, {}, {}, None)
  BY <1>4 DEF Browsing, Holding, Fetching, Loading, Counting, Drawing
<1>6. state.status = "idle"
  BY DEF TabInit, FirstServer, StateOf
<1>7. Reports(server, state, view, None) /\ astray = FALSE /\ fetches = {}
  BY <1>6 DEF Reports, TabInit
<1> QED BY <1>1, <1>2, <1>3, <1>5, <1>7 DEF TabInv

(* Whatever the order in which states, rows and answers arrive, the tab    *)
(* keeps to its invariant (public/explorer.js, public/worker.js and the    *)
(* state handling of public/app.js).                                       *)
THEOREM TabInvariant == TabSpec => []TabInv
<1>1. TabInit => TabInv
  BY TabStarts
<1>2. TabInv /\ [TabNext]_tabVars => TabInv'
  BY TabStep
<1> QED BY <1>1, <1>2, PTL DEF TabSpec

(* In a tab at rest chart, table and heading are of the one snapshot on    *)
(* screen, under the filters and the page asked for last, if the worker    *)
(* holds that snapshot; and it is the one the panel reports, unless since  *)
(* the last state that reported rows the worker died, or that state        *)
(* reported the rows on screen again while others were fetched: these land, *)
(* for the answer at explorer.js:223 is taken before rows in flight are    *)
(* looked at (syncExplorer, fetchRows, refreshAggregate, refreshPage).     *)
THEOREM RestingTabsShowTheRows == TabSpec => []SettledTabShowsTheRows
<1>1. TabInv => SettledTabShowsTheRows
  <2> SUFFICES ASSUME TabInv, TabSettled
               PROVE  /\ view.loaded # None /\ worker.rows = view.loaded => DrawnFrom(view.loaded)
                      /\ state.status = "ready" /\ ~astray =>
                             view.loaded = state.rows /\ worker.rows = state.rows /\ DrawnFrom(state.rows)
    BY DEF SettledTabShowsTheRows
  <2>1. PICK J : Tracks(worker, J) /\ Browsing(server, view, fetches, J, worker.sent)
    BY DEF TabInv
  <2>2. fetches = {} /\ J = {} /\ worker.sent = worker.rows
    <3>1. worker.inbox = <<>> /\ worker.outbox = <<>> /\ fetches = {}
      BY DEF TabSettled
    <3>2. PICK over : InOrder(worker, over)
      BY <2>1 DEF Tracks
    <3>3. worker.sent = worker.rows
      BY <3>1, <3>2 DEF InOrder
    <3> QED BY <2>1, <3>1, <3>3, EmptyBoxesHaveNoJobs
  <2>3. ASSUME view.loaded # None, worker.rows = view.loaded PROVE DrawnFrom(view.loaded)
    <3>1. view.snapshot = view.loaded
      BY <2>1, <2>3 DEF Browsing, Holding
    <3>2. AggregateDrawn(view) /\ PageDrawn(view)
      BY <2>1, <2>2, <2>3 DEF Browsing, Drawing
    <3> QED BY <3>1, <3>2 DEF AggregateDrawn, PageDrawn, DrawnFrom
  <2>4. ASSUME state.status = "ready", ~astray
        PROVE  view.loaded = state.rows /\ worker.rows = state.rows /\ state.rows # None
    <3>1. view.fetching = None
      BY <2>1, <2>2 DEF Browsing, Fetching
    <3>2. state = StateOf(server) /\ state \in KnownStates(server)
      BY DEF TabSettled, TabInv, Streams
    <3>3. state.rows = <<server.target, server.entry[server.target].revision>>
      BY <3>2 DEF StateOf
    <3>4. state.rows[2] = Revision(server, state.rows) /\ state.rows # None
      BY <3>2, <3>3, RowsAreNotNone DEF Revision, KnownStates, States
    <3> QED BY <2>2, <2>4, <3>1, <3>4 DEF TabInv, Reports
  <2> QED BY <2>3, <2>4
<1> QED BY <1>1, TabInvariant, PTL

(* Rows on screen are never replaced by an older snapshot of their target: *)
(* a fetch that a later one overtook does not land last (fetchRows with    *)
(* current(), and payload() of the extension).                             *)
THEOREM RowsOnlyAdvance == TabSpec => RowsNeverGoBack
<1>1. TabInv /\ [TabNext]_tabVars =>
        [view.loaded # None /\ view'.loaded # None /\ view.loaded[1] = view'.loaded[1]
           => view.loaded[2] <= view'.loaded[2]]_tabVars
  BY TabStep DEF Forward
<1> QED BY <1>1, TabInvariant, PTL DEF TabSpec, RowsNeverGoBack

---------------------------------------------------------------------------
(* Drafts of the query. A draft keeps, for every field edited, the value   *)
(* that the first edit started from; one that is shown with a state also   *)
(* has no edit that agrees with it, and its conflicts marked.              *)
Drafted(d) ==
    /\ d = [edited |-> d.edited, baseline |-> d.baseline, conflicts |-> d.conflicts,
            preset |-> d.preset, seen |-> d.seen]
    /\ DOMAIN d.baseline = DOMAIN d.edited /\ DOMAIN d.edited \subseteq DOMAIN d.seen
    /\ \A f \in DOMAIN d.edited : d.baseline[f] = d.seen[f]

Shown(d, s) ==
    /\ \A f \in DOMAIN d.edited : d.edited[f] # s.filters[f]
    /\ d.conflicts = {f \in DOMAIN d.edited : s.filters[f] \notin {d.edited[f], d.baseline[f]}}

EditorInv ==
    /\ draft = [e \in Editors |-> draft[e]]
    /\ \A e \in Editors : Drafted(draft[e]) /\ Shown(draft[e], tab)

LEMMA CleanIsShown ==
    ASSUME NEW preset, NEW s, NEW d, d = Clean \/ d = [Clean EXCEPT !.preset = preset]
    PROVE  Drafted(d) /\ Shown(d, s)
<1>1. PICK p : d = [edited |-> <<>>, baseline |-> <<>>, conflicts |-> {}, preset |-> p, seen |-> <<>>]
  BY DEF Clean
<1>2. DOMAIN d.edited = {} /\ DOMAIN d.baseline = {} /\ DOMAIN d.seen = {} /\ d.conflicts = {}
  BY <1>1
<1>3. Drafted(d)
  BY <1>1, <1>2 DEF Drafted
<1>4. {f \in DOMAIN d.edited : s.filters[f] \notin {d.edited[f], d.baseline[f]}} = {}
  BY <1>2
<1>5. Shown(d, s)
  BY <1>2, <1>4 DEF Shown
<1> QED BY <1>3, <1>5

LEMMA RecordsAreDrafts ==
    ASSUME NEW d, Drafted(d), NEW f, NEW value, NEW r, r = Recorded(d, f, value)
    PROVE  Drafted(r)
<1>1. PICK e, b, n : e = d.edited /\ b = d.baseline /\ n = d.seen
  OBVIOUS
<1>2. DOMAIN b = DOMAIN e /\ DOMAIN e \subseteq DOMAIN n /\ \A g \in DOMAIN e : b[g] = n[g]
  BY <1>1 DEF Drafted
<1>3. CASE value = tab.filters[f]
  <2>1. PICK edited, baseline, conflicts :
          edited = Dropped(e, {f}) /\ baseline = Dropped(b, {f}) /\ conflicts = d.conflicts \ {f}
    OBVIOUS
  <2>2. r = [d EXCEPT !.edited = edited, !.baseline = baseline, !.conflicts = conflicts]
    BY <1>1, <1>3, <2>1 DEF Recorded
  <2>3. r = [edited |-> edited, baseline |-> baseline, conflicts |-> conflicts,
             preset |-> d.preset, seen |-> n]
    BY <1>1, <2>2 DEF Drafted
  <2>4. /\ DOMAIN edited = DOMAIN e \ {f} /\ DOMAIN baseline = DOMAIN e \ {f}
        /\ \A g \in DOMAIN e \ {f} : baseline[g] = n[g]
    BY <1>2, <2>1 DEF Dropped
  <2> QED BY <1>2, <2>3, <2>4 DEF Drafted
<1>4. CASE value # tab.filters[f]
  <2>1. PICK was : was = tab.filters[f]
    OBVIOUS
  <2>2. PICK edited, baseline, seen :
          /\ edited = With(e, f, value)
          /\ baseline = (IF f \in DOMAIN b THEN b ELSE With(b, f, was))
          /\ seen = (IF f \in DOMAIN e THEN n ELSE With(n, f, was))
    OBVIOUS
  <2>3. r = [d EXCEPT !.edited = edited, !.baseline = baseline, !.seen = seen]
    BY <1>1, <1>4, <2>1, <2>2 DEF Recorded
  <2>4. r = [edited |-> edited, baseline |-> baseline, conflicts |-> d.conflicts,
             preset |-> d.preset, seen |-> seen]
    BY <2>3 DEF Drafted
  <2>5. DOMAIN edited = DOMAIN e \union {f}
    BY <2>2 DEF With
  <2>6. CASE f \in DOMAIN e
    BY <1>2, <2>2, <2>4, <2>5, <2>6 DEF Drafted
  <2>7. CASE f \notin DOMAIN e
    <3>1. baseline = With(b, f, was) /\ seen = With(n, f, was)
      BY <1>2, <2>2, <2>7
    <3>2. /\ DOMAIN baseline = DOMAIN e \union {f} /\ baseline[f] = was
          /\ \A g \in DOMAIN e : g # f => baseline[g] = b[g]
      BY <1>2, <3>1 DEF With
    <3>3. /\ DOMAIN seen = DOMAIN n \union {f} /\ seen[f] = was
          /\ \A g \in DOMAIN e : g # f => seen[g] = n[g]
      BY <1>2, <3>1 DEF With
    <3>4. \A g \in DOMAIN e \union {f} : baseline[g] = seen[g]
      BY <1>2, <3>2, <3>3
    <3> QED BY <1>2, <2>4, <2>5, <3>2, <3>3, <3>4 DEF Drafted
  <2> QED BY <2>6, <2>7
<1> QED BY <1>3, <1>4

LEMMA RenderedIsShown ==
    ASSUME NEW d, Drafted(d), NEW s, NEW r, r = Rendered(d, s)
    PROVE  Drafted(r) /\ Shown(r, s)
<1>1. PICK e, b, n : e = d.edited /\ b = d.baseline /\ n = d.seen
  OBVIOUS
<1>2. DOMAIN b = DOMAIN e /\ DOMAIN e \subseteq DOMAIN n /\ \A g \in DOMAIN e : b[g] = n[g]
  BY <1>1 DEF Drafted
<1>3. CASE s.target # tab.target
  BY <1>3, CleanIsShown DEF Rendered
<1>4. CASE s.target = tab.target
  <2>1. PICK settled : settled = {f \in DOMAIN e : e[f] = s.filters[f]}
    OBVIOUS
  <2>2. PICK edited, baseline : edited = Dropped(e, settled) /\ baseline = Dropped(b, settled)
    OBVIOUS
  <2>3. PICK kept : kept = [d EXCEPT !.edited = edited, !.baseline = baseline]
    OBVIOUS
  <2>4. kept = [edited |-> edited, baseline |-> baseline, conflicts |-> d.conflicts,
                preset |-> d.preset, seen |-> d.seen]
    BY <2>3 DEF Drafted
  <2>5. PICK preset, conflicts :
          /\ conflicts = Conflicts(kept, s)
          /\ r = [kept EXCEPT !.conflicts = conflicts, !.preset = preset]
    BY <1>1, <1>4, <2>1, <2>2, <2>3 DEF Rendered
  <2>6. r = [edited |-> edited, baseline |-> baseline, conflicts |-> conflicts,
             preset |-> preset, seen |-> n]
    BY <1>1, <2>4, <2>5
  <2>7. /\ DOMAIN edited = DOMAIN e \ settled /\ DOMAIN baseline = DOMAIN e \ settled
        /\ \A g \in DOMAIN e \ settled : baseline[g] = n[g] /\ edited[g] = e[g]
    BY <1>2, <2>2 DEF Dropped
  <2>8. conflicts = {f \in DOMAIN edited : s.filters[f] \notin {edited[f], baseline[f]}}
    BY <2>4, <2>5 DEF Conflicts
  <2>9. \A f \in DOMAIN edited : edited[f] # s.filters[f]
    BY <2>1, <2>7
  <2> QED BY <1>2, <2>6, <2>7, <2>8, <2>9 DEF Drafted, Shown
<1> QED BY <1>3, <1>4

LEMMA EditorStep ==
    ASSUME EditorInv, [EditorNext]_editorVars
    PROVE  EditorInv'
<1>1. /\ draft = [e \in Editors |-> draft[e]]
      /\ \A e \in Editors : Drafted(draft[e]) /\ Shown(draft[e], tab)
  BY DEF EditorInv
<1>2. ASSUME UNCHANGED <<tab, draft>> PROVE EditorInv'
  BY <1>1, <1>2 DEF EditorInv
<1>3. ASSUME UNCHANGED tab, NEW e \in Editors, NEW d, Drafted(d), Shown(d, tab),
             draft' = [draft EXCEPT ![e] = d]
      PROVE  EditorInv'
  BY <1>1, <1>3 DEF EditorInv
<1>4. ASSUME NEW e \in Editors, NEW f, NEW value, EditField(e, f, value) PROVE EditorInv'
  <2>1. PICK r : r = Recorded(draft[e], f, value)
    OBVIOUS
  <2>2. PICK edited : edited = Unset(r, f)
    OBVIOUS
  <2>3. draft' = [draft EXCEPT ![e] = Rendered(edited, tab)] /\ UNCHANGED tab
    BY <1>4, <2>1, <2>2 DEF EditField
  <2>4. Drafted(r)
    BY <1>1, <2>1, RecordsAreDrafts
  <2>5. Drafted(edited)
    <3>1. PICK preset : edited = [r EXCEPT !.preset = preset]
      BY <2>2 DEF Unset
    <3> QED BY <2>4, <3>1 DEF Drafted
  <2>6. PICK d : d = Rendered(edited, tab) /\ Drafted(d) /\ Shown(d, tab)
    BY <2>5, RenderedIsShown
  <2> QED BY <1>3, <2>3, <2>6
<1>5. ASSUME NEW w \in Presets, ChoosePreset(w) PROVE EditorInv'
  <2>1. "display" \in Editors
    BY DEF Editors
  <2>2. PICK window : window = PresetWindow(w, tab.coverage)
    OBVIOUS
  <2>3. PICK r : r = Recorded(draft.display, "filter", window)
    OBVIOUS
  <2>4. PICK preset : preset = [values |-> window, coverage |-> tab.coverage]
    OBVIOUS
  <2>5. PICK edited : edited = [r EXCEPT !.preset = preset]
    OBVIOUS
  <2>6. draft' = [draft EXCEPT !["display"] = Rendered(edited, tab)] /\ UNCHANGED tab
    BY <1>1, <1>5, <2>2, <2>3, <2>4, <2>5 DEF ChoosePreset
  <2>7. Drafted(r)
    BY <1>1, <2>1, <2>3, RecordsAreDrafts
  <2>8. Drafted(edited)
    BY <2>5, <2>7 DEF Drafted
  <2>9. PICK d : d = Rendered(edited, tab) /\ Drafted(d) /\ Shown(d, tab)
    BY <2>8, RenderedIsShown
  <2> QED BY <1>3, <2>1, <2>6, <2>9
<1>6. ASSUME NEW e \in Editors, Reset(e) PROVE EditorInv'
  <2>1. Drafted(Clean) /\ Shown(Clean, tab)
    BY CleanIsShown
  <2> QED BY <1>3, <1>6, <2>1 DEF Reset
<1>7. ASSUME NEW s, tab' = s, draft' = [g \in Editors |-> Rendered(draft[g], s)] PROVE EditorInv'
  BY <1>1, <1>7, RenderedIsShown DEF EditorInv
<1>8. ASSUME NEW e \in Editors, SeeReply(e) PROVE EditorInv'
  <2>1. CASE post[e].pc = "applied"
    <3>1. PICK s : s = post[e].answer
      OBVIOUS
    <3>2. PICK d : d = [Clean EXCEPT !.preset = Rendered(draft[e], s).preset]
      OBVIOUS
    <3>3. tab' = s /\ draft' = [[g \in Editors |-> Rendered(draft[g], s)] EXCEPT ![e] = d]
      BY <1>8, <2>1, <3>1, <3>2 DEF SeeReply
    <3>4. Drafted(d) /\ Shown(d, s)
      BY <3>2, CleanIsShown
    <3>5. \A g \in Editors : Drafted(Rendered(draft[g], s)) /\ Shown(Rendered(draft[g], s), s)
      BY <1>1, RenderedIsShown
    <3> QED BY <3>3, <3>4, <3>5 DEF EditorInv
  <2>2. CASE post[e].pc # "applied"
    BY <1>2, <1>8, <2>2 DEF SeeReply
  <2> QED BY <2>1, <2>2
<1>9. ASSUME NEW e \in Editors, Submit(e) \/ Handle(e) PROVE EditorInv'
  BY <1>2, <1>9 DEF Submit, Handle
<1>10. CASE SeeFrame
  BY <1>7, <1>10 DEF SeeFrame, TakeState
<1>11. CASE Typed
  <2>1. "collection" \in Editors /\ "display" \in Editors
    BY DEF Editors
  <2> QED BY <1>4, <1>11, <2>1 DEF Typed
<1>12. CASE Moved
  BY <1>2, <1>12 DEF Moved, Elsewhere, MoveTo, Collected
<1>13. CASE UNCHANGED editorVars
  BY <1>2, <1>13 DEF editorVars
<1> QED BY <1>5, <1>6, <1>8, <1>9, <1>10, <1>11, <1>12, <1>13, Zenon DEF EditorNext

(* A draft marks exactly the fields whose live value is no longer the one  *)
(* the reader started from, over any run of edits, replies, frames and     *)
(* changes made elsewhere (recordValue, conflicts and render of            *)
(* public/query.js).                                                       *)
THEOREM DraftsAnnounceOverwrites == EditorSpec => []OverwritesAreAnnounced
<1>1. EditorInit => EditorInv
  <2> SUFFICES ASSUME EditorInit PROVE EditorInv
    OBVIOUS
  <2>1. Drafted(Clean) /\ Shown(Clean, tab)
    BY CleanIsShown
  <2> QED BY <2>1 DEF EditorInit, EditorInv
<1>2. EditorInv /\ [EditorNext]_editorVars => EditorInv'
  BY EditorStep
<1>3. EditorInv => OverwritesAreAnnounced
  <2> SUFFICES ASSUME EditorInv, NEW e \in Editors, NEW f \in DOMAIN draft[e].edited
               PROVE  (f \in draft[e].conflicts) <=> (tab.filters[f] # draft[e].seen[f])
    BY DEF OverwritesAreAnnounced
  <2>1. PICK d : d = draft[e] /\ Drafted(d) /\ Shown(d, tab)
    BY DEF EditorInv
  <2> QED BY <2>1 DEF Drafted, Shown
<1> QED BY <1>1, <1>2, <1>3, PTL DEF EditorSpec

---------------------------------------------------------------------------
(* The Step timeline tab (shared/steps.mjs), for any rows and filters.       *)

(* Those of some rows that are among the first i printed. *)
Up(rows, i) == {jobRows[j] : j \in {j \in 1 .. i : jobRows[j] \in rows}}

LEMMA UpStarts == \A rows : Up(rows, 0) = {}
BY DEF Up

LEMMA UpGrows ==
    ASSUME NEW rows, NEW i \in Nat
    PROVE  Up(rows, i + 1) = IF jobRows[i + 1] \in rows THEN Up(rows, i) \union {jobRows[i + 1]} ELSE Up(rows, i)
<1>1. \A j : j \in 1 .. i + 1 <=> j \in 1 .. i \/ j = i + 1
  OBVIOUS
<1> QED BY <1>1 DEF Up

LEMMA UpIsAll ==
    ASSUME jobRows \in Seq(JobRows), NEW rows, rows \subseteq Range(jobRows)
    PROVE  Up(rows, Len(jobRows)) = rows
<1>1. DOMAIN jobRows = 1 .. Len(jobRows)
  OBVIOUS
<1> QED BY <1>1 DEF Up, Range

---------------------------------------------------------------------------
(* What a history says of the rows of its key. *)
IsHistory(h, S) ==
    /\ h.latest \in S /\ \A o \in S : o.attempt <= h.latest.attempt
    /\ IF \E r \in S : Failed(r)
       THEN /\ h.firstFailure \in Nat /\ \E r \in S : Failed(r) /\ r.attempt = h.firstFailure
            /\ \A r \in S : Failed(r) => h.firstFailure <= r.attempt
       ELSE h.firstFailure = None
    /\ DOMAIN h.attempts = {r.attempt : r \in S}
    /\ \A a \in DOMAIN h.attempts : h.attempts[a] \in S /\ h.attempts[a].attempt = a
    /\ h.ambiguous \in BOOLEAN
    /\ h.ambiguous <=> \E r, o \in S : r.attempt = o.attempt /\ r # o

LEMMA RowsAre ==
    ASSUME NEW r \in JobRows
    PROVE  /\ r.attempt \in Nat /\ r.attempt # None
           /\ \A o \in JobRows : Ambiguous(o, r) <=> o # r
BY StepsAssumption DEF Ambiguous

LEMMA HistoryStarts ==
    ASSUME NEW row \in JobRows
    PROVE  IsHistory(WithAttempt(FirstAttempt(row), row), {row})
<1> DEFINE h == WithAttempt(FirstAttempt(row), row)
<1>1. row.attempt \in Nat /\ ~(row.attempt > row.attempt) /\ row.attempt <= row.attempt
  BY RowsAre
<1>2. h.latest = row
  BY <1>1 DEF WithAttempt, FirstAttempt
<1>3. h.firstFailure = IF Failed(row) THEN row.attempt ELSE None
  BY DEF WithAttempt, FirstAttempt
<1>4. h.attempts = [a \in {row.attempt} |-> row]
  <2>1. h.attempts = Put(NoRecords, row.attempt, row) /\ DOMAIN NoRecords = {}
    BY DEF WithAttempt, FirstAttempt, NoRecords
  <2> QED BY <2>1 DEF Put
<1>5. h.ambiguous = FALSE
  <2>1. DOMAIN NoRecords = {}
    BY DEF NoRecords
  <2> QED BY <2>1 DEF WithAttempt, FirstAttempt
<1> HIDE DEF h
<1>6. \A r, o \in {row} : ~(r.attempt = o.attempt /\ r # o)
  OBVIOUS
<1>7. IF \E r \in {row} : Failed(r)
      THEN /\ h.firstFailure \in Nat /\ \E r \in {row} : Failed(r) /\ r.attempt = h.firstFailure
           /\ \A r \in {row} : Failed(r) => h.firstFailure <= r.attempt
      ELSE h.firstFailure = None
  BY <1>1, <1>3
<1>8. DOMAIN h.attempts = {row.attempt} /\ \A a \in DOMAIN h.attempts : h.attempts[a] = row /\ a = row.attempt
  BY <1>4
<1>9. IsHistory(h, {row})
  BY <1>1, <1>2, <1>5, <1>6, <1>7, <1>8 DEF IsHistory
<1> QED BY <1>9 DEF h

LEMMA HistoryGoesOn ==
    ASSUME NEW S \in SUBSET JobRows, NEW row \in JobRows, NEW h, IsHistory(h, S)
    PROVE  IsHistory(WithAttempt(h, row), S \union {row})
<1> DEFINE T == S \union {row}
           g == WithAttempt(h, row)
<1>0. \A r \in T : r \in JobRows /\ r.attempt \in Nat
  BY RowsAre
<1>1. /\ h.latest \in S /\ \A o \in S : o.attempt <= h.latest.attempt
      /\ DOMAIN h.attempts = {r.attempt : r \in S}
      /\ \A a \in DOMAIN h.attempts : h.attempts[a] \in S /\ h.attempts[a].attempt = a
      /\ h.ambiguous \in BOOLEAN
      /\ h.ambiguous <=> \E r, o \in S : r.attempt = o.attempt /\ r # o
  BY DEF IsHistory
<1>2. g.latest \in T /\ \A o \in T : o.attempt <= g.latest.attempt
  <2>1. g.latest = IF row.attempt > h.latest.attempt THEN row ELSE h.latest
    BY DEF WithAttempt
  <2> HIDE DEF g
  <2> QED BY <1>0, <1>1, <2>1
<1>3. IF \E r \in T : Failed(r)
      THEN /\ g.firstFailure \in Nat /\ \E r \in T : Failed(r) /\ r.attempt = g.firstFailure
           /\ \A r \in T : Failed(r) => g.firstFailure <= r.attempt
      ELSE g.firstFailure = None
  <2>1. g.firstFailure = IF Failed(row) /\ (h.firstFailure = None \/ row.attempt < h.firstFailure)
                         THEN row.attempt ELSE h.firstFailure
    BY DEF WithAttempt
  <2>2. IF \E r \in S : Failed(r)
        THEN /\ h.firstFailure \in Nat /\ \E r \in S : Failed(r) /\ r.attempt = h.firstFailure
             /\ \A r \in S : Failed(r) => h.firstFailure <= r.attempt
        ELSE h.firstFailure = None
    BY DEF IsHistory
  <2>3. h.firstFailure \in Nat => h.firstFailure # None
    BY StepsAssumption
  <2> HIDE DEF g
  <2>4. CASE \E r \in S : Failed(r)
    <3>1. CASE Failed(row) /\ row.attempt < h.firstFailure
      BY <1>0, <2>1, <2>2, <2>4, <3>1
    <3>2. CASE ~(Failed(row) /\ row.attempt < h.firstFailure)
      <4>1. g.firstFailure = h.firstFailure
        BY <2>1, <2>2, <2>3, <2>4, <3>2
      <4>2. Failed(row) => h.firstFailure <= row.attempt
        BY <1>0, <2>2, <2>4, <3>2
      <4> QED BY <2>2, <2>4, <4>1, <4>2
    <3> QED BY <3>1, <3>2
  <2>5. CASE ~\E r \in S : Failed(r)
    <3>1. CASE Failed(row)
      BY <1>0, <2>1, <2>2, <2>5, <3>1
    <3>2. CASE ~Failed(row)
      BY <2>1, <2>2, <2>5, <3>2
    <3> QED BY <3>1, <3>2
  <2> QED BY <2>4, <2>5
<1>4. /\ DOMAIN g.attempts = {r.attempt : r \in T}
      /\ \A a \in DOMAIN g.attempts : g.attempts[a] \in T /\ g.attempts[a].attempt = a
  <2>1. g.attempts = [k \in DOMAIN h.attempts \union {row.attempt} |-> IF k = row.attempt THEN row ELSE h.attempts[k]]
    BY DEF WithAttempt, Put
  <2> HIDE DEF g
  <2> QED BY <1>1, <2>1
<1>5. /\ g.ambiguous \in BOOLEAN
      /\ g.ambiguous <=> h.ambiguous \/ (row.attempt \in DOMAIN h.attempts /\ h.attempts[row.attempt] # row)
  <2>1. g.ambiguous = (h.ambiguous \/ (row.attempt \in DOMAIN h.attempts /\ Ambiguous(h.attempts[row.attempt], row)))
    BY DEF WithAttempt
  <2>2. row.attempt \in DOMAIN h.attempts => (Ambiguous(h.attempts[row.attempt], row) <=> h.attempts[row.attempt] # row)
    BY <1>1, RowsAre
  <2> HIDE DEF g
  <2> QED BY <2>1, <2>2
<1> HIDE DEF g
<1>6. g.ambiguous <=> \E r, o \in T : r.attempt = o.attempt /\ r # o
  <2>1. ASSUME g.ambiguous PROVE \E r, o \in T : r.attempt = o.attempt /\ r # o
    BY <1>1, <1>5, <2>1
  <2>2. ASSUME NEW r \in T, NEW o \in T, r.attempt = o.attempt, r # o PROVE g.ambiguous
    <3>1. CASE r \in S /\ o \in S
      BY <1>1, <1>5, <2>2, <3>1
    <3>2. ASSUME NEW p \in S, p.attempt = row.attempt, p # row PROVE g.ambiguous
      <4> DEFINE q == h.attempts[row.attempt]
      <4>1. row.attempt \in DOMAIN h.attempts /\ q \in S /\ q.attempt = row.attempt
        BY <1>1, <3>2
      <4>2. CASE q = row
        <5>1. q # p
          BY <3>2, <4>2
        <5>2. h.ambiguous
          BY <1>1, <3>2, <4>1, <5>1
        <5> QED BY <1>5, <5>2
      <4>3. CASE q # row
        BY <1>5, <4>1, <4>3
      <4> QED BY <4>2, <4>3
    <3> QED BY <2>2, <3>1, <3>2
  <2> QED BY <2>1, <2>2
<1>7. IsHistory(g, T)
  BY <1>2, <1>3, <1>4, <1>5, <1>6 DEF IsHistory
<1> QED BY <1>7 DEF g

(* What holds of 0, and of the next number after each, holds up to n. *)
LEMMA CountingUp ==
    ASSUME NEW n \in Nat, NEW P, 0 \in P, \A i \in 0 .. n - 1 : i \in P => i + 1 \in P
    PROVE  \A i \in 0 .. n : i \in P
<1> DEFINE T == {i \in 0 .. n : i \notin P}
<1>1. T = {}
  <2> SUFFICES ASSUME T # {} PROVE FALSE
    OBVIOUS
  <2>1. T \in SUBSET Nat
    OBVIOUS
  <2>2. PICK m \in T : \A k \in T : ~ (<<k, m>> \in OpToRel(<, Nat))
    <3> HIDE DEF T
    <3> QED BY <2>1, NatLessThanWellFounded, WFMin, Zenon
  <2>3. m \in 0 .. n /\ m \notin P /\ m # 0
    OBVIOUS
  <2>4. m - 1 \in 0 .. n - 1 /\ m - 1 \in 0 .. n /\ (m - 1) + 1 = m
    BY <2>3
  <2>5. m - 1 \in P
    <3>1. <<m - 1, m>> \in OpToRel(<, Nat)
      <4>1. m - 1 \in Nat /\ m \in Nat /\ m - 1 < m
        BY <2>3
      <4> QED BY <4>1, Zenon DEF OpToRel
    <3>2. m - 1 \notin T
      <4> HIDE DEF T
      <4> QED BY <2>2, <3>1, Zenon
    <3> QED BY <3>2, <2>4
  <2> QED BY <2>3, <2>4, <2>5
<1> QED BY <1>1

(* Histories is what its recursion says. *)
LEMMA HistoriesAreDefined ==
    ASSUME NEW rows, Len(jobRows) \in Nat
    PROVE  \E f : /\ f = [i \in 0 .. Len(jobRows) |->
                            IF i = 0 THEN NoRecords
                            ELSE IF jobRows[i] \in rows THEN AddAttempt(f[i - 1], jobRows[i]) ELSE f[i - 1]]
                  /\ Histories(rows) = f[Len(jobRows)]
<1> DEFINE Next(x, i) == IF jobRows[i] \in rows THEN AddAttempt(x, jobRows[i]) ELSE x
           Def(g, n) == g = [i \in 0 .. n |-> IF i = 0 THEN NoRecords ELSE Next(g[i - 1], i)]
           P == {n \in Nat : \E g : Def(g, n)}
           whole == CHOOSE f : Def(f, Len(jobRows))
<1>1. Histories(rows) = whole[Len(jobRows)]
  BY DEF Histories
<1>2. Def([i \in 0 .. 0 |-> NoRecords], 0)
  <2> HIDE DEF Next
  <2> QED OBVIOUS
<1>3. ASSUME NEW m \in Nat, NEW g, Def(g, m) PROVE \E h : Def(h, m + 1)
  <2> HIDE DEF Next
  <2> DEFINE h == [i \in 0 .. m + 1 |-> IF i <= m THEN g[i] ELSE Next(g[m], m + 1)]
  <2>1. \A i \in 0 .. m : h[i] = g[i] /\ i \in 0 .. m + 1
    OBVIOUS
  <2>2. h[m + 1] = Next(g[m], m + 1) /\ m + 1 \in 0 .. m + 1 /\ m \in 0 .. m
    OBVIOUS
  <2>3. \A i \in 0 .. m : g[i] = IF i = 0 THEN NoRecords ELSE Next(g[i - 1], i)
    BY <1>3
  <2> HIDE DEF Def
  <2>4. h = [i \in 0 .. m + 1 |-> h[i]]
    OBVIOUS
  <2> HIDE DEF h
  <2>5. \A i \in 0 .. m + 1 : h[i] = IF i = 0 THEN NoRecords ELSE Next(h[i - 1], i)
    <3> TAKE i \in 0 .. m + 1
    <3>1. CASE i = 0
      BY <3>1, <2>1, <2>3
    <3>2. CASE i = m + 1
      <4>1. i # 0 /\ i - 1 = m
        BY <3>2
      <4> QED BY <3>2, <4>1, <2>1, <2>2
    <3>3. CASE i # 0 /\ i # m + 1
      <4>1. i \in 0 .. m /\ i - 1 \in 0 .. m
        BY <3>3
      <4> QED BY <3>3, <4>1, <2>1, <2>3
    <3> QED BY <3>1, <3>2, <3>3
  <2>6. Def(h, m + 1)
    BY <2>4, <2>5 DEF Def
  <2> QED BY <2>6
<1>4. Len(jobRows) \in P
  <2> HIDE DEF Def
  <2>1. 0 \in P /\ \A i \in 0 .. Len(jobRows) - 1 : i \in P => i + 1 \in P
    BY <1>2, <1>3
  <2> HIDE DEF P
  <2>2. \A i \in 0 .. Len(jobRows) : i \in P
    BY <2>1, CountingUp
  <2> QED BY <2>2
<1>5. Def(whole, Len(jobRows))
  <2>1. PICK g : Def(g, Len(jobRows))
    <3> HIDE DEF Def
    <3> QED BY <1>4
  <2> HIDE DEF Def
  <2> QED BY <2>1
<1> HIDE DEF whole
<1> QED BY <1>1, <1>5

(* So is RunsOf. *)
LEMMA RunsAreDefined ==
    ASSUME NEW rows, Len(jobRows) \in Nat
    PROVE  \E f : /\ f = [i \in 0 .. Len(jobRows) |->
                            IF i = 0 THEN NoRecords
                            ELSE IF jobRows[i] \in rows THEN AddJob(f[i - 1], jobRows[i]) ELSE f[i - 1]]
                  /\ RunsOf(rows) = f[Len(jobRows)]
<1> DEFINE Next(x, i) == IF jobRows[i] \in rows THEN AddJob(x, jobRows[i]) ELSE x
           Def(g, n) == g = [i \in 0 .. n |-> IF i = 0 THEN NoRecords ELSE Next(g[i - 1], i)]
           P == {n \in Nat : \E g : Def(g, n)}
           whole == CHOOSE f : Def(f, Len(jobRows))
<1>1. RunsOf(rows) = whole[Len(jobRows)]
  BY DEF RunsOf
<1>2. Def([i \in 0 .. 0 |-> NoRecords], 0)
  <2> HIDE DEF Next
  <2> QED OBVIOUS
<1>3. ASSUME NEW m \in Nat, NEW g, Def(g, m) PROVE \E h : Def(h, m + 1)
  <2> HIDE DEF Next
  <2> DEFINE h == [i \in 0 .. m + 1 |-> IF i <= m THEN g[i] ELSE Next(g[m], m + 1)]
  <2>1. \A i \in 0 .. m : h[i] = g[i] /\ i \in 0 .. m + 1
    OBVIOUS
  <2>2. h[m + 1] = Next(g[m], m + 1) /\ m + 1 \in 0 .. m + 1 /\ m \in 0 .. m
    OBVIOUS
  <2>3. \A i \in 0 .. m : g[i] = IF i = 0 THEN NoRecords ELSE Next(g[i - 1], i)
    BY <1>3
  <2> HIDE DEF Def
  <2>4. h = [i \in 0 .. m + 1 |-> h[i]]
    OBVIOUS
  <2> HIDE DEF h
  <2>5. \A i \in 0 .. m + 1 : h[i] = IF i = 0 THEN NoRecords ELSE Next(h[i - 1], i)
    <3> TAKE i \in 0 .. m + 1
    <3>1. CASE i = 0
      BY <3>1, <2>1, <2>3
    <3>2. CASE i = m + 1
      <4>1. i # 0 /\ i - 1 = m
        BY <3>2
      <4> QED BY <3>2, <4>1, <2>1, <2>2
    <3>3. CASE i # 0 /\ i # m + 1
      <4>1. i \in 0 .. m /\ i - 1 \in 0 .. m
        BY <3>3
      <4> QED BY <3>3, <4>1, <2>1, <2>3
    <3> QED BY <3>1, <3>2, <3>3
  <2>6. Def(h, m + 1)
    BY <2>4, <2>5 DEF Def
  <2> QED BY <2>6
<1>4. Len(jobRows) \in P
  <2> HIDE DEF Def
  <2>1. 0 \in P /\ \A i \in 0 .. Len(jobRows) - 1 : i \in P => i + 1 \in P
    BY <1>2, <1>3
  <2> HIDE DEF P
  <2>2. \A i \in 0 .. Len(jobRows) : i \in P
    BY <2>1, CountingUp
  <2> QED BY <2>2
<1>5. Def(whole, Len(jobRows))
  <2>1. PICK g : Def(g, Len(jobRows))
    <3> HIDE DEF Def
    <3> QED BY <1>4
  <2> HIDE DEF Def
  <2> QED BY <2>1
<1> HIDE DEF whole
<1> QED BY <1>1, <1>5

---------------------------------------------------------------------------
(* The histories of some rows are told by these rows. *)
OfKey(S, key) == {r \in S : JobHistoryKey(r) = key}
AreHistories(hs, S) ==
    /\ DOMAIN hs = {JobHistoryKey(r) : r \in S}
    /\ \A key \in DOMAIN hs : IsHistory(hs[key], OfKey(S, key))

LEMMA AttemptAdded ==
    ASSUME NEW S \in SUBSET JobRows, NEW row \in JobRows, NEW hs, AreHistories(hs, S)
    PROVE  AreHistories(AddAttempt(hs, row), S \union {row})
<1> DEFINE T == S \union {row}
           k == JobHistoryKey(row)
           new == WithAttempt(IF k \in DOMAIN hs THEN hs[k] ELSE FirstAttempt(row), row)
           gs == AddAttempt(hs, row)
<1>1. gs = [key \in DOMAIN hs \union {k} |-> IF key = k THEN new ELSE hs[key]]
  BY DEF AddAttempt, Put
<1>2. IsHistory(new, OfKey(T, k))
  <2>1. CASE k \in DOMAIN hs
    <3>1. OfKey(T, k) = OfKey(S, k) \union {row} /\ OfKey(S, k) \in SUBSET JobRows
      BY DEF OfKey
    <3>2. IsHistory(hs[k], OfKey(S, k))
      BY <2>1 DEF AreHistories
    <3> QED BY <2>1, <3>1, <3>2, HistoryGoesOn
  <2>2. CASE k \notin DOMAIN hs
    <3>1. OfKey(T, k) = {row}
      BY <2>2 DEF OfKey, AreHistories
    <3> QED BY <2>2, <3>1, HistoryStarts
  <2> QED BY <2>1, <2>2
<1>3. \A key : key # k => OfKey(T, key) = OfKey(S, key)
  BY DEF OfKey
<1> HIDE DEF new, gs, k
<1>4. DOMAIN gs = {JobHistoryKey(r) : r \in T}
  BY <1>1 DEF AreHistories, k
<1>5. \A key \in DOMAIN gs : IsHistory(gs[key], OfKey(T, key))
  <2> TAKE key \in DOMAIN gs
  <2>1. CASE key = k
    BY <1>1, <1>2, <2>1
  <2>2. CASE key # k
    <3>1. key \in DOMAIN hs /\ gs[key] = hs[key]
      BY <1>1, <2>2
    <3>2. IsHistory(hs[key], OfKey(S, key))
      BY <3>1 DEF AreHistories
    <3> QED BY <1>3, <2>2, <3>1, <3>2
  <2> QED BY <2>1, <2>2
<1>6. AreHistories(gs, T)
  BY <1>4, <1>5 DEF AreHistories
<1> QED BY <1>6 DEF gs

LEMMA HistoriesAreTold ==
    ASSUME jobRows \in Seq(JobRows), NEW rows, rows \subseteq Range(jobRows)
    PROVE  AreHistories(Histories(rows), rows)
<1> DEFINE n == Len(jobRows)
<1>1. n \in Nat /\ \A i \in 1 .. n : jobRows[i] \in JobRows
  OBVIOUS
<1>2. PICK hs : /\ hs = [i \in 0 .. n |-> IF i = 0 THEN NoRecords
                                          ELSE IF jobRows[i] \in rows THEN AddAttempt(hs[i - 1], jobRows[i]) ELSE hs[i - 1]]
                /\ Histories(rows) = hs[n]
  BY <1>1, HistoriesAreDefined
<1> DEFINE P == {i \in 0 .. n : AreHistories(hs[i], Up(rows, i))}
<1> HIDE DEF n
<1>3. 0 \in P
  <2>1. hs[0] = NoRecords /\ DOMAIN NoRecords = {} /\ 0 \in 0 .. n
    BY <1>1, <1>2 DEF NoRecords
  <2> QED BY <2>1, UpStarts DEF AreHistories
<1>4. ASSUME NEW i \in 0 .. n - 1, i \in P PROVE i + 1 \in P
  <2>1. i + 1 \in 1 .. n /\ i + 1 \in 0 .. n /\ i + 1 # 0 /\ (i + 1) - 1 = i /\ i \in Nat
    BY <1>1
  <2>2. hs[i + 1] = IF jobRows[i + 1] \in rows THEN AddAttempt(hs[i], jobRows[i + 1]) ELSE hs[i]
    BY <1>2, <2>1
  <2>3. Up(rows, i + 1) = IF jobRows[i + 1] \in rows THEN Up(rows, i) \union {jobRows[i + 1]} ELSE Up(rows, i)
    BY <2>1, UpGrows
  <2>4. Up(rows, i) \in SUBSET JobRows /\ jobRows[i + 1] \in JobRows
    BY <1>1, <2>1 DEF Up
  <2>5. AreHistories(hs[i], Up(rows, i))
    BY <1>4
  <2>6. CASE jobRows[i + 1] \in rows
    <3>1. AreHistories(AddAttempt(hs[i], jobRows[i + 1]), Up(rows, i) \union {jobRows[i + 1]})
      BY <2>4, <2>5, AttemptAdded
    <3> QED BY <2>1, <2>2, <2>3, <2>6, <3>1
  <2>7. CASE jobRows[i + 1] \notin rows
    BY <2>1, <2>2, <2>3, <2>5, <2>7
  <2> QED BY <2>6, <2>7
<1> HIDE DEF P
<1>5. \A i \in 0 .. n : i \in P
  BY <1>1, <1>3, <1>4, CountingUp
<1>6. n \in P
  BY <1>1, <1>5
<1>7. Up(rows, n) = rows
  BY UpIsAll DEF n
<1> QED BY <1>2, <1>6, <1>7 DEF P

(* The jobs that succeeded on a re-run. *)
Agree(of) == \A r, o \in of : r.attempt = o.attempt => r.id = o.id /\ r.conclusion = o.conclusion
NewestOf(of) == {r \in of : \A o \in of : o.attempt <= r.attempt}

LEMMA RecoveryIsExact ==
    ASSUME NEW of \in SUBSET JobRows, NEW h, IsHistory(h, of)
    PROVE  HasRecovered(h) <=> /\ \A r \in NewestOf(of) : r.latest /\ r.conclusion = "success"
                               /\ \E r \in of \ NewestOf(of) : Failed(r)
                               /\ Agree(of)
<1>1. \A r \in of : r \in JobRows /\ r.attempt \in Nat
  BY RowsAre
<1>2. h.ambiguous <=> ~Agree(of)
  <2>1. ASSUME NEW r \in of, NEW o \in of PROVE r # o <=> r.id # o.id \/ r.conclusion # o.conclusion
    BY <1>1, RowsAre DEF Ambiguous
  <2> QED BY <2>1 DEF IsHistory, Agree
<1>3. h.latest \in of /\ h.latest \in NewestOf(of) /\ h.latest.attempt \in Nat
  BY <1>1 DEF IsHistory, NewestOf
<1>4. \A r \in NewestOf(of) : r.attempt = h.latest.attempt
  BY <1>1, <1>3 DEF NewestOf
<1>5. Agree(of) => NewestOf(of) = {h.latest}
  <2> SUFFICES ASSUME Agree(of), NEW r \in NewestOf(of) PROVE r = h.latest
    BY <1>3
  <2>1. r \in of /\ r.attempt = h.latest.attempt
    BY <1>4 DEF NewestOf
  <2>2. r.id = h.latest.id
    BY <1>3, <2>1 DEF Agree
  <2> QED BY <1>1, <1>3, <2>1, <2>2, StepsAssumption
<1>6. h.firstFailure # None /\ h.firstFailure < h.latest.attempt <=> \E r \in of \ NewestOf(of) : Failed(r)
  <2>1. IF \E r \in of : Failed(r)
        THEN /\ h.firstFailure \in Nat /\ \E r \in of : Failed(r) /\ r.attempt = h.firstFailure
             /\ \A r \in of : Failed(r) => h.firstFailure <= r.attempt
        ELSE h.firstFailure = None
    BY DEF IsHistory
  <2>2. h.firstFailure \in Nat => h.firstFailure # None
    BY StepsAssumption
  <2>3. \A r \in of : r \notin NewestOf(of) <=> r.attempt < h.latest.attempt
    BY <1>1, <1>3, <1>4 DEF NewestOf, IsHistory
  <2>4. CASE \E r \in of : Failed(r)
    <3>1. ASSUME h.firstFailure < h.latest.attempt PROVE \E r \in of \ NewestOf(of) : Failed(r)
      BY <2>1, <2>3, <2>4, <3>1
    <3>2. ASSUME NEW r \in of \ NewestOf(of), Failed(r) PROVE h.firstFailure < h.latest.attempt
      <4>1. h.firstFailure <= r.attempt /\ r.attempt < h.latest.attempt /\ h.firstFailure \in Nat
        BY <2>1, <2>3, <2>4, <3>2
      <4> QED BY <1>1, <1>3, <4>1
    <3> QED BY <2>1, <2>2, <2>4, <3>1, <3>2
  <2>5. CASE ~\E r \in of : Failed(r)
    BY <2>1, <2>5
  <2> QED BY <2>4, <2>5
<1>7. HasRecovered(h) <=> /\ h.firstFailure # None /\ h.firstFailure < h.latest.attempt
                          /\ ~h.ambiguous /\ h.latest.latest /\ h.latest.conclusion = "success"
  BY DEF HasRecovered
<1> QED BY <1>2, <1>5, <1>6, <1>7

---------------------------------------------------------------------------
(* What a listed run says of the rows of its key. *)
IsRun(run, S) ==
    /\ \E r \in S : /\ run.repo = r.repo /\ run.run = r.run /\ run.job = GroupOf(r)
                    /\ run.recovered = IF Recovered THEN RecoveredNames(r) ELSE {}
    /\ \E r \in S : run.attempt = r.attempt
    /\ \A r \in S : r.attempt <= run.attempt
    /\ \A r \in S : ~Outranks(r.conclusion, run.conclusion)

LEMMA OutranksIsIrreflexive == \A c : ~Outranks(c, c)
<1> SUFFICES ASSUME NEW c, NEW i \in DOMAIN Ranks, Ranks[i] = c PROVE c \in {Ranks[j] : j \in 1 .. i}
  BY DEF Outranks
<1>1. i \in 1 .. i
  BY DEF Ranks
<1> QED BY <1>1

(* What did not outrank one it does not outrank what outranks that. *)
LEMMA OutranksOnwards ==
    ASSUME NEW a, NEW b, NEW c, ~Outranks(a, b), Outranks(c, b)
    PROVE  ~Outranks(a, c)
<1> SUFFICES ASSUME Outranks(a, c) PROVE FALSE
  OBVIOUS
<1>0. DOMAIN Ranks = 1 .. 10
  BY DEF Ranks
<1>1. PICK i \in 1 .. 10 : Ranks[i] = a /\ c \notin {Ranks[j] : j \in 1 .. i}
  BY <1>0 DEF Outranks
<1>2. PICK k \in 1 .. 10 : Ranks[k] = c /\ b \notin {Ranks[j] : j \in 1 .. k}
  BY <1>0 DEF Outranks
<1>3. k \notin 1 .. i
  BY <1>1, <1>2
<1>4. \A j \in 1 .. i : j \in 1 .. k
  BY <1>3
<1>5. b \notin {Ranks[j] : j \in 1 .. i}
  BY <1>2, <1>4
<1> QED BY <1>0, <1>1, <1>5 DEF Outranks

LEMMA RunStarts ==
    ASSUME NEW row \in JobRows
    PROVE  IsRun(WithJob(FirstOfRun(row), row), {row})
<1>1. row.attempt \in Nat
  BY RowsAre
<1>2. WithJob(FirstOfRun(row), row) = FirstOfRun(row)
  BY <1>1 DEF WithJob, FirstOfRun
<1>3. ~Outranks(row.conclusion, row.conclusion)
  BY OutranksIsIrreflexive
<1> QED BY <1>1, <1>2, <1>3 DEF IsRun, FirstOfRun

LEMMA RunGoesOn ==
    ASSUME NEW S \in SUBSET JobRows, NEW row \in JobRows, NEW run, IsRun(run, S)
    PROVE  IsRun(WithJob(run, row), S \union {row})
<1> DEFINE T == S \union {row}
           g == WithJob(run, row)
           attempt == IF row.attempt > run.attempt THEN row.attempt ELSE run.attempt
           conclusion == IF Outranks(row.conclusion, run.conclusion) THEN row.conclusion ELSE run.conclusion
<1>0. \A r \in T : r.attempt \in Nat
  BY RowsAre
<1>1. g = [repo |-> run.repo, run |-> run.run, attempt |-> attempt, job |-> run.job,
           conclusion |-> conclusion, recovered |-> run.recovered]
  BY DEF WithJob
<1>2. \E r \in T : /\ run.repo = r.repo /\ run.run = r.run /\ run.job = GroupOf(r)
                   /\ run.recovered = IF Recovered THEN RecoveredNames(r) ELSE {}
  BY DEF IsRun
<1>3. (\E r \in T : attempt = r.attempt) /\ \A r \in T : r.attempt <= attempt
  <2>1. PICK x \in S : run.attempt = x.attempt
    BY DEF IsRun
  <2>2. \A r \in S : r.attempt <= run.attempt
    BY DEF IsRun
  <2> QED BY <1>0, <2>1, <2>2
<1>4. \A r \in T : ~Outranks(r.conclusion, conclusion)
  <2>1. \A r \in S : ~Outranks(r.conclusion, run.conclusion)
    BY DEF IsRun
  <2>2. CASE Outranks(row.conclusion, run.conclusion)
    <3>1. ~Outranks(row.conclusion, row.conclusion)
      BY OutranksIsIrreflexive
    <3>2. \A r \in S : ~Outranks(r.conclusion, row.conclusion)
      BY <2>1, <2>2, OutranksOnwards
    <3> QED BY <2>2, <3>1, <3>2
  <2>3. CASE ~Outranks(row.conclusion, run.conclusion)
    BY <2>1, <2>3
  <2> QED BY <2>2, <2>3
<1> HIDE DEF attempt, conclusion, g
<1>5. IsRun(g, T)
  BY <1>1, <1>2, <1>3, <1>4 DEF IsRun
<1> QED BY <1>5 DEF g

OfRun(S, key) == {r \in S : RunKey(r) = key}
AreRuns(list, S) ==
    /\ DOMAIN list = {RunKey(r) : r \in S}
    /\ \A key \in DOMAIN list : IsRun(list[key], OfRun(S, key))

LEMMA JobAdded ==
    ASSUME NEW S \in SUBSET JobRows, NEW row \in JobRows, NEW hs, AreRuns(hs, S)
    PROVE  AreRuns(AddJob(hs, row), S \union {row})
<1> DEFINE T == S \union {row}
           k == RunKey(row)
           new == WithJob(IF k \in DOMAIN hs THEN hs[k] ELSE FirstOfRun(row), row)
           gs == AddJob(hs, row)
<1>1. gs = [key \in DOMAIN hs \union {k} |-> IF key = k THEN new ELSE hs[key]]
  BY DEF AddJob, Put
<1>2. IsRun(new, OfRun(T, k))
  <2>1. CASE k \in DOMAIN hs
    <3>1. OfRun(T, k) = OfRun(S, k) \union {row} /\ OfRun(S, k) \in SUBSET JobRows
      BY DEF OfRun
    <3>2. IsRun(hs[k], OfRun(S, k))
      BY <2>1 DEF AreRuns
    <3> QED BY <2>1, <3>1, <3>2, RunGoesOn
  <2>2. CASE k \notin DOMAIN hs
    <3>1. OfRun(T, k) = {row}
      BY <2>2 DEF OfRun, AreRuns
    <3> QED BY <2>2, <3>1, RunStarts
  <2> QED BY <2>1, <2>2
<1>3. \A key : key # k => OfRun(T, key) = OfRun(S, key)
  BY DEF OfRun
<1> HIDE DEF new, gs, k
<1>4. DOMAIN gs = {RunKey(r) : r \in T}
  BY <1>1 DEF AreRuns, k
<1>5. \A key \in DOMAIN gs : IsRun(gs[key], OfRun(T, key))
  <2> TAKE key \in DOMAIN gs
  <2>1. CASE key = k
    BY <1>1, <1>2, <2>1
  <2>2. CASE key # k
    <3>1. key \in DOMAIN hs /\ gs[key] = hs[key]
      BY <1>1, <2>2
    <3>2. IsRun(hs[key], OfRun(S, key))
      BY <3>1 DEF AreRuns
    <3> QED BY <1>3, <2>2, <3>1, <3>2
  <2> QED BY <2>1, <2>2
<1>6. AreRuns(gs, T)
  BY <1>4, <1>5 DEF AreRuns
<1> QED BY <1>6 DEF gs

LEMMA RunsAreTold ==
    ASSUME jobRows \in Seq(JobRows), NEW rows, rows \subseteq Range(jobRows)
    PROVE  AreRuns(RunsOf(rows), rows)
<1> DEFINE n == Len(jobRows)
<1>1. n \in Nat /\ \A i \in 1 .. n : jobRows[i] \in JobRows
  OBVIOUS
<1>2. PICK hs : /\ hs = [i \in 0 .. n |-> IF i = 0 THEN NoRecords
                                          ELSE IF jobRows[i] \in rows THEN AddJob(hs[i - 1], jobRows[i]) ELSE hs[i - 1]]
                /\ RunsOf(rows) = hs[n]
  BY <1>1, RunsAreDefined
<1> DEFINE P == {i \in 0 .. n : AreRuns(hs[i], Up(rows, i))}
<1> HIDE DEF n
<1>3. 0 \in P
  <2>1. hs[0] = NoRecords /\ DOMAIN NoRecords = {} /\ 0 \in 0 .. n
    BY <1>1, <1>2 DEF NoRecords
  <2> QED BY <2>1, UpStarts DEF AreRuns
<1>4. ASSUME NEW i \in 0 .. n - 1, i \in P PROVE i + 1 \in P
  <2>1. i + 1 \in 1 .. n /\ i + 1 \in 0 .. n /\ i + 1 # 0 /\ (i + 1) - 1 = i /\ i \in Nat
    BY <1>1
  <2>2. hs[i + 1] = IF jobRows[i + 1] \in rows THEN AddJob(hs[i], jobRows[i + 1]) ELSE hs[i]
    BY <1>2, <2>1
  <2>3. Up(rows, i + 1) = IF jobRows[i + 1] \in rows THEN Up(rows, i) \union {jobRows[i + 1]} ELSE Up(rows, i)
    BY <2>1, UpGrows
  <2>4. Up(rows, i) \in SUBSET JobRows /\ jobRows[i + 1] \in JobRows
    BY <1>1, <2>1 DEF Up
  <2>5. AreRuns(hs[i], Up(rows, i))
    BY <1>4
  <2>6. CASE jobRows[i + 1] \in rows
    <3>1. AreRuns(AddJob(hs[i], jobRows[i + 1]), Up(rows, i) \union {jobRows[i + 1]})
      BY <2>4, <2>5, JobAdded
    <3> QED BY <2>1, <2>2, <2>3, <2>6, <3>1
  <2>7. CASE jobRows[i + 1] \notin rows
    BY <2>1, <2>2, <2>3, <2>5, <2>7
  <2> QED BY <2>6, <2>7
<1> HIDE DEF P
<1>5. \A i \in 0 .. n : i \in P
  BY <1>1, <1>3, <1>4, CountingUp
<1>6. n \in P
  BY <1>1, <1>5
<1>7. Up(rows, n) = rows
  BY UpIsAll DEF n
<1> QED BY <1>2, <1>6, <1>7 DEF P

---------------------------------------------------------------------------
(* The list of runs. *)
LEMMA KeptAre == Kept \subseteq StatusRows /\ StatusRows \subseteq RepoRows /\ RepoRows \subseteq Range(jobRows)
BY DEF Kept, StatusRows, RepoRows

LEMMA RowsPrinted ==
    ASSUME jobRows \in Seq(JobRows)
    PROVE  Range(jobRows) \subseteq JobRows
<1>1. \A i \in DOMAIN jobRows : jobRows[i] \in JobRows
  OBVIOUS
<1> QED BY <1>1 DEF Range

LEMMA ListedRunFacts ==
    ASSUME jobRows \in Seq(JobRows), NEW r \in RunList
    PROVE  /\ ask.job = None \/ r.job = ask.job
           /\ \E x \in Kept : IsRun(r, OfRun(Kept, RunKey(x)))
<1>1. r \in Range(RunsOf(Kept)) /\ (ask.job = None \/ r.job = ask.job)
  BY DEF RunList
<1>2. AreRuns(RunsOf(Kept), Kept)
  BY KeptAre, RunsAreTold
<1>3. PICK key \in DOMAIN RunsOf(Kept) : r = RunsOf(Kept)[key]
  BY <1>1 DEF Range
<1>4. PICK x \in Kept : key = RunKey(x)
  BY <1>2, <1>3 DEF AreRuns
<1>5. IsRun(r, OfRun(Kept, RunKey(x)))
  BY <1>2, <1>3, <1>4 DEF AreRuns
<1> QED BY <1>1, <1>5

(* Two rows of one key are of one run, in one attempt where these are apart. *)
LEMMA SameRunKey ==
    ASSUME NEW x, NEW y, RunKey(x) = RunKey(y)
    PROVE  /\ x.repo = y.repo /\ x.run = y.run
           /\ ask.job # None => GroupOf(x) = GroupOf(y)
           /\ AllAttempts \/ ask.conditions # {} => x.attempt = y.attempt
BY DEF RunKey

LEMMA MetItself ==
    ASSUME jobRows \in Seq(JobRows), NEW y \in StatusRows
    PROVE  ask.conditions \subseteq Outcomes(y)
<1>1. CASE ask.conditions = {}
  BY <1>1
<1>2. CASE ask.conditions # {}
  <2>1. JobRowKey(y) \in MatchingStepConditionJobs(RepoRows, ask.conditions)
    BY <1>2 DEF StatusRows
  <2>2. PICK z \in RepoRows : JobRowKey(z) = JobRowKey(y) /\ ask.conditions \subseteq Outcomes(z)
    BY <2>1 DEF MatchingStepConditionJobs
  <2>3. z \in JobRows /\ y \in JobRows /\ z.id = y.id
    BY <2>2, KeptAre, RowsPrinted DEF JobRowKey
  <2>4. z = y
    BY <2>3, StepsAssumption
  <2> QED BY <2>2, <2>4
<1> QED BY <1>1, <1>2

LEMMA ListedRunsOpen ==
    ASSUME jobRows \in Seq(JobRows)
    PROVE  ListedRunsOpenOnAJob
<1> SUFFICES ASSUME NEW r \in RunList
             PROVE  FilterTimelineJobs(r.repo, r.run, {j \in Range(jobRows) : j.repo = r.repo /\ j.run = r.run /\ j.attempt = r.attempt}) # {}
  BY DEF ListedRunsOpenOnAJob
<1> DEFINE timeline == {j \in Range(jobRows) : j.repo = r.repo /\ j.run = r.run /\ j.attempt = r.attempt}
           names == UNION {l.recovered : l \in {l \in RunList : l.repo = r.repo /\ l.run = r.run}}
<1>1. PICK key \in {RunKey(q) : q \in Kept} : IsRun(r, OfRun(Kept, key))
  BY ListedRunFacts
<1>2. PICK x \in OfRun(Kept, key) : /\ r.repo = x.repo /\ r.run = x.run
                                    /\ r.recovered = IF Recovered THEN RecoveredNames(x) ELSE {}
  BY <1>1 DEF IsRun
<1>3. PICK y \in OfRun(Kept, key) : r.attempt = y.attempt
  BY <1>1 DEF IsRun
<1>4. /\ x \in Kept /\ y \in Kept /\ y \in StatusRows /\ y \in RepoRows /\ y \in Range(jobRows)
      /\ y.repo = x.repo /\ y.run = x.run
  BY <1>2, <1>3, KeptAre, SameRunKey DEF OfRun
<1>5. y \in timeline
  BY <1>2, <1>3, <1>4
<1>6. ask.repo \in {"", r.repo}
  BY <1>2, <1>4 DEF RepoRows
<1>7. ask.conditions \subseteq Outcomes(y)
  BY <1>4, MetItself
<1>8. Recovered => Name(y) \in names
  <2> SUFFICES ASSUME Recovered PROVE Name(y) \in names
    OBVIOUS
  <2>1. Name(y) \in RecoveredNames(x)
    BY <1>4 DEF RecoveredNames
  <2> QED BY <1>2, <2>1
<1>9. ~Recovered => MatchJobStatus(y, ask.status)
  BY <1>4 DEF StatusRows
<1> HIDE DEF timeline, names
<1>10. y \in FilterTimelineJobs(r.repo, r.run, timeline)
  <2> USE DEF names
  <2> QED BY <1>5, <1>6, <1>7, <1>8, <1>9 DEF FilterTimelineJobs
<1> QED BY <1>10 DEF timeline

LEMMA RunsJudged ==
    ASSUME jobRows \in Seq(JobRows)
    PROVE  RunsAreJudgedByAllTheirJobs
<1> DEFINE judgedFor(r) == {j \in Kept : /\ j.repo = r.repo /\ j.run = r.run
                                         /\ ask.job # None => GroupOf(j) = r.job
                                         /\ AllAttempts \/ ask.conditions # {} => j.attempt = r.attempt}
<1>1. ASSUME NEW r \in RunList, NEW j \in judgedFor(r) PROVE ~Outranks(j.conclusion, r.conclusion)
  <2>1. PICK key \in {RunKey(q) : q \in Kept} : IsRun(r, OfRun(Kept, key))
    BY ListedRunFacts
  <2>2. PICK x \in OfRun(Kept, key) : r.repo = x.repo /\ r.run = x.run /\ r.job = GroupOf(x)
    BY <2>1 DEF IsRun
  <2>3. PICK y \in OfRun(Kept, key) : r.attempt = y.attempt
    BY <2>1 DEF IsRun
  <2>4. RunKey(x) = key /\ RunKey(y) = key
    BY DEF OfRun
  <2>5. AllAttempts \/ ask.conditions # {} => r.attempt = x.attempt
    BY <2>3, <2>4, SameRunKey
  <2>6. RunKey(j) = RunKey(x)
    BY <1>1, <2>2, <2>5 DEF RunKey
  <2>7. j \in OfRun(Kept, key)
    BY <1>1, <2>4, <2>6 DEF OfRun
  <2> QED BY <2>1, <2>7 DEF IsRun
<1>2. ASSUME NEW r, NEW j, ~Outranks(j.conclusion, r.conclusion)
      PROVE  /\ j.conclusion \in Failures => r.conclusion \in Failures
             /\ j.conclusion = None => r.conclusion \notin {"success", "skipped"}
             /\ r.conclusion = "success" /\ j.conclusion \in Range(Ranks) => j.conclusion \in {"success", "neutral", "skipped"}
  <2>1. \A i \in 1 .. 10 : j.conclusion = Ranks[i] => \E k \in 1 .. i : r.conclusion = Ranks[k]
    <3>1. DOMAIN Ranks = 1 .. 10
      BY DEF Ranks
    <3> QED BY <1>2, <3>1 DEF Outranks
  <2>2. /\ Ranks[1] = "failure" /\ Ranks[2] = "timed_out" /\ Ranks[3] = "startup_failure" /\ Ranks[4] = "cancelled"
        /\ Ranks[5] = "action_required" /\ Ranks[6] = "stale" /\ Ranks[7] = None /\ Ranks[8] = "success"
        /\ Ranks[9] = "neutral" /\ Ranks[10] = "skipped"
    BY DEF Ranks
  <2>3. j.conclusion \in Failures => r.conclusion \in Failures
    <3> SUFFICES ASSUME j.conclusion \in Failures PROVE r.conclusion \in Failures
      OBVIOUS
    <3>1. PICK i \in 1 .. 3 : j.conclusion = Ranks[i]
      BY <2>2 DEF Failures
    <3>2. PICK k \in 1 .. i : r.conclusion = Ranks[k]
      BY <2>1, <3>1
    <3>3. k = 1 \/ k = 2 \/ k = 3
      OBVIOUS
    <3> QED BY <2>2, <3>2, <3>3 DEF Failures
  <2>4. \A k \in 1 .. 7 : Ranks[k] \notin {"success", "skipped"}
    <3> SUFFICES ASSUME NEW k \in 1 .. 7 PROVE Ranks[k] \notin {"success", "skipped"}
      OBVIOUS
    <3>1. k = 1 \/ k = 2 \/ k = 3 \/ k = 4 \/ k = 5 \/ k = 6 \/ k = 7
      OBVIOUS
    <3> QED BY <2>2, <3>1, StepsAssumption
  <2>5. j.conclusion = None => r.conclusion \notin {"success", "skipped"}
    BY <2>1, <2>2, <2>4
  <2>6. r.conclusion = "success" /\ j.conclusion \in Range(Ranks) => j.conclusion \in {"success", "neutral", "skipped"}
    <3> SUFFICES ASSUME r.conclusion = "success", j.conclusion \in Range(Ranks)
                 PROVE  j.conclusion \in {"success", "neutral", "skipped"}
      OBVIOUS
    <3>1. PICK i \in 1 .. 10 : j.conclusion = Ranks[i]
      BY DEF Range, Ranks
    <3>2. i \notin 1 .. 7
      BY <2>1, <2>4, <3>1
    <3>3. i = 8 \/ i = 9 \/ i = 10
      BY <3>2
    <3> QED BY <2>2, <3>1, <3>3
  <2> QED BY <2>3, <2>5, <2>6
<1>3. ASSUME NEW r \in RunList
      PROVE  LET conclusions == {j.conclusion : j \in judgedFor(r)}
             IN  /\ conclusions \intersect Failures # {} => r.conclusion \in Failures
                 /\ None \in conclusions => r.conclusion \notin {"success", "skipped"}
                 /\ r.conclusion = "success" => conclusions \intersect Range(Ranks) \subseteq {"success", "neutral", "skipped"}
  <2> HIDE DEF judgedFor
  <2>1. \A c \in {j.conclusion : j \in judgedFor(r)} :
          /\ c \in Failures => r.conclusion \in Failures
          /\ c = None => r.conclusion \notin {"success", "skipped"}
          /\ r.conclusion = "success" /\ c \in Range(Ranks) => c \in {"success", "neutral", "skipped"}
    BY <1>1, <1>2
  <2> QED BY <2>1
<1>4. RecoveredJobHistories(RepoRows) =
        {key \in {JobHistoryKey(r) : r \in RepoRows} :
            /\ \A r \in NewestOf(OfKey(RepoRows, key)) : r.latest /\ r.conclusion = "success"
            /\ \E r \in OfKey(RepoRows, key) \ NewestOf(OfKey(RepoRows, key)) : Failed(r)
            /\ Agree(OfKey(RepoRows, key))}
  <2>1. AreHistories(Histories(RepoRows), RepoRows)
    BY KeptAre, HistoriesAreTold
  <2>2. \A key \in DOMAIN Histories(RepoRows) :
          HasRecovered(Histories(RepoRows)[key]) <=>
            /\ \A r \in NewestOf(OfKey(RepoRows, key)) : r.latest /\ r.conclusion = "success"
            /\ \E r \in OfKey(RepoRows, key) \ NewestOf(OfKey(RepoRows, key)) : Failed(r)
            /\ Agree(OfKey(RepoRows, key))
    <3> TAKE key \in DOMAIN Histories(RepoRows)
    <3>1. OfKey(RepoRows, key) \in SUBSET JobRows
      BY KeptAre, RowsPrinted DEF OfKey
    <3>2. IsHistory(Histories(RepoRows)[key], OfKey(RepoRows, key))
      BY <2>1 DEF AreHistories
    <3> QED BY <3>1, <3>2, RecoveryIsExact
  <2> QED BY <2>1, <2>2 DEF RecoveredJobHistories, AreHistories
<1> QED BY <1>3, <1>4 DEF RunsAreJudgedByAllTheirJobs, OfKey, NewestOf, Agree

---------------------------------------------------------------------------
(* Counting rows. *)
LEMMA FewRows ==
    ASSUME jobRows \in Seq(JobRows)
    PROVE  IsFiniteSet(Range(jobRows)) /\ IsFiniteSet(RepoRows) /\ IsFiniteSet(StatusRows) /\ IsFiniteSet(Kept)
<1>1. IsFiniteSet(1 .. Len(jobRows))
  BY FS_Interval
<1>2. jobRows \in Surjection(1 .. Len(jobRows), Range(jobRows))
  BY DEF Surjection, Range
<1>3. IsFiniteSet(Range(jobRows))
  BY <1>1, <1>2, FS_Surjection
<1> QED BY <1>3, KeptAre, FS_Subset

LEMMA MaxOfTwo == \A a, b \in Nat : b <= a => Max({a, b}) = a
<1> SUFFICES ASSUME NEW a \in Nat, NEW b \in Nat, b <= a PROVE Max({a, b}) = a
  OBVIOUS
<1>1. \A x \in {a, b} : (\A y \in {a, b} : x >= y) => x = a
  OBVIOUS
<1>2. a \in {a, b} /\ \A y \in {a, b} : a >= y
  OBVIOUS
<1> QED BY <1>1, <1>2 DEF Max

(* What is told apart by its image is no more than what its image is in. *)
LEMMA NoMoreThan ==
    ASSUME NEW S, NEW T, NEW f, IsFiniteSet(T),
           \A x \in S : f[x] \in T, DOMAIN f = S, f = [x \in S |-> f[x]],
           \A x, y \in S : f[x] = f[y] => x = y
    PROVE  IsFiniteSet(S) /\ Cardinality(S) <= Cardinality(T) /\ Cardinality(S) \in Nat /\ Cardinality(T) \in Nat
<1>1. f \in [S -> T]
  BY Zenon
<1>2. f \in Injection(S, T)
  BY <1>1 DEF Injection, IsInjective
<1>3. IsFiniteSet(S) /\ Cardinality(S) <= Cardinality(T)
  BY <1>2, FS_Injection
<1> QED BY <1>3, FS_CardinalityType

LEMMA TwoParts ==
    ASSUME NEW S, IsFiniteSet(S), NEW A \in SUBSET S, NEW B \in SUBSET S, A \intersect B = {}
    PROVE  /\ Cardinality(A) + Cardinality(B) <= Cardinality(S)
           /\ Cardinality(A) \in Nat /\ Cardinality(B) \in Nat /\ Cardinality(S) \in Nat
<1>1. IsFiniteSet(A) /\ IsFiniteSet(B) /\ IsFiniteSet(A \union B)
  BY FS_Subset
<1>2. Cardinality(A \union B) = Cardinality(A) + Cardinality(B)
  <2>1. Cardinality(A \union B) = Cardinality(A) + Cardinality(B) - Cardinality(A \intersect B)
    BY <1>1, FS_Union
  <2>2. Cardinality(A) \in Nat /\ Cardinality(B) \in Nat /\ Cardinality(A \intersect B) = 0
    BY <1>1, FS_CardinalityType, FS_EmptySet
  <2> QED BY <2>1, <2>2
<1>3. Cardinality(A \union B) <= Cardinality(S)
  BY FS_Subset
<1>4. Cardinality(A) \in Nat /\ Cardinality(B) \in Nat /\ Cardinality(S) \in Nat
  BY <1>1, FS_CardinalityType
<1> QED BY <1>2, <1>3, <1>4

---------------------------------------------------------------------------
(* The rows of steps are those of the rows of jobs that are kept. *)
LEMMA StepsOfKept ==
    ASSUME jobRows \in Seq(JobRows)
    PROVE  /\ \A x \in RowsOfSteps : \E r \in Kept : \E s \in r.steps : x = StepRow(r, s)
           /\ \A r \in Kept : r.id \in ExecutedJobIds <=> r.steps # {}
<1> DEFINE matching == {JobRowKey(r) : r \in StatusRows}
           passing == {r \in RepoRows : /\ MatchRunner(r, pick)
                                        /\ ask.status # "" \/ ask.conditions # {} => JobRowKey(r) \in matching}
<1>1. \A r \in RepoRows : r \in JobRows
  BY KeptAre, RowsPrinted
<1>2. \A r \in RepoRows : JobRowKey(r) \in matching => r \in StatusRows
  <2> SUFFICES ASSUME NEW r \in RepoRows, JobRowKey(r) \in matching PROVE r \in StatusRows
    OBVIOUS
  <2>1. PICK o \in StatusRows : JobRowKey(r) = JobRowKey(o)
    OBVIOUS
  <2>2. o \in RepoRows /\ r.id = o.id
    BY <2>1, KeptAre DEF JobRowKey
  <2> QED BY <1>1, <2>1, <2>2, StepsAssumption
<1>3. \A r \in StatusRows : r \in RepoRows /\ JobRowKey(r) \in matching
  BY KeptAre
<1>4. ask.status = "" /\ ask.conditions = {} => \A r \in RepoRows : r \in StatusRows
  BY DEF StatusRows, MatchJobStatus, Recovered
<1> HIDE DEF matching
<1>5. \A r : r \in passing <=> r \in Kept
  BY <1>2, <1>3, <1>4 DEF Kept
<1>6. RowsOfSteps = UNION {{StepRow(r, s) : s \in r.steps} : r \in passing}
  BY DEF RowsOfSteps, matching
<1> HIDE DEF passing
<1>7. ASSUME NEW x \in RowsOfSteps PROVE \E r \in Kept : \E s \in r.steps : x = StepRow(r, s)
  BY <1>5, <1>6
<1>8. ASSUME NEW r \in Kept, NEW s \in r.steps PROVE StepRow(r, s) \in RowsOfSteps
  BY <1>5, <1>6, <1>8
<1>9. ASSUME NEW r \in Kept PROVE r.id \in ExecutedJobIds <=> r.steps # {}
  <2>1. ASSUME r.id \in ExecutedJobIds PROVE r.steps # {}
    <3>1. PICK x \in RowsOfSteps : x.job.id = r.id
      BY <2>1 DEF ExecutedJobIds
    <3>2. PICK o \in Kept : \E s \in o.steps : x = StepRow(o, s)
      BY <1>7
    <3>3. x.job = o /\ o.steps # {}
      BY <3>2 DEF StepRow
    <3>4. o \in JobRows /\ r \in JobRows /\ r.id = o.id
      BY <1>1, <3>1, <3>3, KeptAre
    <3> QED BY <3>3, <3>4, StepsAssumption
  <2>2. ASSUME r.steps # {} PROVE r.id \in ExecutedJobIds
    <3>1. PICK s \in r.steps : TRUE
      BY <2>2
    <3>2. StepRow(r, s) \in RowsOfSteps /\ StepRow(r, s).job = r
      BY <1>8 DEF StepRow
    <3> QED BY <3>2 DEF ExecutedJobIds
  <2> QED BY <2>1, <2>2
<1> QED BY <1>7, <1>9

LEMMA StepsCounted ==
    ASSUME jobRows \in Seq(JobRows)
    PROVE  StepsAreCountedOverTheirJobs
<1> DEFINE ran(g) == {r \in Kept : GroupOf(r) = g /\ r.steps # {}}
           ranOf(k) == {r \in ran(k[2]) : r.repo = k[1]}
           shown == {x \in RowsOfSteps : (ask.infra \/ x.step.name \notin Infrastructure) /\ OfJob(x.job)}
           KeyOf(x) == <<x.job.repo, GroupOf(x.job), x.step.name, x.step.occurrence>>
           counted(k) == {r \in Kept : r.repo = k[1] /\ GroupOf(r) = k[2] /\ r.id \in ExecutedJobIds}
           of(k) == {x \in shown : KeyOf(x) = k}
           executed(k) == {x \in of(k) : x.step.conclusion # "skipped" /\ x.step.started # None}
           skipped(k) == {x \in of(k) : x.step.conclusion = "skipped"}
<1>1. \A r \in Kept : r \in JobRows
  BY KeptAre, RowsPrinted
<1>2. \A x \in RowsOfSteps : x.job \in Kept /\ x.step \in x.job.steps /\ x = StepRow(x.job, x.step)
  <2> SUFFICES ASSUME NEW x \in RowsOfSteps PROVE x.job \in Kept /\ x.step \in x.job.steps /\ x = StepRow(x.job, x.step)
    OBVIOUS
  <2>1. PICK r \in Kept : \E s \in r.steps : x = StepRow(r, s)
    BY StepsOfKept
  <2>2. PICK s \in r.steps : x = StepRow(r, s)
    BY <2>1
  <2>3. x.job = r /\ x.step = s
    BY <2>2 DEF StepRow
  <2> QED BY <2>2, <2>3
<1>3. \A g : IsFiniteSet(ran(g))
  BY FewRows, FS_Subset
<1>4. \A k : IsFiniteSet(ranOf(k)) /\ counted(k) = ranOf(k)
  BY <1>3, FS_Subset, StepsOfKept
<1>5. ASSUME NEW k \in {KeyOf(x) : x \in shown}
      PROVE  /\ IsFiniteSet(of(k)) /\ Cardinality(of(k)) <= Cardinality(ranOf(k))
             /\ Cardinality(of(k)) \in Nat /\ Cardinality(ranOf(k)) \in Nat
  <2> DEFINE f == [x \in of(k) |-> x.job]
  <2>1. \A x \in of(k) : x.job \in ranOf(k)
    BY <1>2
  <2>2. \A x, y \in of(k) : x.job = y.job => x = y
    <3> SUFFICES ASSUME NEW x \in of(k), NEW y \in of(k), x.job = y.job PROVE x = y
      OBVIOUS
    <3>1. KeyOf(x) = KeyOf(y)
      OBVIOUS
    <3>2. x.step.name = y.step.name /\ x.step.occurrence = y.step.occurrence
      BY <3>1
    <3>3. x.job \in JobRows /\ x.step \in x.job.steps /\ y.step \in x.job.steps
      BY <1>1, <1>2
    <3>4. x.step = y.step
      BY <3>2, <3>3, StepsAssumption
    <3> QED BY <1>2, <3>4
  <2> HIDE DEF of, ranOf
  <2>3. IsFiniteSet(ranOf(k))
    BY <1>4
  <2>4. DOMAIN f = of(k) /\ f = [x \in of(k) |-> f[x]] /\ \A x \in of(k) : f[x] = x.job
    OBVIOUS
  <2> HIDE DEF f
  <2>5. (\A x \in of(k) : f[x] \in ranOf(k)) /\ \A x, y \in of(k) : f[x] = f[y] => x = y
    BY <2>1, <2>2, <2>4
  <2> QED BY <2>3, <2>4, <2>5, NoMoreThan
<1>6. ASSUME NEW k \in {KeyOf(x) : x \in shown}
      PROVE  /\ Cardinality(executed(k)) + Cardinality(skipped(k)) <= Cardinality(ranOf(k))
             /\ Max({Cardinality(counted(k)), Cardinality(executed(k)) + Cardinality(skipped(k))}) = Cardinality(ranOf(k))
  <2>1. executed(k) \in SUBSET of(k) /\ skipped(k) \in SUBSET of(k) /\ executed(k) \intersect skipped(k) = {}
    OBVIOUS
  <2>2. counted(k) = ranOf(k)
    BY <1>4
  <2>3. IsFiniteSet(of(k)) /\ Cardinality(of(k)) <= Cardinality(ranOf(k)) /\ Cardinality(of(k)) \in Nat /\ Cardinality(ranOf(k)) \in Nat
    BY <1>5
  <2> HIDE DEF executed, skipped, counted, ranOf, of
  <2>4. /\ Cardinality(executed(k)) + Cardinality(skipped(k)) <= Cardinality(of(k))
        /\ Cardinality(executed(k)) \in Nat /\ Cardinality(skipped(k)) \in Nat
    BY <2>1, <2>3, TwoParts
  <2>5. /\ Cardinality(executed(k)) + Cardinality(skipped(k)) <= Cardinality(ranOf(k))
        /\ Cardinality(executed(k)) + Cardinality(skipped(k)) \in Nat
    BY <2>3, <2>4
  <2> QED BY <2>2, <2>3, <2>5, MaxOfTwo
<1>7. StepStats =
        [k \in {KeyOf(x) : x \in shown} |->
            [jobs |-> Max({Cardinality(counted(k)), Cardinality(executed(k)) + Cardinality(skipped(k))}),
             skipped |-> Cardinality(skipped(k)), executed |-> Cardinality(executed(k)),
             failed |-> Cardinality({x \in executed(k) : x.step.conclusion \in Failures}),
             samples |-> Cardinality({x \in executed(k) : x.step.completed # None})]]
  BY DEF StepStats
<1>8. \A k \in DOMAIN StepStats : /\ StepStats[k].jobs = Cardinality(ranOf(k))
                                  /\ StepStats[k].executed + StepStats[k].skipped <= StepStats[k].jobs
  <2> HIDE DEF KeyOf, shown, counted, executed, skipped, ranOf
  <2> QED BY <1>6, <1>7
<1> DEFINE timed == {x.job : x \in {x \in RowsOfSteps : x.job.runStarted # None /\ OfJob(x.job)
                                                        /\ (ask.infra \/ x.step.name \notin Infrastructure)}}
           timedIn(g) == {r \in timed : GroupOf(r) = g}
<1>9. TypicalOffsets = [g \in {GroupOf(r) : r \in timed} |-> Cardinality({r.id : r \in timedIn(g)})]
  BY DEF TypicalOffsets
<1>10. ASSUME NEW g PROVE Cardinality({r.id : r \in timedIn(g)}) <= Cardinality(ran(g))
  <2> DEFINE f == [r \in timedIn(g) |-> r.id]
             ids == {r.id : r \in timedIn(g)}
  <2>1. timedIn(g) \in SUBSET ran(g)
    BY <1>2
  <2> HIDE DEF timedIn
  <2>2. f \in Surjection(timedIn(g), ids)
    BY DEF Surjection
  <2> HIDE DEF f, ids, ran
  <2>3. IsFiniteSet(timedIn(g)) /\ Cardinality(timedIn(g)) <= Cardinality(ran(g))
    BY <1>3, <2>1, FS_Subset
  <2>4. IsFiniteSet(ids) /\ Cardinality(ids) <= Cardinality(timedIn(g))
    BY <2>2, <2>3, FS_Surjection
  <2>5. Cardinality(ids) \in Nat /\ Cardinality(timedIn(g)) \in Nat /\ Cardinality(ran(g)) \in Nat
    BY <1>3, <2>3, <2>4, FS_CardinalityType
  <2>6. Cardinality(ids) <= Cardinality(ran(g))
    BY <2>3, <2>4, <2>5
  <2> QED BY <2>6 DEF ids
<1>11. \A g \in DOMAIN TypicalOffsets : TypicalOffsets[g] <= Cardinality(ran(g))
  <2> HIDE DEF timedIn, ran
  <2> QED BY <1>9, <1>10
<1> HIDE DEF shown, KeyOf, counted, of, executed, skipped, timed
<1> QED BY <1>8, <1>11 DEF StepsAreCountedOverTheirJobs, CountedOverTheirJobs

---------------------------------------------------------------------------
(* What was asked for leaves as many jobs as it was offered with. *)
LEMMA OffersExact == OffersAreExact
<1>1. \A c : MatchingStepConditionJobs(RepoRows, {c}) = {JobRowKey(r) : r \in {r \in RepoRows : c \in Outcomes(r)}}
  BY DEF MatchingStepConditionJobs
<1>2. \A c \in DOMAIN StepConditionFacets : Cardinality(MatchingStepConditionJobs(RepoRows, {c})) = StepConditionFacets[c]
  <2>1. \A c \in DOMAIN StepConditionFacets :
          StepConditionFacets[c] = Cardinality({JobRowKey(r) : r \in {r \in RepoRows : c \in Outcomes(r)}})
    BY DEF StepConditionFacets
  <2> QED BY <1>1, <2>1
<1>3. \A v \in DOMAIN JobStatusFacets : Cardinality({r \in RepoRows : MatchJobStatus(r, v)}) = JobStatusFacets[v]
  <2>1. \A v \in DOMAIN JobStatusFacets :
          v # "" /\ JobStatusFacets[v] = Cardinality({r \in RepoRows : v \in {r.status, r.conclusion}})
    <3> DEFINE said == UNION {{r.status, r.conclusion} : r \in RepoRows}
    <3>1. JobStatusFacets = [v \in said \ {None, ""} |-> Cardinality({r \in RepoRows : v \in {r.status, r.conclusion}})]
      BY DEF JobStatusFacets
    <3> HIDE DEF said
    <3> QED BY <3>1
  <2>2. \A v : v # "" => {r \in RepoRows : MatchJobStatus(r, v)} = {r \in RepoRows : v \in {r.status, r.conclusion}}
    BY DEF MatchJobStatus
  <2> QED BY <2>1, <2>2
<1> QED BY <1>2, <1>3 DEF OffersAreExact

(* The runner filter, as it is read and as it is written. *)
Kinds == {"hosted", "self-hosted", "unknown"}
IsPick(f) == DOMAIN f = DOMAIN NoPick
IsNormal(f) ==
    /\ IsPick(f) /\ f.kinds \subseteq Kinds /\ <<>> \notin f.labelSets
    /\ "" \notin f.groups /\ "" \notin f.names
    /\ f.exact \in BOOLEAN /\ (f.exact => f.name # "")
    /\ f.kind \in {"all", "self-hosted", "github-hosted"}

SameFields(f, g) ==
    /\ f.kind = g.kind /\ f.labels = g.labels /\ f.group = g.group /\ f.name = g.name /\ f.exact = g.exact
    /\ f.kinds = g.kinds /\ f.labelSets = g.labelSets /\ f.groups = g.groups /\ f.names = g.names

LEMMA PickFieldsAre ==
    DOMAIN NoPick = {"kind", "labels", "group", "name", "exact", "kinds", "labelSets", "groups", "names"}
BY DEF NoPick

LEMMA Normalized ==
    ASSUME NEW f, IsPick(f)
    PROVE  LET g == NormalizeRunnerFilter(f)
           IN  /\ IsNormal(g)
               /\ g.kind = (IF f.kind \in {"self-hosted", "github-hosted"} THEN f.kind ELSE "all")
               /\ g.labels = f.labels /\ g.group = f.group /\ g.name = f.name
               /\ g.exact = (f.exact /\ f.name # "")
               /\ g.kinds = f.kinds \intersect Kinds /\ g.labelSets = f.labelSets \ {<<>>}
               /\ g.groups = f.groups \ {""} /\ g.names = f.names \ {""}
<1> DEFINE g == NormalizeRunnerFilter(f)
<1>1. /\ DOMAIN g = DOMAIN NoPick
      /\ g.kind = (IF f.kind \in {"self-hosted", "github-hosted"} THEN f.kind ELSE "all")
      /\ g.labels = f.labels /\ g.group = f.group /\ g.name = f.name
      /\ g.exact = (f.exact /\ f.name # "")
      /\ g.kinds = f.kinds \intersect Kinds /\ g.labelSets = f.labelSets \ {<<>>}
      /\ g.groups = f.groups \ {""} /\ g.names = f.names \ {""}
  BY PickFieldsAre DEF NormalizeRunnerFilter, IsPick, Kinds
<1> HIDE DEF g
<1>2. IsNormal(g)
  BY <1>1 DEF IsNormal, IsPick
<1> QED BY <1>1, <1>2 DEF g

LEMMA NormalStays ==
    ASSUME NEW f, IsNormal(f)
    PROVE  SameFields(NormalizeRunnerFilter(f), f)
<1>1. IsPick(f)
  BY DEF IsNormal
<1> DEFINE g == NormalizeRunnerFilter(f)
<1>2. /\ g.kind = (IF f.kind \in {"self-hosted", "github-hosted"} THEN f.kind ELSE "all")
      /\ g.labels = f.labels /\ g.group = f.group /\ g.name = f.name
      /\ g.exact = (f.exact /\ f.name # "")
      /\ g.kinds = f.kinds \intersect Kinds /\ g.labelSets = f.labelSets \ {<<>>}
      /\ g.groups = f.groups \ {""} /\ g.names = f.names \ {""}
  BY <1>1, Normalized
<1> HIDE DEF g
<1>3. SameFields(g, f)
  BY <1>2 DEF SameFields, IsNormal
<1> QED BY <1>3 DEF g

(* What a normal filter selects. *)
Selections(f) ==
    [kinds |-> f.kinds \union CASE f.kind = "self-hosted" -> {"self-hosted", "unknown"}
                                [] f.kind = "github-hosted" -> {"hosted"} [] OTHER -> {},
     labelSets |-> IF f.labels = <<>> THEN f.labelSets
                   ELSE {l \in f.labelSets : LabelSetKey(l) # LabelSetKey(f.labels)} \union {f.labels},
     groups |-> f.groups \union ({f.group} \ {""}),
     names |-> f.names \union IF IsPattern(f) THEN {} ELSE {f.name} \ {""}]

LEMMA SelectionsOfFields ==
    ASSUME NEW f, NEW g, SameFields(f, g)
    PROVE  Selections(f) = Selections(g) /\ (IsPattern(f) <=> IsPattern(g))
<1>1. IsPattern(f) <=> IsPattern(g)
  BY DEF IsPattern, SameFields
<1> QED BY <1>1 DEF Selections, SameFields

LEMMA SelectionsAre ==
    ASSUME NEW f
    PROVE  RunnerFilterSelections(f) = Selections(NormalizeRunnerFilter(f))
BY DEF RunnerFilterSelections, Selections

LEMMA SelectionsOfNormal ==
    ASSUME NEW f, IsNormal(f)
    PROVE  RunnerFilterSelections(f) = Selections(f)
BY SelectionsAre, NormalStays, SelectionsOfFields

LEMMA NothingEmptySelected ==
    ASSUME NEW f, IsNormal(f)
    PROVE  LET s == Selections(f)
           IN  s.kinds \subseteq Kinds /\ <<>> \notin s.labelSets /\ "" \notin s.groups /\ "" \notin s.names
<1>1. Selections(f).kinds \subseteq Kinds
  <2>1. Selections(f).kinds = f.kinds \union CASE f.kind = "self-hosted" -> {"self-hosted", "unknown"}
                                [] f.kind = "github-hosted" -> {"hosted"} [] OTHER -> {}
    BY DEF Selections
  <2> QED BY <2>1 DEF IsNormal, Kinds
<1>2. <<>> \notin Selections(f).labelSets
  <2>1. Selections(f).labelSets = IF f.labels = <<>> THEN f.labelSets
                   ELSE {l \in f.labelSets : LabelSetKey(l) # LabelSetKey(f.labels)} \union {f.labels}
    BY DEF Selections
  <2> QED BY <2>1 DEF IsNormal
<1>3. "" \notin Selections(f).groups /\ "" \notin Selections(f).names
  BY DEF Selections, IsNormal
<1> QED BY <1>1, <1>2, <1>3

(* The list of a field after a click. *)
Flipped(values, field, v) ==
    LET same == {x \in values : Identity(field, x) = Identity(field, v)}
    IN  IF same # {} THEN values \ same ELSE values \union {v}
Written(f, field, next) == [WithoutLegacy(f, field) EXCEPT ![field] = next]
Clicked(f, field, v) == NormalizeRunnerFilter(Written(f, field, Flipped(Selections(f)[field], field, v)))

LEMMA ToggleIsAClick ==
    ASSUME NEW f, IsPick(f), NEW field, NEW v
    PROVE  ToggleRunnerFilterValue(f, field, v) = Clicked(NormalizeRunnerFilter(f), field, v)
<1>1. RunnerFilterSelections(NormalizeRunnerFilter(f)) = Selections(NormalizeRunnerFilter(f))
  BY Normalized, SelectionsOfNormal
<1> QED BY <1>1 DEF ToggleRunnerFilterValue, Clicked, Written, Flipped

(* A click on a kind, a label set, a group or a name. *)
LEMMA KindClicked ==
    ASSUME NEW f, IsNormal(f), NEW v \in Kinds
    PROVE  LET g == Clicked(f, "kinds", v)
           IN  /\ IsNormal(g) /\ (IsPattern(g) <=> IsPattern(f)) /\ g.name = f.name
               /\ Selections(g).kinds = Flipped(Selections(f).kinds, "kinds", v)
               /\ Selections(g).labelSets = Selections(f).labelSets
               /\ Selections(g).groups = Selections(f).groups
               /\ Selections(g).names = Selections(f).names
<1> DEFINE next == Flipped(Selections(f).kinds, "kinds", v)
           w == Written(f, "kinds", next)
           g == NormalizeRunnerFilter(w)
<1>1. next \subseteq Kinds
  <2>1. Selections(f).kinds \subseteq Kinds
    BY NothingEmptySelected
  <2> QED BY <2>1 DEF Flipped
<1> HIDE DEF next
<1>2. /\ IsPick(w) /\ w.kind = "all" /\ w.labels = f.labels /\ w.group = f.group /\ w.name = f.name /\ w.exact = f.exact
      /\ w.kinds = next /\ w.labelSets = f.labelSets /\ w.groups = f.groups /\ w.names = f.names
  BY PickFieldsAre DEF Written, WithoutLegacy, IsNormal, IsPick
<1> HIDE DEF w
<1>3. /\ IsNormal(g) /\ g.kind = "all" /\ g.labels = f.labels /\ g.group = f.group /\ g.name = f.name /\ g.exact = f.exact
      /\ g.kinds = next /\ g.labelSets = f.labelSets /\ g.groups = f.groups /\ g.names = f.names
  <2>1. /\ IsNormal(g) /\ g.kind = (IF w.kind \in {"self-hosted", "github-hosted"} THEN w.kind ELSE "all")
        /\ g.labels = w.labels /\ g.group = w.group /\ g.name = w.name
        /\ g.exact = (w.exact /\ w.name # "")
        /\ g.kinds = w.kinds \intersect Kinds /\ g.labelSets = w.labelSets \ {<<>>}
        /\ g.groups = w.groups \ {""} /\ g.names = w.names \ {""}
    BY <1>2, Normalized
  <2> HIDE DEF g
  <2> QED BY <1>1, <1>2, <2>1 DEF IsNormal
<1> HIDE DEF g
<1>4. IsPattern(g) <=> IsPattern(f)
  BY <1>3 DEF IsPattern
<1>5. /\ Selections(g).kinds = next /\ Selections(g).labelSets = Selections(f).labelSets
      /\ Selections(g).groups = Selections(f).groups /\ Selections(g).names = Selections(f).names
  BY <1>3, <1>4 DEF Selections
<1> QED BY <1>3, <1>4, <1>5 DEF Clicked, g, w, next

LEMMA LabelSetClicked ==
    ASSUME NEW f, IsNormal(f), NEW v, v # <<>>
    PROVE  LET g == Clicked(f, "labelSets", v)
           IN  /\ IsNormal(g) /\ (IsPattern(g) <=> IsPattern(f)) /\ g.name = f.name
               /\ Selections(g).labelSets = Flipped(Selections(f).labelSets, "labelSets", v)
               /\ Selections(g).kinds = Selections(f).kinds
               /\ Selections(g).groups = Selections(f).groups
               /\ Selections(g).names = Selections(f).names
<1> DEFINE next == Flipped(Selections(f).labelSets, "labelSets", v)
           w == Written(f, "labelSets", next)
           g == NormalizeRunnerFilter(w)
<1>1. <<>> \notin next
  <2>1. <<>> \notin Selections(f).labelSets
    BY NothingEmptySelected
  <2> QED BY <2>1 DEF Flipped
<1> HIDE DEF next
<1>2. /\ IsPick(w) /\ w.kind = f.kind /\ w.labels = <<>> /\ w.group = f.group /\ w.name = f.name /\ w.exact = f.exact
      /\ w.kinds = f.kinds /\ w.labelSets = next /\ w.groups = f.groups /\ w.names = f.names
  BY PickFieldsAre DEF Written, WithoutLegacy, IsNormal, IsPick
<1> HIDE DEF w
<1>3. /\ IsNormal(g) /\ g.kind = f.kind /\ g.labels = <<>> /\ g.group = f.group /\ g.name = f.name /\ g.exact = f.exact
      /\ g.kinds = f.kinds /\ g.labelSets = next /\ g.groups = f.groups /\ g.names = f.names
  <2>1. /\ IsNormal(g) /\ g.kind = (IF w.kind \in {"self-hosted", "github-hosted"} THEN w.kind ELSE "all")
        /\ g.labels = w.labels /\ g.group = w.group /\ g.name = w.name
        /\ g.exact = (w.exact /\ w.name # "")
        /\ g.kinds = w.kinds \intersect Kinds /\ g.labelSets = w.labelSets \ {<<>>}
        /\ g.groups = w.groups \ {""} /\ g.names = w.names \ {""}
    BY <1>2, Normalized
  <2> HIDE DEF g
  <2> QED BY <1>1, <1>2, <2>1 DEF IsNormal
<1> HIDE DEF g
<1>4. IsPattern(g) <=> IsPattern(f)
  BY <1>3 DEF IsPattern
<1>5. /\ Selections(g).labelSets = next /\ Selections(g).kinds = Selections(f).kinds
      /\ Selections(g).groups = Selections(f).groups /\ Selections(g).names = Selections(f).names
  BY <1>3, <1>4 DEF Selections
<1> QED BY <1>3, <1>4, <1>5 DEF Clicked, g, w, next

LEMMA GroupClicked ==
    ASSUME NEW f, IsNormal(f), NEW v, v # ""
    PROVE  LET g == Clicked(f, "groups", v)
           IN  /\ IsNormal(g) /\ (IsPattern(g) <=> IsPattern(f)) /\ g.name = f.name
               /\ Selections(g).groups = Flipped(Selections(f).groups, "groups", v)
               /\ Selections(g).kinds = Selections(f).kinds
               /\ Selections(g).labelSets = Selections(f).labelSets
               /\ Selections(g).names = Selections(f).names
<1> DEFINE next == Flipped(Selections(f).groups, "groups", v)
           w == Written(f, "groups", next)
           g == NormalizeRunnerFilter(w)
<1>1. "" \notin next
  <2>1. "" \notin Selections(f).groups
    BY NothingEmptySelected
  <2> QED BY <2>1 DEF Flipped
<1> HIDE DEF next
<1>2. /\ IsPick(w) /\ w.kind = f.kind /\ w.labels = f.labels /\ w.group = "" /\ w.name = f.name /\ w.exact = f.exact
      /\ w.kinds = f.kinds /\ w.labelSets = f.labelSets /\ w.groups = next /\ w.names = f.names
  BY PickFieldsAre DEF Written, WithoutLegacy, IsNormal, IsPick
<1> HIDE DEF w
<1>3. /\ IsNormal(g) /\ g.kind = f.kind /\ g.labels = f.labels /\ g.group = "" /\ g.name = f.name /\ g.exact = f.exact
      /\ g.kinds = f.kinds /\ g.labelSets = f.labelSets /\ g.groups = next /\ g.names = f.names
  <2>1. /\ IsNormal(g) /\ g.kind = (IF w.kind \in {"self-hosted", "github-hosted"} THEN w.kind ELSE "all")
        /\ g.labels = w.labels /\ g.group = w.group /\ g.name = w.name
        /\ g.exact = (w.exact /\ w.name # "")
        /\ g.kinds = w.kinds \intersect Kinds /\ g.labelSets = w.labelSets \ {<<>>}
        /\ g.groups = w.groups \ {""} /\ g.names = w.names \ {""}
    BY <1>2, Normalized
  <2> HIDE DEF g
  <2> QED BY <1>1, <1>2, <2>1 DEF IsNormal
<1> HIDE DEF g
<1>4. IsPattern(g) <=> IsPattern(f)
  BY <1>3 DEF IsPattern
<1>5. /\ Selections(g).groups = next /\ Selections(g).kinds = Selections(f).kinds
      /\ Selections(g).labelSets = Selections(f).labelSets /\ Selections(g).names = Selections(f).names
  BY <1>3, <1>4 DEF Selections
<1> QED BY <1>3, <1>4, <1>5 DEF Clicked, g, w, next

LEMMA NameClicked ==
    ASSUME NEW f, IsNormal(f), NEW v, v # ""
    PROVE  LET g == Clicked(f, "names", v)
           IN  /\ IsNormal(g) /\ (IsPattern(g) <=> IsPattern(f)) /\ (IsPattern(f) => g.name = f.name)
               /\ Selections(g).names = Flipped(Selections(f).names, "names", v)
               /\ Selections(g).kinds = Selections(f).kinds
               /\ Selections(g).labelSets = Selections(f).labelSets
               /\ Selections(g).groups = Selections(f).groups
<1> DEFINE next == Flipped(Selections(f).names, "names", v)
           w == Written(f, "names", next)
           g == NormalizeRunnerFilter(w)
<1>1. "" \notin next
  <2>1. "" \notin Selections(f).names
    BY NothingEmptySelected
  <2> QED BY <2>1 DEF Flipped
<1> HIDE DEF next
<1>2. /\ IsPick(w) /\ w.kind = f.kind /\ w.labels = f.labels /\ w.group = f.group
      /\ w.name = (IF IsPattern(f) THEN f.name ELSE "") /\ w.exact = (IF IsPattern(f) THEN f.exact ELSE FALSE)
      /\ w.kinds = f.kinds /\ w.labelSets = f.labelSets /\ w.groups = f.groups /\ w.names = next
  BY PickFieldsAre DEF Written, WithoutLegacy, IsNormal, IsPick
<1> HIDE DEF w
<1>3. /\ IsNormal(g) /\ g.kind = f.kind /\ g.labels = f.labels /\ g.group = f.group
      /\ g.name = (IF IsPattern(f) THEN f.name ELSE "") /\ g.exact = (IF IsPattern(f) THEN f.exact ELSE FALSE)
      /\ g.kinds = f.kinds /\ g.labelSets = f.labelSets /\ g.groups = f.groups /\ g.names = next
  <2>1. /\ IsNormal(g) /\ g.kind = (IF w.kind \in {"self-hosted", "github-hosted"} THEN w.kind ELSE "all")
        /\ g.labels = w.labels /\ g.group = w.group /\ g.name = w.name
        /\ g.exact = (w.exact /\ w.name # "")
        /\ g.kinds = w.kinds \intersect Kinds /\ g.labelSets = w.labelSets \ {<<>>}
        /\ g.groups = w.groups \ {""} /\ g.names = w.names \ {""}
    BY <1>2, Normalized
  <2> HIDE DEF g
  <2> QED BY <1>1, <1>2, <2>1 DEF IsNormal
<1> HIDE DEF g
<1>4. IsPattern(g) <=> IsPattern(f)
  BY <1>3, StepsAssumption DEF IsPattern
<1>5. /\ Selections(g).names = next /\ Selections(g).kinds = Selections(f).kinds
      /\ Selections(g).labelSets = Selections(f).labelSets /\ Selections(g).groups = Selections(f).groups
  <2>1. g.name # "" => IsPattern(g)
    BY <1>3, <1>4
  <2>2. Selections(g).names = next
    BY <1>3, <2>1 DEF Selections
  <2> QED BY <1>3, <2>2 DEF Selections
<1> QED BY <1>3, <1>4, <1>5 DEF Clicked, g, w, next

---------------------------------------------------------------------------
(* What may be picked in a field. *)
Fits(field, v) ==
    CASE field = "kinds" -> v \in Kinds
      [] field = "labelSets" -> v # <<>>
      [] OTHER -> v # ""

LEMMA ClickTurnsItsField ==
    ASSUME NEW f, IsNormal(f), NEW field \in PickFields, NEW v, Fits(field, v)
    PROVE  LET g == Clicked(f, field, v)
           IN  /\ IsNormal(g) /\ (IsPattern(g) <=> IsPattern(f))
               /\ Selections(g)[field] = Flipped(Selections(f)[field], field, v)
               /\ \A other \in PickFields \ {field} : Selections(g)[other] = Selections(f)[other]
<1>1. CASE field = "kinds"
  BY <1>1, KindClicked DEF Fits, PickFields
<1>2. CASE field = "labelSets"
  BY <1>2, LabelSetClicked DEF Fits, PickFields
<1>3. CASE field = "groups"
  <2>1. v # ""
    BY <1>3 DEF Fits
  <2> DEFINE g == Clicked(f, "groups", v)
  <2>2. /\ IsNormal(g) /\ (IsPattern(g) <=> IsPattern(f))
        /\ Selections(g).groups = Flipped(Selections(f).groups, "groups", v)
        /\ \A other \in PickFields \ {"groups"} : Selections(g)[other] = Selections(f)[other]
    BY <2>1, GroupClicked, ZenonT(60) DEF PickFields
  <2> QED BY <1>3, <2>2
<1>4. CASE field = "names"
  <2>1. v # ""
    BY <1>4 DEF Fits
  <2> DEFINE g == Clicked(f, "names", v)
  <2>2. /\ IsNormal(g) /\ (IsPattern(g) <=> IsPattern(f))
        /\ Selections(g).names = Flipped(Selections(f).names, "names", v)
        /\ \A other \in PickFields \ {"names"} : Selections(g)[other] = Selections(f)[other]
    BY <2>1, NameClicked, ZenonT(60) DEF PickFields
  <2> QED BY <1>4, <2>2
<1> QED BY <1>1, <1>2, <1>3, <1>4 DEF PickFields

LEMMA NothingPicked ==
    LET f == NormalizeRunnerFilter(NoPick)
    IN  IsNormal(f) /\ ~IsPattern(f) /\ \A field \in PickFields : Selections(f)[field] = {}
<1> DEFINE f == NormalizeRunnerFilter(NoPick)
<1>1. IsNormal(NoPick)
  BY DEF IsNormal, IsPick, NoPick, Kinds
<1>2. IsNormal(f) /\ SameFields(f, NoPick)
  BY <1>1, NormalStays, Normalized DEF IsNormal
<1>3. ~IsPattern(NoPick)
  BY StepsAssumption DEF IsPattern, NoPick
<1>4. Selections(f) = Selections(NoPick) /\ ~IsPattern(f)
  BY <1>2, <1>3, SelectionsOfFields
<1>5. /\ Selections(NoPick).kinds = {} /\ Selections(NoPick).labelSets = {}
      /\ Selections(NoPick).groups = {} /\ Selections(NoPick).names = {}
  BY <1>3 DEF Selections, NoPick
<1> HIDE DEF f
<1>6. IsNormal(f) /\ ~IsPattern(f) /\ \A field \in PickFields : Selections(f)[field] = {}
  BY <1>2, <1>4, <1>5 DEF PickFields
<1> QED BY <1>6 DEF f

LEMMA MatchedByNormal ==
    ASSUME NEW g, IsNormal(g), NEW row
    PROVE  MatchRunner(row, g) <=>
              /\ Selections(g).kinds # {} => (IF row.kind = "" THEN "unknown" ELSE row.kind) \in Selections(g).kinds
              /\ Selections(g).labelSets # {} => LabelSetKey(row.labels) \in {LabelSetKey(l) : l \in Selections(g).labelSets}
              /\ Selections(g).groups # {} => row.group \in Selections(g).groups
              /\ Selections(g).names # {} \/ IsPattern(g) =>
                     row.runner \in Selections(g).names \union IF IsPattern(g) THEN Patterns[g.name] ELSE {}
<1> DEFINE f == NormalizeRunnerFilter(g)
<1>1. SameFields(f, g) /\ IsNormal(f)
  BY NormalStays, Normalized DEF IsNormal
<1>2. (IsPattern(f) <=> IsPattern(g)) /\ RunnerFilterSelections(f) = Selections(g) /\ f.name = g.name
  BY <1>1, SelectionsOfFields, SelectionsOfNormal DEF SameFields
<1>3. MatchRunner(row, g) <=>
        LET selected == RunnerFilterSelections(f)
            keys == {LabelSetKey(l) : l \in selected.labelSets}
        IN  /\ selected.kinds # {} => (IF row.kind = "" THEN "unknown" ELSE row.kind) \in selected.kinds
            /\ keys # {} => LabelSetKey(row.labels) \in keys
            /\ selected.groups # {} => row.group \in selected.groups
            /\ selected.names # {} \/ IsPattern(f) =>
                   row.runner \in selected.names \union IF IsPattern(f) THEN Patterns[f.name] ELSE {}
  BY DEF MatchRunner
<1> HIDE DEF f
<1> QED BY <1>2, <1>3

LEMMA MatchedBySelections ==
    ASSUME NEW g, IsNormal(g), ~IsPattern(g), NEW row
    PROVE  MatchRunner(row, g) <=>
              /\ Selections(g).kinds # {} => (IF row.kind = "" THEN "unknown" ELSE row.kind) \in Selections(g).kinds
              /\ Selections(g).labelSets # {} => LabelSetKey(row.labels) \in {LabelSetKey(l) : l \in Selections(g).labelSets}
              /\ Selections(g).groups # {} => row.group \in Selections(g).groups
              /\ Selections(g).names # {} => row.runner \in Selections(g).names
BY MatchedByNormal

(* An option alone takes the rows that have its value. *)
LEMMA AloneTakesItsRows ==
    ASSUME NEW field \in PickFields, NEW v, Fits(field, v), NEW row \in JobRows
    PROVE  MatchRunner(row, ToggleRunnerFilterValue(NoPick, field, v)) <=>
              CASE field = "kinds" -> row.kind = v
                [] field = "labelSets" -> LabelSetKey(row.labels) = LabelSetKey(v)
                [] field = "groups" -> row.group = v
                [] OTHER -> row.runner = v
<1> DEFINE f == NormalizeRunnerFilter(NoPick)
           g == Clicked(f, field, v)
<1>1. ToggleRunnerFilterValue(NoPick, field, v) = g
  BY ToggleIsAClick DEF IsPick
<1>2. IsNormal(f) /\ ~IsPattern(f) /\ \A other \in PickFields : Selections(f)[other] = {}
  BY NothingPicked
<1> HIDE DEF f
<1>3. /\ IsNormal(g) /\ ~IsPattern(g) /\ Selections(g)[field] = Flipped({}, field, v)
      /\ \A other \in PickFields \ {field} : Selections(g)[other] = {}
  <2>1. /\ IsNormal(g) /\ (IsPattern(g) <=> IsPattern(f)) /\ Selections(g)[field] = Flipped(Selections(f)[field], field, v)
        /\ \A other \in PickFields \ {field} : Selections(g)[other] = Selections(f)[other]
    BY <1>2, ClickTurnsItsField
  <2> HIDE DEF g
  <2> QED BY <1>2, <2>1
<1>4. Flipped({}, field, v) = {v}
  BY DEF Flipped
<1>5. row.kind \in Kinds
  BY StepsAssumption DEF Kinds
<1> HIDE DEF g
<1>6. MatchRunner(row, g) <=>
              /\ Selections(g).kinds # {} => (IF row.kind = "" THEN "unknown" ELSE row.kind) \in Selections(g).kinds
              /\ Selections(g).labelSets # {} => LabelSetKey(row.labels) \in {LabelSetKey(l) : l \in Selections(g).labelSets}
              /\ Selections(g).groups # {} => row.group \in Selections(g).groups
              /\ Selections(g).names # {} => row.runner \in Selections(g).names
  BY <1>3, MatchedBySelections
<1>7. CASE field = "kinds"
  <2>1. Selections(g).kinds = {v} /\ Selections(g).labelSets = {} /\ Selections(g).groups = {} /\ Selections(g).names = {}
    BY <1>3, <1>4, <1>7 DEF PickFields
  <2>2. row.kind # ""
    BY <1>5 DEF Kinds
  <2> QED BY <1>1, <1>6, <1>7, <2>1, <2>2
<1>8. CASE field = "labelSets"
  <2>1. Selections(g).kinds = {} /\ Selections(g).labelSets = {v} /\ Selections(g).groups = {} /\ Selections(g).names = {}
    BY <1>3, <1>4, <1>8 DEF PickFields
  <2> QED BY <1>1, <1>6, <1>8, <2>1
<1>9. CASE field = "groups"
  <2>1. Selections(g).kinds = {} /\ Selections(g).labelSets = {} /\ Selections(g).groups = {v} /\ Selections(g).names = {}
    BY <1>3, <1>4, <1>9 DEF PickFields
  <2> QED BY <1>1, <1>6, <1>9, <2>1
<1>10. CASE field = "names"
  <2>1. Selections(g).kinds = {} /\ Selections(g).labelSets = {} /\ Selections(g).groups = {} /\ Selections(g).names = {v}
    BY <1>3, <1>4, <1>10 DEF PickFields
  <2> QED BY <1>1, <1>6, <1>10, <2>1
<1> QED BY <1>7, <1>8, <1>9, <1>10 DEF PickFields

(* The first of some places. *)
LEMMA FirstPlace ==
    ASSUME NEW S \in SUBSET Nat, S # {}
    PROVE  Min(S) \in S
<1>1. PICK m \in S : \A k \in S : ~ (<<k, m>> \in OpToRel(<, Nat))
  BY NatLessThanWellFounded, WFMin, Zenon
<1>2. \A k \in S : m <= k
  <2> SUFFICES ASSUME NEW k \in S, k < m PROVE FALSE
    OBVIOUS
  <2>1. <<k, m>> \in OpToRel(<, Nat)
    <3>1. k \in Nat /\ m \in Nat
      OBVIOUS
    <3> QED BY <3>1, Zenon DEF OpToRel
  <2> QED BY <1>1, <2>1, Zenon
<1> QED BY <1>2 DEF Min

(* As many places as rows. *)
LEMMA PlacesAreRows ==
    ASSUME jobRows \in Seq(JobRows), IsInjective(jobRows), NEW rows, rows \subseteq Range(jobRows)
    PROVE  Cardinality({i \in DOMAIN jobRows : jobRows[i] \in rows}) = Cardinality(rows)
<1> DEFINE S == {i \in DOMAIN jobRows : jobRows[i] \in rows}
           f == [i \in S |-> jobRows[i]]
<1>1. S \in SUBSET (1 .. Len(jobRows)) /\ IsFiniteSet(1 .. Len(jobRows))
  BY FS_Interval
<1>2. IsFiniteSet(S)
  BY <1>1, FS_Subset
<1>3. f \in [S -> rows] /\ DOMAIN f = S
  OBVIOUS
<1>4. \A r \in rows : \E i \in S : f[i] = r
  BY DEF Range
<1>5. \A a, b \in S : f[a] = f[b] => a = b
  BY DEF IsInjective
<1> HIDE DEF f, S
<1>6. f \in Surjection(S, rows) /\ f \in Injection(S, rows)
  BY <1>3, <1>4, <1>5 DEF Surjection, Injection, IsInjective
<1>7. Cardinality(rows) = Cardinality(S)
  BY <1>2, <1>6, FS_Surjection
<1> QED BY <1>7 DEF S

(* What an option offers is there, and as often as it says. *)
LEMMA OfferedAsOften ==
    ASSUME jobRows \in Seq(JobRows), IsInjective(jobRows),
           NEW field \in PickFields, NEW option \in RunnerFacets[field], field = "labelSets" => option.value # <<>>
    PROVE  /\ Fits(field, option.value)
           /\ Cardinality({r \in RepoRows : MatchRunner(r, ToggleRunnerFilterValue(NoPick, field, option.value))}) = option.count
<1> DEFINE v == option.value
           Times(f, x) == Cardinality({r \in RepoRows : r[f] = x})
           Offered(f) == {[value |-> x, count |-> Times(f, x)] : x \in {r[f] : r \in RepoRows} \ {""}}
           Of(key) == {i \in DOMAIN jobRows : jobRows[i] \in RepoRows /\ LabelSetKey(jobRows[i].labels) = key}
           sets == {[value |-> jobRows[Min(Of(key))].labels, count |-> Cardinality(Of(key))] :
                       key \in {LabelSetKey(r.labels) : r \in RepoRows}}
<1>1. /\ RunnerFacets.kinds = Offered("kind") /\ RunnerFacets.groups = Offered("group")
      /\ RunnerFacets.names = Offered("runner") /\ RunnerFacets.labelSets = sets
  BY DEF RunnerFacets
<1>2. \A r \in RepoRows : r \in JobRows /\ r.kind \in Kinds
  BY KeptAre, RowsPrinted, StepsAssumption DEF Kinds
<1>3. ASSUME NEW f, option \in Offered(f)
      PROVE  v # "" /\ option.count = Cardinality({r \in RepoRows : r[f] = v}) /\ \E r \in RepoRows : v = r[f]
  <2>1. PICK x \in {r[f] : r \in RepoRows} \ {""} : option = [value |-> x, count |-> Times(f, x)]
    BY <1>3
  <2>2. v = x /\ option.count = Times(f, x)
    BY <2>1
  <2> QED BY <2>1, <2>2
<1>4. ASSUME Fits(field, v)
      PROVE  {r \in RepoRows : MatchRunner(r, ToggleRunnerFilterValue(NoPick, field, v))} =
             {r \in RepoRows : CASE field = "kinds" -> r.kind = v
                                 [] field = "labelSets" -> LabelSetKey(r.labels) = LabelSetKey(v)
                                 [] field = "groups" -> r.group = v
                                 [] OTHER -> r.runner = v}
  BY <1>2, <1>4, AloneTakesItsRows
<1> HIDE DEF Offered, sets, v
<1>5. CASE field = "kinds"
  <2>1. option \in Offered("kind")
    BY <1>1, <1>5
  <2>2. Fits(field, v) /\ option.count = Cardinality({r \in RepoRows : r.kind = v})
    BY <1>2, <1>3, <1>5, <2>1 DEF Fits
  <2> QED BY <1>4, <1>5, <2>2 DEF v
<1>6. CASE field = "groups"
  <2>1. option \in Offered("group")
    BY <1>1, <1>6
  <2>2. Fits(field, v) /\ option.count = Cardinality({r \in RepoRows : r.group = v})
    BY <1>3, <1>6, <2>1 DEF Fits
  <2> QED BY <1>4, <1>6, <2>2 DEF v
<1>7. CASE field = "names"
  <2>1. option \in Offered("runner")
    BY <1>1, <1>7
  <2>2. Fits(field, v) /\ option.count = Cardinality({r \in RepoRows : r.runner = v})
    BY <1>3, <1>7, <2>1 DEF Fits
  <2> QED BY <1>4, <1>7, <2>2 DEF v
<1>8. CASE field = "labelSets"
  <2>1. PICK key \in {LabelSetKey(r.labels) : r \in RepoRows} :
          option = [value |-> jobRows[Min(Of(key))].labels, count |-> Cardinality(Of(key))]
    BY <1>1, <1>8 DEF sets
  <2>2. Of(key) \in SUBSET Nat /\ Of(key) # {}
    <3>1. PICK r \in RepoRows : key = LabelSetKey(r.labels)
      OBVIOUS
    <3>2. PICK i \in DOMAIN jobRows : jobRows[i] = r
      BY <3>1, KeptAre DEF Range
    <3> QED BY <3>1, <3>2
  <2>3. Min(Of(key)) \in Of(key)
    BY <2>2, FirstPlace
  <2>4. LabelSetKey(v) = key
    BY <2>1, <2>3 DEF v
  <2> DEFINE rows == {r \in RepoRows : LabelSetKey(r.labels) = key}
  <2>5. Of(key) = {i \in DOMAIN jobRows : jobRows[i] \in rows}
    OBVIOUS
  <2>6. rows \subseteq Range(jobRows)
    BY KeptAre
  <2>7. Cardinality(Of(key)) = Cardinality(rows)
    <3> HIDE DEF rows, Of
    <3> QED BY <2>5, <2>6, PlacesAreRows
  <2>8. Fits(field, v)
    BY <1>8 DEF Fits, v
  <2>9. {r \in RepoRows : MatchRunner(r, ToggleRunnerFilterValue(NoPick, field, v))} = rows
    BY <1>4, <1>8, <2>4, <2>8
  <2> QED BY <2>1, <2>7, <2>8, <2>9 DEF v
<1> QED BY <1>5, <1>6, <1>7, <1>8 DEF PickFields

LEMMA PicksTurn ==
    ASSUME jobRows \in Seq(JobRows), IsInjective(jobRows), IsPick(pick)
    PROVE  PicksTurnOneOption
<1> DEFINE f == NormalizeRunnerFilter(pick)
<1>1. IsNormal(f) /\ RunnerFilterSelections(pick) = Selections(f)
  BY Normalized, SelectionsAre
<1>2. \A field, v : ToggleRunnerFilterValue(pick, field, v) = Clicked(f, field, v)
  BY ToggleIsAClick
<1> HIDE DEF f
<1> SUFFICES ASSUME NEW field \in PickFields, NEW option \in RunnerFacets[field],
                      field = "labelSets" => option.value # <<>>
      PROVE  LET before == RunnerFilterSelections(pick)
                 after == RunnerFilterSelections(ToggleRunnerFilterValue(pick, field, option.value))
                 Picked(selections, g) == {Identity(g, x) : x \in selections[g]}
                 this == Identity(field, option.value)
             IN  /\ \A g \in PickFields \ {field} : Picked(after, g) = Picked(before, g)
                 /\ Picked(after, field) = IF this \in Picked(before, field) THEN Picked(before, field) \ {this}
                                           ELSE Picked(before, field) \union {this}
                 /\ Cardinality({r \in RepoRows : MatchRunner(r, ToggleRunnerFilterValue(NoPick, field, option.value))}) = option.count
  BY DEF PicksTurnOneOption
<1> DEFINE v == option.value
           g == Clicked(f, field, v)
<1>4. /\ Fits(field, v)
      /\ Cardinality({r \in RepoRows : MatchRunner(r, ToggleRunnerFilterValue(NoPick, field, v))}) = option.count
  BY OfferedAsOften
<1>5. /\ IsNormal(g) /\ Selections(g)[field] = Flipped(Selections(f)[field], field, v)
      /\ \A other \in PickFields \ {field} : Selections(g)[other] = Selections(f)[other]
  BY <1>1, <1>4, ClickTurnsItsField
<1>6. RunnerFilterSelections(ToggleRunnerFilterValue(pick, field, v)) = Selections(g)
  BY <1>2, <1>5, SelectionsOfNormal
<1> HIDE DEF g
<1>7. {Identity(field, x) : x \in Selections(g)[field]} =
        IF Identity(field, v) \in {Identity(field, x) : x \in Selections(f)[field]}
        THEN {Identity(field, x) : x \in Selections(f)[field]} \ {Identity(field, v)}
        ELSE {Identity(field, x) : x \in Selections(f)[field]} \union {Identity(field, v)}
  <2> DEFINE values == Selections(f)[field]
  <2> HIDE DEF values, v
  <2>1. {Identity(field, x) : x \in Flipped(values, field, v)} =
          IF Identity(field, v) \in {Identity(field, x) : x \in values}
          THEN {Identity(field, x) : x \in values} \ {Identity(field, v)}
          ELSE {Identity(field, x) : x \in values} \union {Identity(field, v)}
    <3> DEFINE same == {x \in values : Identity(field, x) = Identity(field, v)}
    <3>1. Flipped(values, field, v) = IF same # {} THEN values \ same ELSE values \union {v}
      BY DEF Flipped
    <3> QED BY <3>1
  <2>2. Selections(g)[field] = Flipped(values, field, v)
    BY <1>5 DEF values, v
  <2> QED BY <2>1, <2>2 DEF values
<1> QED BY <1>1, <1>4, <1>5, <1>6, <1>7

---------------------------------------------------------------------------
(* A line of the runners card: a filter that keeps of another's rows those   *)
(* of one set of labels, and one row it keeps.                               *)
NarrowsTo(g, f, key) == \A r \in StatusRows : MatchRunner(r, g) <=> MatchRunner(r, f) /\ LabelSetKey(r.labels) = key
IsShown(row, f, key) == row \in StatusRows /\ MatchRunner(row, f) /\ OfJob(row) /\ LabelSetKey(row.labels) = key

LEMMA PoolsOfRows ==
    ASSUME NEW f, NEW g, NEW key, NarrowsTo(g, f, key), NEW row, IsShown(row, f, key)
    PROVE  Pools(g) = [k \in {key} |-> Pools(f)[k]]
<1> USE DEF NarrowsTo, IsShown
<1> DEFINE RowsBy(h) == {r \in StatusRows : MatchRunner(r, h) /\ OfJob(r)}
           Of(h, k) == {r \in RowsBy(h) : LabelSetKey(r.labels) = k}
           Statistics(of) ==
             [jobs |-> Cardinality(of), decided |-> Cardinality({r \in of : r.conclusion \in Decided}),
              failed |-> Cardinality({r \in of : Failed(r)}),
              waits |-> Cardinality({r \in of : Between(r.queued, r.started) # None}),
              durations |-> Cardinality({r \in of : Between(r.started, r.completed) # None})]
           Individuals(of) == {r \in of : r.kind # "hosted"}
           Line(of) == [all |-> Statistics(of),
                        individuals |-> [n \in {r.runner : r \in Individuals(of)} |->
                                           Statistics({r \in Individuals(of) : r.runner = n})]]
<1>1. \A h : Pools(h) = [k \in {LabelSetKey(r.labels) : r \in RowsBy(h)} |-> Line(Of(h, k))]
  BY DEF Pools
<1>2. Of(g, key) = Of(f, key) /\ {LabelSetKey(r.labels) : r \in RowsBy(g)} = {key}
  OBVIOUS
<1>3. key \in {LabelSetKey(r.labels) : r \in RowsBy(f)}
  OBVIOUS
<1> HIDE DEF Of, Line, RowsBy
<1>4. Pools(g) = [k \in {key} |-> Line(Of(f, key))]
  BY <1>1, <1>2
<1>5. Pools(f)[key] = Line(Of(f, key))
  BY <1>1, <1>3
<1> QED BY <1>4, <1>5

LEMMA PoolsNarrow ==
    ASSUME IsPick(pick)
    PROVE  PoolsNarrowToTheirLine
<1> SUFFICES ASSUME RunnerFilterSelections(pick).labelSets = {},
                    NEW row \in Kept, OfJob(row), row.labels # <<>>
             PROVE  Pools(ToggleRunnerFilterValue(pick, "labelSets", row.labels)) =
                      [k \in {LabelSetKey(row.labels)} |-> Pools(pick)[k]]
  BY DEF PoolsNarrowToTheirLine
<1> DEFINE f == NormalizeRunnerFilter(pick)
           v == row.labels
           key == LabelSetKey(v)
           g == Clicked(f, "labelSets", v)
<1>1. IsNormal(f) /\ RunnerFilterSelections(pick) = Selections(f)
  BY Normalized, SelectionsAre
<1>2. ToggleRunnerFilterValue(pick, "labelSets", v) = g
  BY ToggleIsAClick
<1>3. \A r : MatchRunner(r, f) <=> MatchRunner(r, pick)
  <2>1. NormalizeRunnerFilter(f) = f
    <3>1. SameFields(NormalizeRunnerFilter(f), f) /\ IsPick(f) /\ IsPick(NormalizeRunnerFilter(f))
      BY <1>1, NormalStays, Normalized DEF IsNormal
    <3>2. /\ f = [x \in DOMAIN NoPick |-> f[x]]
          /\ NormalizeRunnerFilter(f) = [x \in DOMAIN NoPick |-> NormalizeRunnerFilter(f)[x]]
      <4>1. f = NormalizeRunnerFilter(pick)
        OBVIOUS
      <4>2. \A h : IsPick(h) => NormalizeRunnerFilter(h) = [x \in DOMAIN NoPick |-> NormalizeRunnerFilter(h)[x]]
        BY DEF NormalizeRunnerFilter, IsPick
      <4> HIDE DEF f
      <4> QED BY <3>1, <4>1, <4>2
    <3> HIDE DEF f
    <3> QED BY <3>1, <3>2, PickFieldsAre DEF SameFields
  <2> QED BY <2>1 DEF MatchRunner
<1> HIDE DEF f
<1>4. /\ IsNormal(g) /\ (IsPattern(g) <=> IsPattern(f)) /\ g.name = f.name
      /\ Selections(g).labelSets = Flipped(Selections(f).labelSets, "labelSets", v)
      /\ Selections(g).kinds = Selections(f).kinds
      /\ Selections(g).groups = Selections(f).groups
      /\ Selections(g).names = Selections(f).names
  BY <1>1, LabelSetClicked
<1>5. Selections(f).labelSets = {} /\ Selections(g).labelSets = {v}
  BY <1>1, <1>4 DEF Flipped
<1> HIDE DEF g, v
<1>6. \A r : MatchRunner(r, g) <=> MatchRunner(r, f) /\ LabelSetKey(r.labels) = key
  <2> TAKE r
  <2>1. MatchRunner(r, g) <=>
              /\ Selections(g).kinds # {} => (IF r.kind = "" THEN "unknown" ELSE r.kind) \in Selections(g).kinds
              /\ Selections(g).labelSets # {} => LabelSetKey(r.labels) \in {LabelSetKey(l) : l \in Selections(g).labelSets}
              /\ Selections(g).groups # {} => r.group \in Selections(g).groups
              /\ Selections(g).names # {} \/ IsPattern(g) =>
                     r.runner \in Selections(g).names \union IF IsPattern(g) THEN Patterns[g.name] ELSE {}
    BY <1>4, MatchedByNormal
  <2>2. MatchRunner(r, f) <=>
              /\ Selections(f).kinds # {} => (IF r.kind = "" THEN "unknown" ELSE r.kind) \in Selections(f).kinds
              /\ Selections(f).labelSets # {} => LabelSetKey(r.labels) \in {LabelSetKey(l) : l \in Selections(f).labelSets}
              /\ Selections(f).groups # {} => r.group \in Selections(f).groups
              /\ Selections(f).names # {} \/ IsPattern(f) =>
                     r.runner \in Selections(f).names \union IF IsPattern(f) THEN Patterns[f.name] ELSE {}
    BY <1>1, MatchedByNormal
  <2>3. LabelSetKey(r.labels) \in {LabelSetKey(l) : l \in Selections(g).labelSets} <=> LabelSetKey(r.labels) = key
    BY <1>5
  <2>4. (Selections(g).names # {} \/ IsPattern(g) =>
           r.runner \in Selections(g).names \union IF IsPattern(g) THEN Patterns[g.name] ELSE {}) <=>
        (Selections(f).names # {} \/ IsPattern(f) =>
           r.runner \in Selections(f).names \union IF IsPattern(f) THEN Patterns[f.name] ELSE {})
    BY <1>4
  <2> HIDE DEF key
  <2> QED BY <1>4, <1>5, <2>1, <2>2, <2>3, <2>4
<1>7. row \in StatusRows /\ MatchRunner(row, pick) /\ LabelSetKey(row.labels) = key
  BY DEF Kept, v
<1> HIDE DEF key
<1>8. NarrowsTo(g, pick, key)
  BY <1>3, <1>6 DEF NarrowsTo
<1>9. IsShown(row, pick, key)
  BY <1>7 DEF IsShown
<1>10. Pools(g) = [k \in {key} |-> Pools(pick)[k]]
  BY <1>8, <1>9, PoolsOfRows, Zenon
<1> QED BY <1>2, <1>10 DEF key, v

---------------------------------------------------------------------------
(* Rows are printed once, and the filter has its fields. *)
StepsInv == jobRows \in Seq(JobRows) /\ IsInjective(jobRows) /\ IsPick(pick)

(* The tab only ever holds rows the CLI printed, none twice, and a filter    *)
(* with every field of normalizeRunnerFilter.                                *)
THEOREM StepsInvariant == StepsSpec => []StepsInv
<1>1. StepsInit => StepsInv
  BY DEF StepsInit, StepsInv, IsInjective, IsPick
<1>2. StepsInv /\ [StepsNext]_stepsVars => StepsInv'
  <2> SUFFICES ASSUME StepsInv, [StepsNext]_stepsVars PROVE StepsInv'
    OBVIOUS
  <2> USE DEF StepsInv
  <2>1. ASSUME NEW row \in JobRows, PrintRow(row) PROVE StepsInv'
    <3>1. jobRows' = Append(jobRows, row) /\ pick' = pick /\ row \notin Range(jobRows)
      BY <2>1 DEF PrintRow
    <3>2. \A i \in 1 .. Len(jobRows) : jobRows[i] # row
      BY <3>1 DEF Range
    <3>3. /\ jobRows' \in Seq(JobRows) /\ DOMAIN jobRows' = 1 .. Len(jobRows) + 1
          /\ jobRows'[Len(jobRows) + 1] = row /\ \A i \in 1 .. Len(jobRows) : jobRows'[i] = jobRows[i]
      BY <3>1
    <3>4. IsInjective(jobRows')
      <4> SUFFICES ASSUME NEW a \in DOMAIN jobRows', NEW b \in DOMAIN jobRows', jobRows'[a] = jobRows'[b] PROVE a = b
        BY DEF IsInjective
      <4>1. a \in 1 .. Len(jobRows) \/ a = Len(jobRows) + 1
        BY <3>3
      <4>2. b \in 1 .. Len(jobRows) \/ b = Len(jobRows) + 1
        BY <3>3
      <4> QED BY <3>2, <3>3, <4>1, <4>2 DEF IsInjective
    <3> QED BY <3>1, <3>3, <3>4 DEF IsPick
  <2>2. ASSUME NEW a \in Asks, AskFor(a) PROVE StepsInv'
    BY <2>2 DEF AskFor, IsPick
  <2>3. ASSUME ToggleRunnerFacet PROVE StepsInv'
    <3>1. PICK field \in PickFields : \E option \in RunnerFacets[field] :
            pick' = ToggleRunnerFilterValue(pick, field, option.value) /\ jobRows' = jobRows
      BY <2>3 DEF ToggleRunnerFacet
    <3> PICK option \in RunnerFacets[field] : pick' = ToggleRunnerFilterValue(pick, field, option.value) /\ jobRows' = jobRows
      BY <3>1
    <3>2. IsPick(pick')
      <4>1. IsNormal(NormalizeRunnerFilter(pick))
        BY Normalized
      <4>2. pick' = NormalizeRunnerFilter(Written(NormalizeRunnerFilter(pick), field, Flipped(Selections(NormalizeRunnerFilter(pick))[field], field, option.value)))
        BY ToggleIsAClick DEF Clicked
      <4>3. \A f, next : IsNormal(f) => IsPick(Written(f, field, next))
        BY DEF Written, WithoutLegacy, IsNormal, IsPick
      <4>4. IsPick(Written(NormalizeRunnerFilter(pick), field, Flipped(Selections(NormalizeRunnerFilter(pick))[field], field, option.value)))
        BY <4>1, <4>3
      <4>5. IsNormal(pick')
        BY <4>2, <4>4, Normalized
      <4> QED BY <4>5 DEF IsNormal
    <3> QED BY <3>2 DEF IsPick
  <2>4. ASSUME NEW saved \in SavedPicks, RestoreRunnerFilter(saved) PROVE StepsInv'
    <3>1. pick' = NormalizeRunnerFilter(saved) /\ jobRows' = jobRows
      BY <2>4 DEF RestoreRunnerFilter
    <3>2. IsPick(saved)
      BY StepsAssumption DEF IsPick
    <3>3. IsPick(pick')
      BY <3>1, <3>2, Normalized DEF IsNormal
    <3> QED BY <3>1, <3>3 DEF IsPick
  <2>5. CASE UNCHANGED stepsVars
    BY <2>5 DEF stepsVars, IsPick
  <2> QED BY <2>1, <2>2, <2>3, <2>4, <2>5 DEF StepsNext
<1> QED BY <1>1, <1>2, PTL DEF StepsSpec

(* A run of the list, opened at the attempt the list gives, always shows a   *)
(* job, though the list and the timeline filter on their own.                *)
THEOREM ListedRunsStayOpen == StepsSpec => []ListedRunsOpenOnAJob
<1>1. StepsInv => ListedRunsOpenOnAJob
  BY ListedRunsOpen DEF StepsInv
<1> QED BY <1>1, StepsInvariant, PTL

(* What is said of runs and of steps is always said of all their jobs, in    *)
(* whatever order these were printed.                                        *)
THEOREM StatisticsStayOfTheirJobs == StepsSpec => []StatisticsAreOfTheirJobs
<1>1. StepsInv => StatisticsAreOfTheirJobs
  BY RunsJudged, StepsCounted DEF StepsInv, StatisticsAreOfTheirJobs
<1> QED BY <1>1, StepsInvariant, PTL

(* Every option offered always does what it says, whatever an earlier        *)
(* version had saved; the empty set of labels, which cannot be picked, is    *)
(* not one.                                                                  *)
THEOREM OptionsKeepTheirWord == StepsSpec => []OptionsDoWhatTheySay
<1>1. StepsInv => OptionsDoWhatTheySay
  BY PicksTurn, OffersExact, PoolsNarrow DEF StepsInv, OptionsDoWhatTheySay
<1> QED BY <1>1, StepsInvariant, PTL
===========================================================================
