---------------------------- MODULE PanelProofs ----------------------------
(* Proofs, for any number of panels, queries, requests and collections,    *)
(* that the panels of one target never draw a view beside the metrics of   *)
(* another dataset, never show what a replaced credential read, show the   *)
(* answer to the latest request of a view or none, and are never left      *)
(* waiting for something that no suspended function will bring.            *)
EXTENDS Panel, TLAPS

---------------------------------------------------------------------------
(* The inductive invariant. `live` is the set of the collections that were *)
(* begun under the credential in force.                                    *)
LiveIn(c, current) == {x \in DOMAIN c : c[x].token = current}
Live == LiveIn(coll, token)

(* The store's entry: what is in hand, and what the collection in flight   *)
(* will put there, is of the credential in force.                          *)
RunningType == [query : Queries, pc : {"running", "committed", "reported"}, token : Nat,
                retained : Nat, interrupted : BOOLEAN]
DoneType == [pc : {"done"}, token : Nat, ready : BOOLEAN]
CollsType == Seq(RunningType \union DoneType)

InHand(s, live) ==
    /\ s.query \in Queries /\ s.held \in Datasets \union {None} /\ s.inflight \in Nat
    /\ s.held # None => s.held.root \in live

InFlight(s, c, live) ==
    s.inflight # 0 =>
        /\ s.inflight \in live /\ c[s.inflight] \in RunningType
        /\ c[s.inflight].retained \in live \union {0}

StoreType == [query : Queries, status : {"idle", "loading", "ready", "error"}, limited : BOOLEAN,
              held : Datasets \union {None}, collecting : BOOLEAN, inflight : Nat]
StoreOK ==
    /\ store \in StoreType /\ coll \in CollsType /\ token \in Nat
    /\ InHand(store, Live) /\ InFlight(store, coll, Live)

TaskFields == {"kind", "pc", "generation", "query", "then", "awaits", "from"}

TaskType(t) ==
    /\ DOMAIN t = TaskFields
    /\ t.generation \in Nat /\ t.query \in Queries /\ t.then \in Sequels \union {None}
    /\ \/ t.kind \in {"timeline", "steps", "run"} /\ t.pc \in {"probe", "wait", "read"}
       \/ t.kind = "restore" /\ t.pc = "resume" /\ t.then # None
       \/ t.kind = "apply" /\ t.pc \in {"timeline", "steps"} /\ t.then # None

PanelFields ==
    {"applies", "periodViews", "seen", "gridSeen", "gridViews",
     "request", "timeline", "timelineStatus", "timelineBase", "signature",
     "timelineGeneration", "settings", "steps", "stepStatus", "stepBase",
     "outlived", "stepGeneration", "run", "runGeneration", "tasks", "frame"}

PanelType(p) ==
    /\ DOMAIN p = PanelFields
    /\ p.applies \in Nat /\ p.timelineGeneration \in Nat
    /\ p.stepGeneration \in Nat /\ p.runGeneration \in Nat
    /\ p.request \in BOOLEAN /\ p.settings \in BOOLEAN
    /\ p.periodViews \in ViewSets \union {None} /\ p.gridViews \in ViewSets \union {None}
    /\ p.timelineBase \in Bases \union {None} /\ p.stepBase \in StepBases \union {None}
    /\ p.timeline \in Answers \union {None}
    /\ p.steps \in Answers \union {None} /\ p.run \in Answers \union {None}
    /\ \A t \in p.tasks : TaskType(t)

(* What was read is of the credential in force, and of the dataset of its  *)
(* base if that is the dataset in hand (`id`): a request that waited for a *)
(* collection may have read what that put in hand under an older base.     *)
IsOf(from, base, id, live) == from[1] \in live /\ (base = id => from = base)

(* A projection, shown or still being read for the latest request.         *)
TimelineOK(p, id, live) ==
    /\ p.timelineBase # None => p.timelineBase[1][1] \in live
    /\ p.timeline # None =>
         p.timelineBase # None /\ IsOf(p.timeline.from, p.timelineBase[1], id, live)
    /\ \A t \in p.tasks : t.kind = "timeline" =>
         /\ t.generation <= p.timelineGeneration
         /\ t.generation = p.timelineGeneration => p.timelineBase # None
         /\ t.generation = p.timelineGeneration /\ t.pc = "read" =>
              t.from \in DatasetIds /\ IsOf(t.from, p.timelineBase[1], id, live)

(* Statistics of steps: an older answer may stay until the latest request  *)
(* is answered, and outlive its base.                                      *)
StepsOK(p, id, live) ==
    /\ p.steps # None =>
         /\ p.stepBase # None /\ p.steps.from[1] \in live /\ p.steps.of <= p.stepGeneration
         /\ ~p.outlived \/ p.steps.of = p.stepGeneration =>
              IsOf(p.steps.from, p.stepBase[3], id, live)
    /\ \A t \in p.tasks : t.kind = "steps" =>
         /\ t.generation <= p.stepGeneration
         /\ t.generation = p.stepGeneration => p.stepBase # None
         /\ t.generation = p.stepGeneration /\ t.pc = "read" =>
              t.from \in DatasetIds /\ IsOf(t.from, p.stepBase[3], id, live)

(* The timeline of a run: a step request renews the base it is under.      *)
RunOK(p, id, live) ==
    /\ p.run # None =>
         /\ p.stepBase # None /\ p.run.from[1] \in live
         /\ ~p.outlived => IsOf(p.run.from, p.stepBase[3], id, live)
    /\ \A t \in p.tasks : t.kind = "run" =>
         /\ t.generation <= p.runGeneration
         /\ t.generation = p.runGeneration => p.stepBase # None
         /\ t.generation = p.runGeneration /\ t.pc = "read" =>
              /\ t.from \in DatasetIds /\ t.from[1] \in live
              /\ ~p.outlived => IsOf(t.from, p.stepBase[3], id, live)

(* What was sent to the iframe belongs together, and is not newer than the *)
(* panel: in every frame that is of a dataset, or of none.                 *)
FrameOK(p, id) == id \in DatasetIds \union {None} =>
    /\ p.frame.timeline # None => p.frame.timeline.from = p.frame.dataset
    /\ p.frame.steps # None =>
         /\ p.frame.steps.of \in Nat /\ p.frame.steps.of <= p.stepGeneration
         /\ ~p.frame.outlived => p.frame.steps.from = p.frame.dataset
         /\ p.frame.steps.of = p.stepGeneration => p.frame.steps.from = p.frame.dataset
    /\ p.frame.run # None /\ ~p.frame.outlived => p.frame.run.from = p.frame.dataset

(* Whatever a panel waits for, one of its suspended functions brings.      *)
Brings(t, p) == t.then # None /\ t.then.apply = p.applies
LoadOK(p) ==
    p.timelineStatus = "loading" =>
        \E t \in p.tasks : t.kind = "timeline" /\ t.generation = p.timelineGeneration
RestoreOK(p) ==
    p.periodViews # None => p.applies # 0 /\ \E t \in p.tasks : Brings(t, p)

PanelOK(p, id, live) ==
    /\ PanelType(p) /\ TimelineOK(p, id, live) /\ StepsOK(p, id, live)
    /\ RunOK(p, id, live) /\ FrameOK(p, id)

(* The views' bases are those of the store: so it is after every broadcast, *)
(* until a collection puts its dataset in hand, which nobody is told of     *)
(* before the collection ends or another begins.                            *)
Based(p, s) == p.timelineBase \in {None, BaseKey(s)} /\ p.stepBase \in {None, StepBaseKey(s)}
Quiet(s, c) == s.inflight # 0 => c[s.inflight].pc = "running"

Sound(p, s, c, live) ==
    /\ PanelOK(p, DatasetId(s), live) /\ LoadOK(p) /\ RestoreOK(p)
    /\ Quiet(s, c) => Based(p, s)

PanelInv ==
    /\ StoreOK
    /\ DOMAIN panel = Panels
    /\ \A p \in Panels : Sound(panel[p], store, coll, Live)

---------------------------------------------------------------------------
(* What the functions on a panel leave of it. A view moves on to a newer   *)
(* request, and shows what it did or nothing; what was suspended stays so. *)
Moves(p, q) ==
    /\ q.timelineGeneration >= p.timelineGeneration /\ q.timeline \in {p.timeline, None}
    /\ q.stepGeneration >= p.stepGeneration /\ q.steps \in {p.steps, None}
    /\ q.runGeneration >= p.runGeneration /\ q.run \in {p.run, None}

Follows(p, q) ==
    /\ Moves(p, q) /\ q.applies = p.applies /\ q.periodViews = p.periodViews
    /\ p.tasks \subseteq q.tasks
    /\ LoadOK(p) => LoadOK(q)

(* A view that is broadcast stays as it is or goes.                        *)
Drops(p, q) ==
    /\ q.timelineGeneration = p.timelineGeneration \/ q.timeline = None
    /\ q.stepGeneration = p.stepGeneration \/ q.steps = None
    /\ q.runGeneration = p.runGeneration \/ q.run = None

LEMMA FollowsIsTransitive ==
    ASSUME NEW p, NEW q, NEW r,
           PanelType(p), PanelType(q), PanelType(r), Follows(p, q), Follows(q, r)
    PROVE  Follows(p, r)
<1>1. Moves(p, r)
  BY DEF Follows, Moves, PanelType
<1> QED BY <1>1 DEF Follows

LEMMA FollowingRestores ==
    ASSUME NEW p, NEW q, Follows(p, q), RestoreOK(p)
    PROVE  RestoreOK(q)
BY DEF Follows, RestoreOK, Brings

(* NoTimeline: the projection goes, and the requests for it are superseded. *)
LEMMA NoTimelineFacts ==
    ASSUME NEW p, NEW id, NEW live, PanelOK(p, id, live), NEW q, q = NoTimeline(p)
    PROVE  /\ PanelOK(q, id, live) /\ Follows(p, q) /\ q.tasks = p.tasks
           /\ q.timelineBase = None /\ q.stepBase = p.stepBase /\ q.request = FALSE
           /\ q.timelineStatus = "idle" /\ Drops(p, q)
<1>1. DOMAIN p = PanelFields /\ p.timelineGeneration \in Nat
  BY DEF PanelOK, PanelType
<1>2. /\ DOMAIN q = PanelFields /\ q.request = FALSE /\ q.timeline = None
      /\ q.timelineStatus = "idle" /\ q.timelineGeneration = p.timelineGeneration + 1
      /\ q.timelineBase = None
      /\ q.applies = p.applies /\ q.periodViews = p.periodViews /\ q.gridViews = p.gridViews
      /\ q.settings = p.settings /\ q.outlived = p.outlived /\ q.steps = p.steps /\ q.stepBase = p.stepBase
      /\ q.stepGeneration = p.stepGeneration /\ q.run = p.run
      /\ q.runGeneration = p.runGeneration /\ q.tasks = p.tasks /\ q.frame = p.frame
  BY <1>1 DEF NoTimeline, PanelFields
<1>3. PanelType(q)
  <2>1. q.request \in BOOLEAN /\ q.settings \in BOOLEAN
    BY <1>2, Zenon DEF PanelOK, PanelType
  <2> QED BY <1>1, <1>2, <2>1 DEF PanelOK, PanelType
<1>4. TimelineOK(q, id, live)
  <2> SUFFICES ASSUME NEW t \in p.tasks, t.kind = "timeline"
               PROVE  t.generation <= q.timelineGeneration /\ t.generation # q.timelineGeneration
    BY <1>2 DEF TimelineOK
  <2>1. t.generation <= p.timelineGeneration /\ t.generation \in Nat
    BY DEF PanelOK, PanelType, TaskType, TimelineOK
  <2> QED BY <1>1, <1>2, <2>1
<1>5. StepsOK(q, id, live) /\ RunOK(q, id, live) /\ FrameOK(q, id)
  BY <1>2 DEF PanelOK, StepsOK, RunOK, FrameOK
<1>6. Follows(p, q)
  BY <1>1, <1>2, <1>3 DEF Follows, Moves, LoadOK, PanelOK, PanelType
<1>7. Drops(p, q)
  BY <1>2 DEF Drops
<1> QED BY <1>2, <1>3, <1>4, <1>5, <1>6, <1>7 DEF PanelOK

(* NoSteps: the statistics and the run go, and the requests for them are   *)
(* superseded.                                                             *)
LEMMA NoStepsFacts ==
    ASSUME NEW p, NEW id, NEW live, PanelOK(p, id, live), NEW q, q = NoSteps(p)
    PROVE  /\ PanelOK(q, id, live) /\ Follows(p, q) /\ q.tasks = p.tasks
           /\ q.timelineBase = p.timelineBase /\ q.stepBase = None
           /\ q.timelineGeneration = p.timelineGeneration /\ q.timeline = p.timeline
           /\ q.steps = None /\ q.run = None /\ Drops(p, q)
           /\ q.stepGeneration = p.stepGeneration + 1 /\ q.runGeneration = p.runGeneration + 1
<1>1. DOMAIN p = PanelFields /\ p.stepGeneration \in Nat /\ p.runGeneration \in Nat
  BY DEF PanelOK, PanelType
<1>2. /\ DOMAIN q = PanelFields /\ q.settings = FALSE /\ q.steps = None /\ q.outlived = FALSE
      /\ q.stepGeneration = p.stepGeneration + 1 /\ q.stepBase = None
      /\ q.run = None /\ q.runGeneration = p.runGeneration + 1
      /\ q.applies = p.applies /\ q.periodViews = p.periodViews /\ q.gridViews = p.gridViews
      /\ q.request = p.request /\ q.timeline = p.timeline /\ q.timelineBase = p.timelineBase
      /\ q.timelineStatus = p.timelineStatus
      /\ q.timelineGeneration = p.timelineGeneration /\ q.tasks = p.tasks /\ q.frame = p.frame
  BY <1>1 DEF NoSteps, PanelFields
<1>3. PanelType(q)
  <2>1. q.request \in BOOLEAN /\ q.settings \in BOOLEAN
    BY <1>2, Zenon DEF PanelOK, PanelType
  <2> QED BY <1>1, <1>2, <2>1 DEF PanelOK, PanelType
<1>4. StepsOK(q, id, live)
  <2> SUFFICES ASSUME NEW t \in p.tasks, t.kind = "steps"
               PROVE  t.generation <= q.stepGeneration /\ t.generation # q.stepGeneration
    BY <1>2 DEF StepsOK
  <2>1. t.generation <= p.stepGeneration /\ t.generation \in Nat
    BY DEF PanelOK, PanelType, TaskType, StepsOK
  <2> QED BY <1>1, <1>2, <2>1
<1>5. RunOK(q, id, live)
  <2> SUFFICES ASSUME NEW t \in p.tasks, t.kind = "run"
               PROVE  t.generation <= q.runGeneration /\ t.generation # q.runGeneration
    BY <1>2 DEF RunOK
  <2>1. t.generation <= p.runGeneration /\ t.generation \in Nat
    BY DEF PanelOK, PanelType, TaskType, RunOK
  <2> QED BY <1>1, <1>2, <2>1
<1>6. TimelineOK(q, id, live)
  BY <1>2 DEF PanelOK, TimelineOK
<1>7. FrameOK(q, id)
  BY <1>1, <1>2 DEF PanelOK, FrameOK
<1>8. Follows(p, q)
  BY <1>1, <1>2, <1>3 DEF Follows, Moves, LoadOK, PanelOK, PanelType
<1>9. Drops(p, q)
  BY <1>2 DEF Drops
<1> QED BY <1>2, <1>3, <1>4, <1>5, <1>6, <1>7, <1>8, <1>9 DEF PanelOK

(* The identities of a dataset in hand. *)
LEMMA BaseFacts ==
    ASSUME NEW s, NEW live, InHand(s, live)
    PROVE  /\ s.held = None => DatasetId(s) = None
           /\ s.held # None => DatasetId(s) \in DatasetIds /\ DatasetId(s)[1] \in live
           /\ StepBaseKey(s) \in StepBases /\ StepBaseKey(s) # None
           /\ BaseKey(s)[1] = DatasetId(s) /\ StepBaseKey(s)[3] = DatasetId(s)
           /\ CollectionId(s.query) \in Nat \X Nat \X Nat
           /\ s.held # None => BaseKey(s) \in Bases
           /\ s.query.grid \in Nat
<1>1. /\ s.query.data \in Nat /\ s.query.period \in Nat /\ s.query.grid \in Nat
      /\ s.held # None => s.held \in Datasets /\ s.held.root \in live
  BY PanelAssumption DEF InHand
<1>2. s.held # None => s.held.root \in Nat /\ s.held.period \in Nat
  BY <1>1 DEF Datasets
<1>3. DatasetId(s) = IF s.held = None THEN None ELSE <<s.held.root, s.held.period>>
  BY DEF DatasetId
<1>4. DatasetId(s) \in DatasetIds \union {None}
  BY <1>2, <1>3 DEF DatasetIds
<1>5. CollectionId(s.query) \in Nat \X Nat \X Nat
  BY <1>1 DEF CollectionId
<1>6. BaseKey(s) = <<DatasetId(s), CollectionId(s.query)>>
  BY DEF BaseKey
<1>7. StepBaseKey(s) = <<s.query.data, s.query.period, DatasetId(s)>>
  BY DEF StepBaseKey
<1>8. StepBaseKey(s) \in StepBases
  BY <1>1, <1>4, <1>7 DEF StepBases
<1>9. s.held # None => BaseKey(s) \in Bases
  BY <1>2, <1>3, <1>5, <1>6 DEF Bases, DatasetIds
<1> QED BY <1>1, <1>2, <1>3, <1>4, <1>5, <1>6, <1>7, <1>8, <1>9, NullAssumption DEF DatasetIds

(* The functions on a panel leave it sound for the dataset in hand; but    *)
(* when that is taken away, only for what is no dataset's at all.          *)
Of(id, s) == id = DatasetId(s) \/ id \notin DatasetIds \union {None}
LEMMA OfItself == \A s : Of(DatasetId(s), s)
BY DEF Of

(* broadcast(): what was read from another dataset is dropped, and what is *)
(* sent is of this one.                                                    *)
LEMMA BroadcastFacts ==
    ASSUME NEW p, NEW s, NEW live, InHand(s, live),
           NEW id, Of(id, s), PanelOK(p, id, live),
           NEW q, q = Broadcast(p, s)
    PROVE  /\ PanelOK(q, id, live) /\ Follows(p, q) /\ Based(q, s) /\ q.tasks = p.tasks
           /\ q.timelineBase \in {None, p.timelineBase} /\ q.stepBase \in {None, p.stepBase}
           /\ Drops(p, q)
<1>1. PICK p1 : p1 = IF p.timelineBase \notin {None, BaseKey(s)} THEN NoTimeline(p) ELSE p
  OBVIOUS
<1>2. PICK p2 : p2 = IF p1.stepBase \notin {None, StepBaseKey(s)} THEN NoSteps(p1) ELSE p1
  OBVIOUS
<1>3. q = [p2 EXCEPT !.frame = [dataset |-> DatasetId(s), timeline |-> p2.timeline,
                                steps |-> p2.steps, run |-> p2.run, outlived |-> p2.outlived]]
  BY <1>1, <1>2 DEF Broadcast
<1>4. ASSUME NEW r PROVE PanelOK(r, id, live) => Follows(r, r) /\ Drops(r, r)
  BY DEF Follows, Moves, PanelOK, PanelType, Drops
<1>5. /\ PanelOK(p1, id, live) /\ Follows(p, p1) /\ p1.tasks = p.tasks /\ Drops(p, p1)
      /\ p1.timelineBase \in {None, p.timelineBase} /\ p1.timelineBase \in {None, BaseKey(s)}
      /\ p1.stepBase = p.stepBase
  BY <1>1, <1>4, NoTimelineFacts
<1>6. /\ PanelOK(p2, id, live) /\ Follows(p1, p2) /\ p2.tasks = p.tasks /\ Drops(p1, p2)
      /\ p2.timelineBase = p1.timelineBase
      /\ p2.stepBase \in {None, p.stepBase} /\ p2.stepBase \in {None, StepBaseKey(s)}
  BY <1>2, <1>4, <1>5, NoStepsFacts
<1>7. Follows(p, p2)
  BY <1>5, <1>6, FollowsIsTransitive DEF PanelOK
<1>8. DOMAIN p2 = PanelFields
  BY <1>6 DEF PanelOK, PanelType
<1>9. /\ DOMAIN q = PanelFields /\ q.request = p2.request /\ q.settings = p2.settings /\ q.outlived = p2.outlived
      /\ q.applies = p2.applies /\ q.periodViews = p2.periodViews /\ q.gridViews = p2.gridViews
      /\ q.timeline = p2.timeline /\ q.timelineBase = p2.timelineBase
      /\ q.timelineStatus = p2.timelineStatus
      /\ q.timelineGeneration = p2.timelineGeneration
      /\ q.steps = p2.steps /\ q.stepBase = p2.stepBase /\ q.stepGeneration = p2.stepGeneration
      /\ q.run = p2.run /\ q.runGeneration = p2.runGeneration /\ q.tasks = p2.tasks
      /\ q.frame.dataset = DatasetId(s) /\ q.frame.timeline = p2.timeline
      /\ q.frame.steps = p2.steps /\ q.frame.run = p2.run /\ q.frame.outlived = p2.outlived
  BY <1>3, <1>8 DEF PanelFields
<1>10. Based(q, s)
  BY <1>5, <1>6, <1>9 DEF Based
<1>11. BaseKey(s)[1] = DatasetId(s) /\ StepBaseKey(s)[3] = DatasetId(s)
  BY BaseFacts
<1>12. FrameOK(q, id)
  <2> SUFFICES ASSUME id = DatasetId(s) PROVE FrameOK(q, id)
    BY DEF Of, FrameOK
  <2>1. q.frame.timeline # None => q.frame.timeline.from = q.frame.dataset
    BY <1>5, <1>6, <1>9, <1>11 DEF PanelOK, TimelineOK, IsOf
  <2>2. p2.steps # None => p2.steps.of \in Nat
    BY <1>6 DEF PanelOK, PanelType, Answers
  <2>3. q.frame.steps # None =>
          /\ q.frame.steps.of \in Nat /\ q.frame.steps.of <= q.stepGeneration
          /\ ~q.frame.outlived => q.frame.steps.from = q.frame.dataset
          /\ q.frame.steps.of = q.stepGeneration => q.frame.steps.from = q.frame.dataset
    BY <1>6, <1>9, <1>11, <2>2 DEF PanelOK, StepsOK, IsOf
  <2>4. q.frame.run # None /\ ~q.frame.outlived => q.frame.run.from = q.frame.dataset
    BY <1>6, <1>9, <1>11 DEF PanelOK, RunOK, IsOf
  <2> QED BY <2>1, <2>3, <2>4 DEF FrameOK
<1>13. PanelType(q)
  <2>1. q.request \in BOOLEAN /\ q.settings \in BOOLEAN
    BY <1>6, <1>9, Zenon DEF PanelOK, PanelType
  <2> QED BY <1>6, <1>9, <2>1 DEF PanelOK, PanelType
<1>14. TimelineOK(q, id, live) /\ StepsOK(q, id, live) /\ RunOK(q, id, live)
  BY <1>6, <1>9 DEF PanelOK, TimelineOK, StepsOK, RunOK
<1>15. Follows(p, q)
  BY <1>7, <1>9 DEF Follows, Moves, LoadOK
<1>16. Drops(p, q)
  BY <1>5, <1>6, <1>9 DEF Drops, Follows, Moves
<1> QED BY <1>5, <1>6, <1>9, <1>10, <1>12, <1>13, <1>14, <1>15, <1>16 DEF PanelOK

(* What a suspended function takes with it, and one that reads at once.    *)
LEMMA TaskFacts ==
    ASSUME NEW kind, NEW pc, NEW generation, NEW query, NEW then,
           NEW t, t = Task(kind, pc, generation, query, then)
    PROVE  /\ DOMAIN t = TaskFields /\ t.kind = kind /\ t.pc = pc
           /\ t.generation = generation /\ t.query = query /\ t.then = then
BY DEF Task, TaskFields

ReadsAs(t, kind, generation, query, then, s, awaits) ==
    /\ t.kind = kind /\ t.generation = generation /\ t.query = query /\ t.then = then
    /\ t.pc = "read" => t.from = DatasetId(s) /\ awaits = 0 /\ ReadableIn(s, query)
    /\ awaits = 0 /\ ReadableIn(s, query) => t.pc = "read"
    /\ TaskType(t)

LEMMA ReaderFacts ==
    ASSUME NEW kind \in {"timeline", "steps", "run"}, NEW generation \in Nat, NEW query \in Queries,
           NEW then \in Sequels \union {None}, NEW s, NEW awaits
    PROVE  ReadsAs(Reader(kind, generation, query, then, s, awaits),
                 kind, generation, query, then, s, awaits)
<1>0. PICK t : t = Reader(kind, generation, query, then, s, awaits)
  OBVIOUS
<1>1. PICK r, w : /\ r = Task(kind, "read", generation, query, then)
                  /\ w = Task(kind, "wait", generation, query, then)
  OBVIOUS
<1>2. /\ DOMAIN r = TaskFields /\ r.kind = kind /\ r.pc = "read"
      /\ r.generation = generation /\ r.query = query /\ r.then = then
      /\ DOMAIN w = TaskFields /\ w.kind = kind /\ w.pc = "wait"
      /\ w.generation = generation /\ w.query = query /\ w.then = then
  BY <1>1, TaskFacts
<1>3. CASE awaits = 0 /\ ReadableIn(s, query)
  <2>1. t = [r EXCEPT !.from = DatasetId(s)]
    BY <1>0, <1>1, <1>3 DEF Reader
  <2>2. /\ DOMAIN t = TaskFields /\ t.kind = kind /\ t.pc = "read"
        /\ t.generation = generation /\ t.query = query /\ t.then = then
        /\ t.from = DatasetId(s)
    BY <1>2, <2>1 DEF TaskFields
  <2> QED BY <1>0, <1>3, <2>2 DEF TaskType, ReadsAs
<1>4. CASE ~ (awaits = 0 /\ ReadableIn(s, query))
  <2>1. t = [w EXCEPT !.awaits = awaits]
    BY <1>0, <1>1, <1>4 DEF Reader
  <2>2. /\ DOMAIN t = TaskFields /\ t.kind = kind /\ t.pc = "wait"
        /\ t.generation = generation /\ t.query = query /\ t.then = then
    BY <1>2, <2>1 DEF TaskFields
  <2> QED BY <1>0, <1>4, <2>2 DEF TaskType, ReadsAs
<1> QED BY <1>3, <1>4

(* A request of a listener: it reads what is in hand, or does not yet.     *)
Requests(t, kind, generation, s) ==
    /\ TaskType(t) /\ t.kind = kind /\ t.generation = generation
    /\ t.pc = "read" => t.from = DatasetId(s) /\ s.held # None

LEMMA ReaderInFacts ==
    ASSUME NEW kind \in {"timeline", "steps", "run"}, NEW generation \in Nat, NEW query \in Queries,
           NEW then \in Sequels \union {None}, NEW s,
           NEW t, t = ReaderIn(kind, generation, query, then, s)
    PROVE  Requests(t, kind, generation, s) /\ t.then = then
<1>1. CASE t = Task(kind, "probe", generation, query, then)
  <2>1. /\ DOMAIN t = TaskFields /\ t.kind = kind /\ t.pc = "probe"
        /\ t.generation = generation /\ t.query = query /\ t.then = then
    BY <1>1, TaskFacts
  <2> QED BY <2>1 DEF TaskType, Requests
<1>2. CASE t = Reader(kind, generation, query, then, s, s.inflight)
  <2>1. ReadsAs(t, kind, generation, query, then, s, s.inflight)
    BY <1>2, ReaderFacts
  <2> QED BY <2>1 DEF ReadsAs, ReadableIn, Requests
<1> QED BY <1>1, <1>2 DEF ReaderIn

(* BeginSteps: a step request is numbered, for the rows of the store.      *)
LEMMA BeginStepsFacts ==
    ASSUME NEW p, NEW s, NEW live, InHand(s, live),
           NEW id, Of(id, s), PanelOK(p, id, live),
           NEW q, q = BeginSteps(p, s)
    PROVE  /\ PanelOK(q, id, live) /\ Follows(p, q) /\ q.tasks = p.tasks
           /\ q.stepBase = StepBaseKey(s) /\ q.stepGeneration = p.stepGeneration + 1
           /\ q.timelineBase = p.timelineBase
<1>1. DOMAIN p = PanelFields /\ p.stepGeneration \in Nat
  BY DEF PanelOK, PanelType
<1>2. /\ DOMAIN q = PanelFields /\ q.request = p.request /\ q.settings = p.settings
      /\ q.applies = p.applies /\ q.periodViews = p.periodViews /\ q.gridViews = p.gridViews
      /\ q.timeline = p.timeline /\ q.timelineBase = p.timelineBase
      /\ q.timelineStatus = p.timelineStatus
      /\ q.timelineGeneration = p.timelineGeneration
      /\ q.steps = p.steps /\ q.stepBase = StepBaseKey(s)
      /\ q.stepGeneration = p.stepGeneration + 1
      /\ q.run = p.run /\ q.runGeneration = p.runGeneration /\ q.tasks = p.tasks
      /\ q.frame = p.frame
  BY <1>1 DEF BeginSteps, PanelFields
<1>3. StepBaseKey(s) \in StepBases /\ StepBaseKey(s) # None
  BY BaseFacts
<1>9. ~q.outlived => ~p.outlived /\ (p.stepBase # None => p.stepBase = q.stepBase)
  <2>1. ~q.outlived => ~p.outlived /\ p.stepBase \in {None, StepBaseKey(s)}
    BY <1>1 DEF BeginSteps, PanelFields
  <2> QED BY <1>2, <2>1
<1>4. PanelType(q)
  <2>1. q.request \in BOOLEAN /\ q.settings \in BOOLEAN
    BY <1>2, Zenon DEF PanelOK, PanelType
  <2> QED BY <1>1, <1>2, <1>3, <2>1 DEF PanelOK, PanelType
<1>5. StepsOK(q, id, live)
  <2>1. ASSUME p.steps # None
        PROVE  /\ p.steps.from[1] \in live /\ p.steps.of <= q.stepGeneration
               /\ p.steps.of # q.stepGeneration
               /\ ~q.outlived => IsOf(p.steps.from, q.stepBase[3], id, live)
    <3>1. /\ p.steps.of \in Nat /\ p.steps.from[1] \in live /\ p.steps.of <= p.stepGeneration
          /\ p.stepBase # None
          /\ ~p.outlived => IsOf(p.steps.from, p.stepBase[3], id, live)
      BY <2>1 DEF PanelOK, PanelType, StepsOK, Answers
    <3>2. ~q.outlived => IsOf(p.steps.from, q.stepBase[3], id, live)
      BY <1>9, <3>1
    <3> QED BY <1>1, <1>2, <3>1, <3>2
  <2>2. ASSUME NEW t \in p.tasks, t.kind = "steps"
        PROVE  t.generation <= q.stepGeneration /\ t.generation # q.stepGeneration
    <3>1. t.generation <= p.stepGeneration /\ t.generation \in Nat
      BY <2>2 DEF PanelOK, PanelType, TaskType, StepsOK
    <3> QED BY <1>1, <1>2, <3>1
  <2> QED BY <1>2, <1>3, <2>1, <2>2 DEF StepsOK
<1>6. TimelineOK(q, id, live)
  BY <1>2 DEF PanelOK, TimelineOK
<1>7. RunOK(q, id, live)
  BY <1>2, <1>3, <1>9 DEF PanelOK, RunOK
<1>8. FrameOK(q, id)
  BY <1>1, <1>2 DEF PanelOK, FrameOK
<1>10. Follows(p, q)
  BY <1>1, <1>2, <1>4 DEF Follows, Moves, LoadOK, PanelOK, PanelType
<1> QED BY <1>2, <1>4, <1>5, <1>6, <1>7, <1>8, <1>10 DEF PanelOK

(* Functions that leave the views as they are: what they are suspended in  *)
(* may change, and what the panel remembers of periods and grids.          *)
Fits(t, p, id, live) ==
    /\ TaskType(t)
    /\ t.kind = "timeline" =>
         /\ t.generation <= p.timelineGeneration
         /\ t.generation = p.timelineGeneration => p.timelineBase # None
         /\ t.generation = p.timelineGeneration /\ t.pc = "read" =>
              t.from \in DatasetIds /\ IsOf(t.from, p.timelineBase[1], id, live)
    /\ t.kind = "steps" =>
         /\ t.generation <= p.stepGeneration
         /\ t.generation = p.stepGeneration => p.stepBase # None
         /\ t.generation = p.stepGeneration /\ t.pc = "read" =>
              t.from \in DatasetIds /\ IsOf(t.from, p.stepBase[3], id, live)
    /\ t.kind = "run" =>
         /\ t.generation <= p.runGeneration
         /\ t.generation = p.runGeneration => p.stepBase # None
         /\ t.generation = p.runGeneration /\ t.pc = "read" =>
              /\ t.from \in DatasetIds /\ t.from[1] \in live
              /\ ~p.outlived => IsOf(t.from, p.stepBase[3], id, live)

Alike(p, q) ==
    /\ DOMAIN q = PanelFields /\ q.request = p.request /\ q.settings = p.settings
    /\ q.timeline = p.timeline /\ q.timelineBase = p.timelineBase
    /\ q.timelineStatus = p.timelineStatus
    /\ q.timelineGeneration = p.timelineGeneration
    /\ q.steps = p.steps /\ q.stepBase = p.stepBase /\ q.stepGeneration = p.stepGeneration
    /\ q.run = p.run /\ q.runGeneration = p.runGeneration /\ q.frame = p.frame
    /\ q.outlived = p.outlived

Remembers(q) ==
    /\ q.applies \in Nat
    /\ q.periodViews \in ViewSets \union {None} /\ q.gridViews \in ViewSets \union {None}

LEMMA AlikeFacts ==
    ASSUME NEW p, NEW q, NEW id, NEW live, PanelOK(p, id, live), Alike(p, q), Remembers(q),
           \A t \in q.tasks : t \in p.tasks \/ Fits(t, p, id, live)
    PROVE  /\ PanelOK(q, id, live) /\ Moves(p, q)
           /\ p.tasks \subseteq q.tasks => (LoadOK(p) => LoadOK(q))
<1>1. \A t \in q.tasks : Fits(t, p, id, live)
  BY DEF PanelOK, PanelType, TimelineOK, StepsOK, RunOK, Fits
<1>2. PanelType(q)
  <2>1. q.request \in BOOLEAN /\ q.settings \in BOOLEAN
    BY Zenon DEF PanelOK, PanelType, Alike
  <2> QED BY <1>1, <2>1 DEF PanelOK, PanelType, Alike, Remembers, Fits
<1>3. TimelineOK(q, id, live)
  BY <1>1 DEF PanelOK, TimelineOK, Alike, Fits
<1>4. StepsOK(q, id, live)
  BY <1>1 DEF PanelOK, StepsOK, Alike, Fits
<1>5. RunOK(q, id, live)
  BY <1>1 DEF PanelOK, RunOK, Alike, Fits
<1>6. FrameOK(q, id)
  BY DEF PanelOK, FrameOK, Alike
<1>7. Moves(p, q)
  BY DEF Moves, Alike, PanelOK, PanelType
<1>8. p.tasks \subseteq q.tasks => (LoadOK(p) => LoadOK(q))
  BY DEF LoadOK, Alike
<1> QED BY <1>2, <1>3, <1>4, <1>5, <1>6, <1>7, <1>8 DEF PanelOK

(* One more function is suspended. *)
LEMMA JoinsFacts ==
    ASSUME NEW p, NEW id, NEW live, PanelOK(p, id, live), NEW t, Fits(t, p, id, live),
           NEW q, q = [p EXCEPT !.tasks = @ \union {t}]
    PROVE  /\ PanelOK(q, id, live) /\ Follows(p, q) /\ Alike(p, q)
           /\ q.tasks = p.tasks \union {t}
<1>1. DOMAIN p = PanelFields
  BY DEF PanelOK, PanelType
<1>2. /\ Alike(p, q) /\ q.applies = p.applies /\ q.periodViews = p.periodViews
      /\ q.gridViews = p.gridViews /\ q.tasks = p.tasks \union {t}
  BY <1>1 DEF Alike, PanelFields
<1>3. Remembers(q)
  BY <1>2 DEF Remembers, PanelOK, PanelType
<1>4. (\A s \in q.tasks : s \in p.tasks \/ Fits(s, p, id, live)) /\ p.tasks \subseteq q.tasks
  BY <1>2
<1>5. Alike(p, q)
  BY <1>2
<1>6. PanelOK(q, id, live) /\ Moves(p, q) /\ (LoadOK(p) => LoadOK(q))
  BY <1>3, <1>4, <1>5, AlikeFacts
<1> QED BY <1>2, <1>6 DEF Follows

(* project(): a projection is asked for, of the dataset in hand; or it     *)
(* cannot be. What is to follow it is taken up in either case.             *)
Takes(q, then) == then # None => \E t \in q.tasks : t.then = then

LEMMA ProjectFacts ==
    ASSUME NEW p, NEW s, NEW live, InHand(s, live),
           NEW id, Of(id, s), PanelOK(p, id, live),
           NEW then \in Sequels \union {None}, NEW q, q = Project(p, s, then)
    PROVE  /\ PanelOK(q, id, live) /\ Follows(p, q) /\ Based(q, s) /\ Takes(q, then)
           /\ q.stepBase \in {None, p.stepBase}
<1>1. CASE s.status # "ready" \/ s.held = None
  <2>1. PICK p0 : p0 = NoTimeline(p)
    OBVIOUS
  <2>2. /\ PanelOK(p0, id, live) /\ Follows(p, p0) /\ p0.tasks = p.tasks /\ p0.stepBase = p.stepBase
    BY <2>1, NoTimelineFacts
  <2>3. PICK t : t = Task("restore", "resume", 0, s.query, then)
    OBVIOUS
  <2>4. PICK p1 : p1 = [p0 EXCEPT !.timelineStatus = "error",
                          !.tasks = IF then = None THEN @ ELSE @ \union {t}]
    OBVIOUS
  <2>5. q = Broadcast(p1, s)
    BY <1>1, <2>1, <2>3, <2>4, Zenon DEF Project
  <2>6. PICK p2 : p2 = [p0 EXCEPT !.timelineStatus = "error"]
    OBVIOUS
  <2>7. PanelOK(p2, id, live) /\ Follows(p0, p2) /\ p2.tasks = p0.tasks /\ p2.stepBase = p0.stepBase
    <3>1. DOMAIN p0 = PanelFields
      BY <2>2 DEF PanelOK, PanelType
    <3>2. /\ DOMAIN p2 = PanelFields /\ p2.request = p0.request /\ p2.settings = p0.settings
          /\ p2.applies = p0.applies /\ p2.periodViews = p0.periodViews
          /\ p2.gridViews = p0.gridViews
          /\ p2.timeline = p0.timeline /\ p2.timelineBase = p0.timelineBase
          /\ p2.timelineStatus = "error"
          /\ p2.timelineGeneration = p0.timelineGeneration
          /\ p2.steps = p0.steps /\ p2.stepBase = p0.stepBase /\ p2.outlived = p0.outlived
          /\ p2.stepGeneration = p0.stepGeneration
          /\ p2.run = p0.run /\ p2.runGeneration = p0.runGeneration /\ p2.tasks = p0.tasks
          /\ p2.frame = p0.frame
      BY <2>6, <3>1 DEF PanelFields
    <3>3. PanelType(p2)
      <4>1. p2.request \in BOOLEAN /\ p2.settings \in BOOLEAN
        BY <2>2, <3>2, Zenon DEF PanelOK, PanelType
      <4> QED BY <2>2, <3>2, <4>1 DEF PanelOK, PanelType
    <3>4. TimelineOK(p2, id, live) /\ StepsOK(p2, id, live) /\ RunOK(p2, id, live) /\ FrameOK(p2, id)
      BY <2>2, <3>2 DEF PanelOK, TimelineOK, StepsOK, RunOK, FrameOK
    <3>5. Follows(p0, p2)
      BY <2>2, <3>2 DEF Follows, Moves, LoadOK, PanelOK, PanelType
    <3> QED BY <3>2, <3>3, <3>4, <3>5 DEF PanelOK
  <2>8. PanelOK(p1, id, live) /\ Follows(p2, p1) /\ p1.stepBase = p2.stepBase /\ Takes(p1, then)
    <3>1. CASE then = None
      <4>1. p1 = p2
        BY <2>2, <2>4, <2>6, <3>1 DEF PanelOK, PanelType, PanelFields
      <4> QED BY <2>7, <3>1, <4>1 DEF Takes, Follows, Moves, PanelOK, PanelType
    <3>2. CASE then # None
      <4>1. p1 = [p2 EXCEPT !.tasks = @ \union {t}]
        BY <2>2, <2>4, <2>6, <3>2 DEF PanelOK, PanelType, PanelFields
      <4>2. Fits(t, p2, id, live) /\ t.then = then
        BY <2>3, <3>2, TaskFacts DEF Fits, TaskType, InHand
      <4> QED BY <2>7, <4>1, <4>2, JoinsFacts DEF Takes, Alike
    <3> QED BY <3>1, <3>2
  <2>9. /\ PanelOK(q, id, live) /\ Follows(p1, q) /\ Based(q, s) /\ q.tasks = p1.tasks
        /\ q.stepBase \in {None, p1.stepBase}
    BY <2>5, <2>8, BroadcastFacts
  <2>10. Follows(p, p2)
    BY <2>2, <2>7, FollowsIsTransitive DEF PanelOK
  <2>11. Follows(p2, q)
    BY <2>7, <2>8, <2>9, FollowsIsTransitive DEF PanelOK
  <2>12. Follows(p, q)
    BY <2>7, <2>9, <2>10, <2>11, FollowsIsTransitive DEF PanelOK
  <2> QED BY <2>2, <2>7, <2>8, <2>9, <2>12 DEF Takes
<1>2. CASE ~(s.status # "ready" \/ s.held = None)
  <2>1. PICK t : t = ReaderIn("timeline", p.timelineGeneration + 1, s.query, then, s)
    OBVIOUS
  <2>2. /\ p.timelineGeneration \in Nat /\ p.timelineGeneration + 1 \in Nat
        /\ DOMAIN p = PanelFields /\ s.query \in Queries
    BY DEF PanelOK, PanelType, InHand
  <2>3. s.held # None
    BY <1>2
  <2>4. /\ TaskType(t) /\ t.kind = "timeline" /\ t.then = then
        /\ t.generation = p.timelineGeneration + 1
        /\ t.pc = "read" => t.from = DatasetId(s)
    <3>1. "timeline" \in {"timeline", "steps", "run"}
      OBVIOUS
    <3>2. Requests(t, "timeline", p.timelineGeneration + 1, s) /\ t.then = then
      BY <2>1, <2>2, <3>1, ReaderInFacts
    <3> QED BY <3>2 DEF Requests
  <2>5. PICK p1 : p1 = [p EXCEPT !.timelineGeneration = p.timelineGeneration + 1,
                          !.timeline = None, !.timelineStatus = "loading", !.request = TRUE,
                          !.timelineBase = BaseKey(s), !.signature = s.query.proj,
                          !.tasks = @ \union {t}]
    OBVIOUS
  <2>6. q = Broadcast(p1, s)
    BY <1>2, <2>1, <2>5, Zenon DEF Project
  <2>7. /\ DOMAIN p1 = PanelFields /\ p1.request = TRUE /\ p1.settings = p.settings
        /\ p1.applies = p.applies /\ p1.periodViews = p.periodViews
        /\ p1.gridViews = p.gridViews
        /\ p1.timeline = None /\ p1.timelineBase = BaseKey(s)
        /\ p1.timelineStatus = "loading"
        /\ p1.timelineGeneration = p.timelineGeneration + 1
        /\ p1.steps = p.steps /\ p1.stepBase = p.stepBase /\ p1.outlived = p.outlived
        /\ p1.stepGeneration = p.stepGeneration
        /\ p1.run = p.run /\ p1.runGeneration = p.runGeneration
        /\ p1.tasks = p.tasks \union {t} /\ p1.frame = p.frame
    BY <2>2, <2>5 DEF PanelFields
  <2>8. /\ BaseKey(s) \in Bases /\ BaseKey(s) # None /\ BaseKey(s)[1] = DatasetId(s)
        /\ DatasetId(s) \in DatasetIds /\ DatasetId(s)[1] \in live
    BY <2>3, BaseFacts, NullAssumption
  <2>9. PanelType(p1)
    <3>1. p1.request \in BOOLEAN /\ p1.settings \in BOOLEAN
      BY <2>7, Zenon DEF PanelOK, PanelType
    <3> QED BY <2>2, <2>4, <2>7, <2>8, <3>1 DEF PanelOK, PanelType
  <2>10. TimelineOK(p1, id, live)
    <3> SUFFICES ASSUME NEW u \in p.tasks, u.kind = "timeline"
                 PROVE  /\ u.generation <= p1.timelineGeneration
                        /\ u.generation # p1.timelineGeneration
      BY <2>2, <2>4, <2>7, <2>8 DEF TimelineOK, IsOf
    <3>1. u.generation <= p.timelineGeneration /\ u.generation \in Nat
      BY DEF PanelOK, PanelType, TaskType, TimelineOK
    <3> QED BY <2>2, <2>7, <3>1
  <2>11. StepsOK(p1, id, live) /\ RunOK(p1, id, live) /\ FrameOK(p1, id)
    BY <2>4, <2>7 DEF PanelOK, StepsOK, RunOK, FrameOK
  <2>12. PanelOK(p1, id, live) /\ Follows(p, p1) /\ Takes(p1, then)
    BY <2>2, <2>4, <2>7, <2>9, <2>10, <2>11
       DEF PanelOK, Follows, Moves, LoadOK, PanelType, Takes
  <2>13. /\ PanelOK(q, id, live) /\ Follows(p1, q) /\ Based(q, s) /\ q.tasks = p1.tasks
         /\ q.stepBase \in {None, p1.stepBase}
    BY <2>6, <2>12, BroadcastFacts
  <2>14. Follows(p, q)
    BY <2>12, <2>13, FollowsIsTransitive DEF PanelOK
  <2> QED BY <2>7, <2>12, <2>13, <2>14 DEF Takes
<1> QED BY <1>1, <1>2

LEMMA FollowsItself == ASSUME NEW p, NEW id, NEW live, PanelOK(p, id, live) PROVE Follows(p, p)
BY DEF Follows, Moves, PanelOK, PanelType

(* capturePeriodViews(): only what the panel remembers changes.            *)
LEMMA CapturedFacts ==
    ASSUME NEW p, NEW s, NEW id, NEW live, PanelOK(p, id, live), NEW c, c = Captured(p, s)
    PROVE  /\ PanelOK(c.panel, id, live) /\ Follows(p, c.panel)
           /\ Alike(p, c.panel) /\ c.panel.tasks = p.tasks
           /\ c.views \in ViewSets \union {None}
<1>1. /\ DOMAIN p = PanelFields /\ Views(p) \in ViewSets
      /\ p.gridViews \in ViewSets \union {None}
  <2>1. p.request \in BOOLEAN /\ p.settings \in BOOLEAN
    BY Zenon DEF PanelOK, PanelType
  <2>2. Views(p) \in ViewSets
    BY <2>1 DEF Views, ViewSets
  <2> QED BY <2>2 DEF PanelOK, PanelType
<1>2. PICK p1 : p1 = [p EXCEPT !.seen = DatasetId(s), !.gridSeen = s.query.grid]
  OBVIOUS
<1>3. PICK grid \in ViewSets \union {None} : grid =
        IF DatasetId(s) # p.seen THEN None
        ELSE IF p.periodViews = None /\ s.query.grid # p.gridSeen
                /\ DatasetId(s) # None /\ p.gridViews = None
          THEN Views(p) ELSE p.gridViews
  BY <1>1
<1>4. PICK views \in ViewSets \union {None} : views =
        IF /\ DatasetId(s) # None /\ p.seen # None /\ DatasetId(s) # p.seen
           /\ p.periodViews = None /\ DatasetId(s)[1] = p.seen[1]
           /\ p.request \/ p.settings
          THEN Views(p) ELSE None
  BY <1>1, Zenon
<1>5. c = IF grid # None /\ s.status = "ready"
            THEN [panel |-> [p1 EXCEPT !.gridViews = None], views |-> grid]
            ELSE [panel |-> [p1 EXCEPT !.gridViews = grid], views |-> views]
  BY <1>2, <1>3, <1>4, Zenon DEF Captured
<1>6. c.views \in ViewSets \union {None}
  BY <1>5
<1>7. PICK g \in ViewSets \union {None} : c.panel = [p1 EXCEPT !.gridViews = g]
  BY <1>5
<1>8. PICK q : q = c.panel
  OBVIOUS
<1>9. /\ Alike(p, q) /\ q.tasks = p.tasks /\ q.applies = p.applies
      /\ q.periodViews = p.periodViews /\ q.gridViews = g
  BY <1>1, <1>2, <1>7, <1>8 DEF Alike, PanelFields
<1>10. Remembers(q)
  BY <1>9 DEF Remembers, PanelOK, PanelType
<1>11. PanelOK(q, id, live) /\ Moves(p, q) /\ (LoadOK(p) => LoadOK(q))
  BY <1>9, <1>10, AlikeFacts
<1> QED BY <1>6, <1>8, <1>9, <1>11 DEF Follows

(* reproject() *)
LEMMA ReprojectedFacts ==
    ASSUME NEW p, NEW s, NEW live, InHand(s, live),
           NEW id, Of(id, s), PanelOK(p, id, live), Based(p, s),
           NEW q, q = Reprojected(p, s)
    PROVE  PanelOK(q, id, live) /\ Follows(p, q) /\ Based(q, s)
<1>1. q = Project(p, s, None) \/ q = p
  BY DEF Reprojected
<1> QED BY <1>1, ProjectFacts, FollowsItself

(* A step request that reads the dataset at once, or waits for it.         *)
StepReading(p, s, query, then, s1, awaits) ==
    LET p1 == BeginSteps(p, s) IN
    [p1 EXCEPT !.tasks = @ \union {Reader("steps", p1.stepGeneration, query, then, s1, awaits)}]

Joined(p, t) == [p EXCEPT !.tasks = @ \union {t}]

LEMMA StepTaskFacts ==
    ASSUME NEW p, NEW s, NEW live, InHand(s, live),
           NEW id, Of(id, s), PanelOK(p, id, live),
           NEW p1, p1 = BeginSteps(p, s),
           NEW t, Requests(t, "steps", p1.stepGeneration, s),
           NEW q, q = Joined(p1, t)
    PROVE  /\ PanelOK(q, id, live) /\ Follows(p, q) /\ t \in q.tasks
           /\ q.stepBase = StepBaseKey(s) /\ q.timelineBase = p.timelineBase
<1>1. /\ PanelOK(p1, id, live) /\ Follows(p, p1) /\ p1.tasks = p.tasks
      /\ p1.stepBase = StepBaseKey(s) /\ p1.stepGeneration = p.stepGeneration + 1
      /\ p1.timelineBase = p.timelineBase
  BY BeginStepsFacts
<1>2. p1.stepGeneration \in Nat
  BY <1>1 DEF PanelOK, PanelType
<1>3. /\ StepBaseKey(s) # None /\ StepBaseKey(s)[3] = DatasetId(s)
      /\ s.held # None => DatasetId(s) \in DatasetIds /\ DatasetId(s)[1] \in live
  BY BaseFacts
<1>4. Fits(t, p1, id, live)
  BY <1>1, <1>2, <1>3 DEF Fits, IsOf, Requests
<1>5. /\ PanelOK(q, id, live) /\ Follows(p1, q) /\ Alike(p1, q)
      /\ q.tasks = p1.tasks \union {t}
  BY <1>1, <1>4, JoinsFacts DEF Joined
<1>6. Follows(p, q)
  BY <1>1, <1>5, FollowsIsTransitive DEF PanelOK
<1> QED BY <1>1, <1>5, <1>6 DEF Alike

LEMMA StepReaderFacts ==
    ASSUME NEW p, NEW s, NEW live, InHand(s, live),
           NEW id, Of(id, s), PanelOK(p, id, live),
           NEW query \in Queries, NEW then \in Sequels \union {None},
           NEW s1, s1.held = s.held, NEW awaits,
           NEW q, q = StepReading(p, s, query, then, s1, awaits)
    PROVE  /\ PanelOK(q, id, live) /\ Follows(p, q) /\ Takes(q, then)
           /\ q.stepBase = StepBaseKey(s) /\ q.timelineBase = p.timelineBase
<1>1. PICK p1 : p1 = BeginSteps(p, s)
  OBVIOUS
<1>2. p1.stepGeneration \in Nat
  BY <1>1, BeginStepsFacts DEF PanelOK, PanelType
<1>3. PICK t : t = Reader("steps", p1.stepGeneration, query, then, s1, awaits)
  OBVIOUS
<1>4. ReadsAs(t, "steps", p1.stepGeneration, query, then, s1, awaits)
  BY <1>2, <1>3, ReaderFacts
<1>5. Requests(t, "steps", p1.stepGeneration, s) /\ t.then = then
  BY <1>4 DEF ReadsAs, ReadableIn, DatasetId, Requests
<1>6. q = Joined(p1, t)
  BY <1>1, <1>3 DEF StepReading, Joined
<1>7. /\ PanelOK(q, id, live) /\ Follows(p, q) /\ t \in q.tasks
      /\ q.stepBase = StepBaseKey(s) /\ q.timelineBase = p.timelineBase
  BY <1>1, <1>5, <1>6, StepTaskFacts
<1> QED BY <1>5, <1>7 DEF Takes

(* restoreViews(): after an apply, something is suspended that will end    *)
(* the restoring.                                                          *)
LEMMA RestoringFacts ==
    ASSUME NEW p, NEW s, NEW live, InHand(s, live),
           NEW id, Of(id, s), PanelOK(p, id, live),
           NEW views, NEW query \in Queries, NEW then \in Sequels,
           NEW q, q = Restoring(p, s, views, query, then)
    PROVE  /\ PanelOK(q, id, live) /\ Follows(p, q)
           /\ Based(p, s) => Based(q, s)
           /\ then.apply # 0 => Takes(q, then)
<1>0. then # None
  BY NullAssumption
<1>1. CASE views.timeline /\ ~p.request
  <2>1. q = Project(p, s, then)
    BY <1>1, Zenon DEF Restoring
  <2> QED BY <2>1, ProjectFacts
<1>2. CASE /\ ~(views.timeline /\ ~p.request)
           /\ then.apply = 0 /\ ~(views.steps /\ p.stepStatus = "idle")
  <2>1. q = p
    BY <1>2 DEF Restoring
  <2> QED BY <1>2, <2>1, FollowsItself
<1>3. CASE /\ ~(views.timeline /\ ~p.request)
           /\ then.apply = 0 /\ views.steps /\ p.stepStatus = "idle"
  <2>1. PICK p1 : p1 = BeginSteps(p, s)
    OBVIOUS
  <2>2. p1.stepGeneration \in Nat
    BY <2>1, BeginStepsFacts DEF PanelOK, PanelType
  <2>3. PICK t : t = ReaderIn("steps", p1.stepGeneration, query, then, s)
    OBVIOUS
  <2>4. Requests(t, "steps", p1.stepGeneration, s)
    <3>1. "steps" \in {"timeline", "steps", "run"} /\ then \in Sequels \union {None}
      OBVIOUS
    <3> QED BY <2>2, <2>3, <3>1, ReaderInFacts
  <2>5. q = Joined(p1, t)
    BY <1>3, <2>1, <2>3 DEF Restoring, Joined
  <2>6. /\ PanelOK(q, id, live) /\ Follows(p, q)
        /\ q.stepBase = StepBaseKey(s) /\ q.timelineBase = p.timelineBase
    BY <2>1, <2>4, <2>5, StepTaskFacts
  <2> QED BY <1>3, <2>6 DEF Based
<1>4. CASE ~(views.timeline /\ ~p.request) /\ then.apply # 0
  <2>1. PICK t : t = Task("restore", "resume", 0, query, then)
    OBVIOUS
  <2>2. q = [p EXCEPT !.tasks = @ \union {t}]
    BY <1>4, <2>1 DEF Restoring
  <2>3. Fits(t, p, id, live) /\ t.then = then
    BY <1>0, <2>1, TaskFacts DEF Fits, TaskType
  <2> QED BY <2>2, <2>3, JoinsFacts DEF Takes, Alike, Based
<1> QED BY <1>1, <1>2, <1>3, <1>4

(* The panel's listener on its entry: whatever the store announces, the    *)
(* views that are left are of what it holds.                               *)
LEMMA HeardFacts ==
    ASSUME NEW p, NEW s, NEW live, InHand(s, live),
           NEW id, Of(id, s), PanelOK(p, id, live),
           NEW q, q = Heard(p, s)
    PROVE  PanelOK(q, id, live) /\ Follows(p, q) /\ Based(q, s)
<1>1. PICK c : c = Captured(p, s)
  OBVIOUS
<1>2. /\ PanelOK(c.panel, id, live) /\ Follows(p, c.panel)
      /\ c.views \in ViewSets \union {None}
  BY <1>1, CapturedFacts
<1>3. PICK p1 : p1 = Broadcast(c.panel, s)
  OBVIOUS
<1>4. PanelOK(p1, id, live) /\ Follows(c.panel, p1) /\ Based(p1, s)
  BY <1>2, <1>3, BroadcastFacts
<1>5. PICK p2 : p2 = Reprojected(p1, s)
  OBVIOUS
<1>6. PanelOK(p2, id, live) /\ Follows(p1, p2) /\ Based(p2, s)
  BY <1>4, <1>5, ReprojectedFacts
<1>7. Follows(p, p1)
  BY <1>2, <1>4, FollowsIsTransitive DEF PanelOK
<1>8. Follows(p, p2)
  BY <1>4, <1>6, <1>7, FollowsIsTransitive DEF PanelOK
<1>9. CASE c.views = None
  <2>1. q = p2
    BY <1>1, <1>3, <1>5, <1>9 DEF Heard
  <2> QED BY <1>6, <1>8, <2>1
<1>10. CASE c.views # None
  <2>1. PICK then : then = [apply |-> 0, about |-> <<DatasetId(s), s.query.grid>>,
                            steps |-> c.views.steps]
    OBVIOUS
  <2>2. /\ DatasetId(s) \in DatasetIds \union {None} /\ s.query.grid \in Nat
        /\ s.query \in Queries
    BY BaseFacts DEF InHand
  <2>3. then \in Sequels
    <3>1. c.views.steps \in BOOLEAN
      BY <1>2, <1>10 DEF ViewSets
    <3>2. <<DatasetId(s), s.query.grid>> \in (DatasetIds \union {None}) \X Nat
      BY <2>2
    <3>3. PICK a, b : a = <<DatasetId(s), s.query.grid>> /\ b = c.views.steps
      OBVIOUS
    <3> QED BY <2>1, <3>1, <3>2, <3>3 DEF Sequels
  <2>4. q = Restoring(p2, s, c.views, s.query, then)
    BY <1>1, <1>3, <1>5, <1>10, <2>1 DEF Heard
  <2>5. PanelOK(q, id, live) /\ Follows(p2, q) /\ Based(q, s)
    BY <1>6, <2>2, <2>3, <2>4, RestoringFacts
  <2>6. Follows(p, q)
    BY <1>6, <1>8, <2>5, FollowsIsTransitive DEF PanelOK
  <2> QED BY <2>5, <2>6
<1> QED BY <1>9, <1>10

---------------------------------------------------------------------------
(* The store. Collections are only ever added under the credential in      *)
(* force, so that what was live stays so.                                  *)
LEMMA LiveGrows ==
    ASSUME NEW p, NEW id, NEW live, NEW live1, live \subseteq live1, PanelOK(p, id, live)
    PROVE  PanelOK(p, id, live1)
<1>1. TimelineOK(p, id, live1)
  BY DEF PanelOK, TimelineOK, IsOf
<1>2. StepsOK(p, id, live1)
  BY DEF PanelOK, StepsOK, IsOf
<1>3. RunOK(p, id, live1)
  BY DEF PanelOK, RunOK, IsOf
<1> QED BY <1>1, <1>2, <1>3 DEF PanelOK

(* refresh(): what is in hand stays in hand; who would read other rows     *)
(* than before is told.                                                    *)
Refreshes(r) ==
    /\ r.store \in StoreType
    /\ r.coll \in CollsType /\ Live \subseteq LiveIn(r.coll, token)
    /\ InHand(r.store, LiveIn(r.coll, token)) /\ InFlight(r.store, r.coll, LiveIn(r.coll, token))
    /\ InHand(r.tells, LiveIn(r.coll, token))
    /\ r.store.held = store.held /\ r.tells.held = store.held
    /\ r.tells.query = r.store.query
    /\ r.emits \in BOOLEAN
    /\ ~r.emits => r.store = store /\ r.coll = coll

LEMMA RefreshedFacts ==
    ASSUME StoreOK, NEW q \in Queries, NEW force \in BOOLEAN, NEW bypass \in BOOLEAN,
           NEW r, r = Refreshed(q, force, bypass)
    PROVE  Refreshes(r)
<1> DEFINE changed == CollectionId(q) # CollectionId(store.query)
           joined == store.inflight # 0 /\ ~changed /\ ~bypass
           needless == /\ store.inflight = 0 /\ ~force /\ ~changed
                       /\ store.status = "ready" /\ store.held # None
           kept == ~force /\ ~bypass /\ store.held # None /\ store.held.data = q.data
           s == [store EXCEPT !.query = q]
<1>1. /\ s \in StoreType /\ s.query = q
      /\ s.held = store.held /\ s.inflight = store.inflight
      /\ q = store.query => s = store
  BY DEF StoreOK, StoreType
<1>2. InHand(store, Live) /\ InFlight(store, coll, Live) /\ coll \in CollsType /\ token \in Nat
  BY DEF StoreOK, CollsType
<1>3. CASE joined \/ needless
  <2>1. PICK a : r = [store |-> s, tells |-> s, coll |-> coll, awaits |-> a, emits |-> q # store.query]
    BY <1>3, Zenon DEF Refreshed
  <2>2. /\ r.store = s /\ r.tells = s /\ r.coll = coll /\ r.emits \in BOOLEAN
        /\ ~r.emits => q = store.query
    <3>1. PICK e \in BOOLEAN : e = (q # store.query)
      BY Zenon
    <3>2. r = [store |-> s, tells |-> s, coll |-> coll, awaits |-> a, emits |-> e]
      BY <2>1, <3>1, Zenon
    <3>3. r.store = s /\ r.tells = s /\ r.coll = coll /\ r.emits = e
      BY <3>2
    <3> QED BY <3>1, <3>3, Zenon
  <2> HIDE DEF s
  <2>3. InHand(s, Live) /\ InFlight(s, coll, Live)
    BY <1>1, <1>2 DEF InHand, InFlight
  <2>4. Live = LiveIn(coll, token)
    BY DEF Live
  <2> QED BY <1>1, <1>2, <2>2, <2>3, <2>4 DEF Refreshes
<1>4. CASE ~(joined \/ needless)
  <2>1. PICK b \in BOOLEAN, i \in BOOLEAN :
          b = (store.collecting \/ ~kept) /\ i = (kept /\ store.limited)
    BY Zenon
  <2>2. PICK root : root = IF kept THEN store.held.root ELSE 0
    OBVIOUS
  <2>3. PICK n : n = Len(coll) + 1
    OBVIOUS
  <2>4. PICK begun : begun = [s EXCEPT !.status = "loading", !.limited = FALSE, !.collecting = b]
    OBVIOUS
  <2>5. PICK started : started = [query |-> q, pc |-> "running", token |-> token,
                                  retained |-> root, interrupted |-> i]
    OBVIOUS
  <2>6. begun = [s EXCEPT !.status = "loading", !.limited = FALSE, !.collecting = @ \/ ~kept]
    <3>1. s.collecting = store.collecting
      BY DEF StoreOK, StoreType
    <3> QED BY <2>1, <2>4, <3>1, Zenon
  <2>7. r = [store |-> [begun EXCEPT !.inflight = n], tells |-> begun,
             coll |-> Append(coll, started), awaits |-> n, emits |-> TRUE]
    BY <1>4, <2>1, <2>2, <2>3, <2>5, <2>6, Zenon DEF Refreshed
  <2> HIDE DEF s, changed, joined, needless
  <2>8. /\ begun \in StoreType /\ begun.query = q /\ begun.held = store.held
        /\ begun.inflight = store.inflight
    BY <1>1, <2>4 DEF StoreType
  <2>9. r.tells = begun /\ r.coll = Append(coll, started) /\ r.emits = TRUE
    BY <2>7
  <2>10. /\ r.store \in StoreType /\ r.store.query = q
         /\ r.store.held = store.held /\ r.store.inflight = n
    <3>1. n \in Nat
      BY <1>2, <2>3 DEF CollsType
    <3>2. r.store = [begun EXCEPT !.inflight = n]
      BY <2>7
    <3> QED BY <2>8, <3>1, <3>2 DEF StoreType
  <2>11. root \in Nat /\ root \in Live \union {0}
    BY <1>2, <2>2 DEF InHand, Datasets
  <2> HIDE DEF kept
  <2>12. /\ started \in RunningType /\ started.pc = "running"
         /\ started.token = token /\ started.retained = root
    BY <1>2, <2>1, <2>5, <2>11 DEF RunningType
  <2>13. /\ r.coll \in CollsType /\ n \in DOMAIN r.coll /\ r.coll[n] = started
         /\ \A x \in DOMAIN coll : x \in DOMAIN r.coll /\ r.coll[x] = coll[x]
    <3>1. started \in RunningType \union DoneType
      BY <2>12
    <3> QED BY <1>2, <2>3, <2>9, <3>1 DEF CollsType
  <2>14. PICK live1 : live1 = LiveIn(r.coll, token)
    OBVIOUS
  <2>15. Live \subseteq live1 /\ n \in live1
    BY <2>12, <2>13, <2>14 DEF Live, LiveIn
  <2>16. InHand(r.store, live1) /\ InHand(r.tells, live1)
    BY <1>2, <2>8, <2>9, <2>10, <2>15 DEF InHand, StoreType
  <2>17. InFlight(r.store, r.coll, live1)
    BY <2>10, <2>11, <2>12, <2>13, <2>15 DEF InFlight
  <2> QED BY <2>8, <2>9, <2>10, <2>13, <2>14, <2>15, <2>16, <2>17 DEF Refreshes
<1> QED BY <1>3, <1>4

(* A panel that has heard of the store is sound for it, and for a store    *)
(* that has the same query and the same dataset in hand.                   *)
Firm(p, s, live) == PanelOK(p, DatasetId(s), live) /\ LoadOK(p) /\ RestoreOK(p) /\ Based(p, s)

LEMMA FirmIsSound ==
    ASSUME NEW p, NEW s, NEW live, Firm(p, s, live),
           NEW s1, s1.held = s.held, s1.query = s.query, NEW c
    PROVE  Sound(p, s1, c, live)
<1>1. DatasetId(s1) = DatasetId(s) /\ BaseKey(s1) = BaseKey(s) /\ StepBaseKey(s1) = StepBaseKey(s)
  BY DEF DatasetId, BaseKey, StepBaseKey
<1> QED BY <1>1 DEF Firm, Sound, Based

LEMMA HearingIsFirm ==
    ASSUME NEW s, NEW live, NEW live1, live \subseteq live1, InHand(s, live1),
           NEW id, id = DatasetId(s),
           NEW p, PanelOK(p, id, live), LoadOK(p), RestoreOK(p),
           NEW q, q = Heard(p, s)
    PROVE  Firm(q, s, live1) /\ Follows(p, q)
<1>1. PanelOK(p, id, live1)
  BY LiveGrows
<1>2. PanelOK(q, id, live1) /\ Follows(p, q) /\ Based(q, s)
  BY <1>1, OfItself, HeardFacts
<1> QED BY <1>2, FollowingRestores DEF Firm, Follows

---------------------------------------------------------------------------
(* The steps. But for an answer, no step shows anything that was not shown. *)
Advances == \A x \in Panels : Moves(panel[x], panel'[x])

LEMMA MovesItself == ASSUME NEW p, NEW id, NEW live, PanelOK(p, id, live) PROVE Moves(p, p)
BY DEF Moves, PanelOK, PanelType

(* One panel changes, and the store does not.                              *)
LEMMA OnePanelStep ==
    ASSUME PanelInv, NEW p \in Panels, NEW q, panel' = [panel EXCEPT ![p] = q],
           Sound(q, store, coll, Live), UNCHANGED <<store, coll, token>>
    PROVE  /\ PanelInv' /\ panel'[p] = q
           /\ \A x \in Panels : x # p => panel'[x] = panel[x]
           /\ Moves(panel[p], q) => Advances
<1>1. /\ DOMAIN panel' = Panels /\ panel'[p] = q
      /\ \A x \in Panels : x # p => panel'[x] = panel[x]
  BY DEF PanelInv
<1>2. StoreOK' /\ Live' = Live /\ store' = store /\ coll' = coll
  BY DEF PanelInv, StoreOK, Live
<1>3. \A x \in Panels : Sound(panel'[x], store', coll', Live')
  BY <1>1, <1>2 DEF PanelInv
<1>4. PanelInv'
  BY <1>1, <1>2, <1>3 DEF PanelInv
<1>5. Moves(panel[p], q) => Advances
  BY <1>1, MovesItself DEF Advances, PanelInv, Sound
<1> QED BY <1>1, <1>4, <1>5

(* The store is refreshed, and every panel hears what it announces.        *)
LEMMA CommitsStep ==
    ASSUME StoreOK, NEW r, Refreshes(r), NEW panels, DOMAIN panels = Panels,
           \A x \in Panels : Sound(panels[x], store, coll, Live),
           Commits(r, panels), token' = token
    PROVE  PanelInv' /\ \A x \in Panels : Follows(panels[x], panel'[x])
<1>1. /\ store' = r.store /\ coll' = r.coll
      /\ panel' = IF r.emits THEN AllHeard(panels, r.tells) ELSE panels
  BY DEF Commits
<1>2. PICK live1 : live1 = LiveIn(r.coll, token)
  OBVIOUS
<1>3. Live' = live1 /\ Live \subseteq live1
  BY <1>1, <1>2 DEF Live, Refreshes
<1>4. /\ r.store \in StoreType /\ r.coll \in CollsType /\ token \in Nat
      /\ InHand(r.store, live1) /\ InFlight(r.store, r.coll, live1)
  BY <1>2 DEF Refreshes, StoreOK
<1>5. StoreOK'
  BY <1>1, <1>3, <1>4 DEF StoreOK
<1>6. CASE r.emits
  <2>1. panel' = [x \in Panels |-> Heard(panels[x], r.tells)]
    BY <1>1, <1>6 DEF AllHeard
  <2>2. ASSUME NEW x \in Panels
        PROVE  Sound(panel'[x], store', coll', live1) /\ Follows(panels[x], panel'[x])
    <3>1. PICK q : q = Heard(panels[x], r.tells) /\ panel'[x] = q
      BY <2>1
    <3>2. PICK p : p = panels[x] /\ Sound(p, store, coll, Live)
      OBVIOUS
    <3>3. PanelOK(p, DatasetId(r.tells), Live) /\ LoadOK(p) /\ RestoreOK(p)
      <4>1. DatasetId(r.tells) = DatasetId(store)
        BY DEF Refreshes, DatasetId
      <4> QED BY <3>2, <4>1 DEF Sound
    <3>4. q = Heard(p, r.tells)
      BY <3>1, <3>2
    <3>5. Firm(q, r.tells, live1) /\ Follows(p, q)
      <4>1. InHand(r.tells, live1)
        BY <1>2 DEF Refreshes
      <4> QED BY <1>3, <3>3, <3>4, <4>1, HearingIsFirm
    <3>6. Sound(q, store', coll', live1)
      <4>1. store'.held = r.tells.held /\ store'.query = r.tells.query
        BY <1>1 DEF Refreshes
      <4> QED BY <3>5, <4>1, FirmIsSound
    <3> QED BY <3>1, <3>2, <3>5, <3>6
  <2>3. DOMAIN panel' = Panels
    BY <2>1
  <2> QED BY <1>3, <1>5, <2>2, <2>3 DEF PanelInv
<1>7. CASE ~r.emits
  <2>1. panel' = panels /\ r.store = store /\ r.coll = coll
    BY <1>1, <1>7 DEF Refreshes
  <2>2. Live = live1
    BY <1>2, <2>1 DEF Live
  <2>3. \A x \in Panels : Sound(panel'[x], store', coll', Live')
    BY <1>1, <1>3, <2>1, <2>2
  <2>4. \A x \in Panels : Follows(panels[x], panel'[x])
    BY <2>1, FollowsItself DEF Sound
  <2> QED BY <1>5, <2>1, <2>3, <2>4 DEF PanelInv
<1> QED BY <1>6, <1>7

LEMMA AskTimelineStep ==
    ASSUME PanelInv, NEW p \in Panels, AskTimeline(p)
    PROVE  PanelInv' /\ Advances
<1>1. PICK q : q = Project(panel[p], store, None)
  OBVIOUS
<1>2. panel' = [panel EXCEPT ![p] = q] /\ UNCHANGED <<store, coll, token>>
  BY <1>1 DEF AskTimeline
<1>3. PICK p0 : p0 = panel[p] /\ Sound(p0, store, coll, Live) /\ InHand(store, Live)
  BY DEF PanelInv, StoreOK
<1>4. PanelOK(q, DatasetId(store), Live) /\ Follows(p0, q) /\ Based(q, store)
  BY <1>1, <1>3, OfItself, ProjectFacts DEF Sound
<1>5. Sound(q, store, coll, Live) /\ Moves(p0, q)
  BY <1>3, <1>4, FollowingRestores DEF Sound, Follows
<1> QED BY <1>2, <1>3, <1>5, OnePanelStep

LEMMA ClearTimelineStep ==
    ASSUME PanelInv, NEW p \in Panels, ClearTimeline(p)
    PROVE  PanelInv' /\ Advances
<1>1. PICK p0 : p0 = panel[p] /\ Sound(p0, store, coll, Live) /\ InHand(store, Live)
  BY DEF PanelInv, StoreOK
<1>2. PICK p1 : p1 = NoTimeline(p0)
  OBVIOUS
<1>3. PICK q : q = Broadcast(p1, store)
  OBVIOUS
<1>4. panel' = [panel EXCEPT ![p] = q] /\ UNCHANGED <<store, coll, token>>
  BY <1>1, <1>2, <1>3 DEF ClearTimeline
<1>5. PanelOK(p1, DatasetId(store), Live) /\ Follows(p0, p1)
  BY <1>1, <1>2, NoTimelineFacts DEF Sound
<1>6. PanelOK(q, DatasetId(store), Live) /\ Follows(p1, q) /\ Based(q, store)
  BY <1>1, <1>3, <1>5, OfItself, BroadcastFacts
<1>7. Follows(p0, q)
  BY <1>1, <1>5, <1>6, FollowsIsTransitive DEF PanelOK, Sound
<1>8. Sound(q, store, coll, Live) /\ Moves(p0, q)
  BY <1>1, <1>6, <1>7, FollowingRestores DEF Sound, Follows
<1> QED BY <1>1, <1>4, <1>8, OnePanelStep

LEMMA AskStepsStep ==
    ASSUME PanelInv, NEW p \in Panels, AskSteps(p)
    PROVE  PanelInv' /\ Advances
<1>1. PICK p0 : p0 = panel[p] /\ Sound(p0, store, coll, Live) /\ InHand(store, Live)
  BY DEF PanelInv, StoreOK
<1>2. PICK p1 : p1 = BeginSteps(p0, store)
  OBVIOUS
<1>3. PICK t : t = Task("steps", "probe", p1.stepGeneration, store.query, None)
  OBVIOUS
<1>4. PICK q : q = [p1 EXCEPT !.tasks = @ \union {t}]
  OBVIOUS
<1>5. panel' = [panel EXCEPT ![p] = q] /\ UNCHANGED <<store, coll, token>>
  BY <1>1, <1>2, <1>3, <1>4 DEF AskSteps
<1>6. /\ PanelOK(p1, DatasetId(store), Live) /\ Follows(p0, p1) /\ p1.stepBase = StepBaseKey(store)
      /\ p1.timelineBase = p0.timelineBase /\ p1.stepGeneration \in Nat
  <2>1. PanelOK(p0, DatasetId(store), Live)
    BY <1>1 DEF Sound
  <2>2. /\ PanelOK(p1, DatasetId(store), Live) /\ Follows(p0, p1) /\ p1.stepBase = StepBaseKey(store)
        /\ p1.timelineBase = p0.timelineBase
    BY <1>1, <1>2, <2>1, OfItself, BeginStepsFacts
  <2> QED BY <2>2 DEF PanelOK, PanelType
<1>7. Fits(t, p1, DatasetId(store), Live)
  <2>1. StepBaseKey(store) # None /\ store.query \in Queries
    BY <1>1, BaseFacts DEF InHand
  <2>2. /\ DOMAIN t = TaskFields /\ t.kind = "steps" /\ t.pc = "probe"
        /\ t.generation = p1.stepGeneration /\ t.query = store.query /\ t.then = None
    BY <1>3, TaskFacts
  <2> QED BY <1>6, <2>1, <2>2 DEF Fits, TaskType
<1>8. PanelOK(q, DatasetId(store), Live) /\ Follows(p1, q) /\ Alike(p1, q)
  BY <1>4, <1>6, <1>7, JoinsFacts
<1>9. Follows(p0, q)
  BY <1>1, <1>6, <1>8, FollowsIsTransitive DEF PanelOK, Sound
<1>10. Quiet(store, coll) => Based(q, store)
  BY <1>1, <1>6, <1>8 DEF Sound, Based, Alike
<1>11. Sound(q, store, coll, Live) /\ Moves(p0, q)
  BY <1>1, <1>8, <1>9, <1>10, FollowingRestores DEF Sound, Follows
<1> QED BY <1>1, <1>5, <1>11, OnePanelStep

(* A run is asked for: the base of the statistics is kept if there is one. *)
RunAsked(p, base) == [p EXCEPT !.runGeneration = @ + 1, !.stepBase = base]

LEMMA RunAskedFacts ==
    ASSUME NEW p, NEW id, NEW live, PanelOK(p, id, live), NEW base \in StepBases,
           p.stepBase # None => base = p.stepBase, NEW q, q = RunAsked(p, base)
    PROVE  /\ PanelOK(q, id, live) /\ Follows(p, q) /\ q.runGeneration = p.runGeneration + 1
           /\ q.runGeneration \in Nat /\ q.stepBase = base /\ q.timelineBase = p.timelineBase
           /\ q.tasks = p.tasks
<1>1. DOMAIN p = PanelFields /\ p.runGeneration \in Nat /\ base # None
  BY NullAssumption DEF PanelOK, PanelType
<1>2. /\ DOMAIN q = PanelFields /\ q.request = p.request /\ q.settings = p.settings /\ q.outlived = p.outlived
      /\ q.applies = p.applies /\ q.periodViews = p.periodViews /\ q.gridViews = p.gridViews
      /\ q.timeline = p.timeline /\ q.timelineBase = p.timelineBase
      /\ q.timelineStatus = p.timelineStatus
      /\ q.timelineGeneration = p.timelineGeneration
      /\ q.steps = p.steps /\ q.stepBase = base /\ q.stepGeneration = p.stepGeneration
      /\ q.run = p.run /\ q.runGeneration = p.runGeneration + 1 /\ q.tasks = p.tasks
      /\ q.frame = p.frame
  BY <1>1 DEF RunAsked, PanelFields
<1>3. PanelType(q)
  <2>1. q.request \in BOOLEAN /\ q.settings \in BOOLEAN
    BY <1>2, Zenon DEF PanelOK, PanelType
  <2> QED BY <1>1, <1>2, <2>1 DEF PanelOK, PanelType
<1>4. RunOK(q, id, live)
  <2>1. ASSUME NEW t \in p.tasks, t.kind = "run"
        PROVE  t.generation <= q.runGeneration /\ t.generation # q.runGeneration
    <3>1. t.generation <= p.runGeneration /\ t.generation \in Nat
      BY <2>1 DEF PanelOK, PanelType, TaskType, RunOK
    <3> QED BY <1>1, <1>2, <3>1
  <2> QED BY <1>2, <2>1 DEF PanelOK, RunOK
<1>5. StepsOK(q, id, live)
  BY <1>1, <1>2 DEF PanelOK, StepsOK
<1>6. TimelineOK(q, id, live) /\ FrameOK(q, id)
  BY <1>2 DEF PanelOK, TimelineOK, FrameOK
<1>7. Follows(p, q)
  BY <1>1, <1>2, <1>3 DEF Follows, Moves, LoadOK, PanelOK, PanelType
<1> QED BY <1>1, <1>2, <1>3, <1>4, <1>5, <1>6, <1>7 DEF PanelOK

(* One panel takes up a request that refreshes the store.                  *)
LEMMA RefreshingStep ==
    ASSUME PanelInv, NEW p \in Panels, NEW q, Sound(q, store, coll, Live), Moves(panel[p], q),
           NEW query \in Queries, NEW r, r = Refreshed(query, FALSE, FALSE),
           Commits(r, [panel EXCEPT ![p] = q]), token' = token
    PROVE  PanelInv' /\ Advances
<1>1. Refreshes(r)
  BY RefreshedFacts DEF PanelInv
<1>2. PICK panels : panels = [panel EXCEPT ![p] = q]
  OBVIOUS
<1>3. /\ DOMAIN panels = Panels /\ panels[p] = q
      /\ \A x \in Panels : x # p => panels[x] = panel[x]
  BY <1>2 DEF PanelInv
<1>4. \A x \in Panels : Sound(panels[x], store, coll, Live)
  BY <1>3 DEF PanelInv
<1>5. PanelInv' /\ \A x \in Panels : Follows(panels[x], panel'[x])
  BY <1>1, <1>2, <1>3, <1>4, CommitsStep DEF PanelInv
<1>6. ASSUME NEW x \in Panels PROVE Moves(panel[x], panel'[x])
  <2>1. CASE x # p
    BY <1>3, <1>5, <2>1 DEF Follows
  <2>2. CASE x = p
    <3>1. PICK a, b : a = panel[p] /\ b = panel'[p]
      OBVIOUS
    <3>2. Moves(a, q) /\ Moves(q, b)
      BY <1>3, <1>5, <3>1 DEF Follows
    <3>3. PanelType(a) /\ PanelType(q) /\ PanelType(b)
      <4>1. Sound(a, store, coll, Live)
        BY <3>1 DEF PanelInv
      <4>2. PICK s1, c1, live1 : Sound(b, s1, c1, live1)
        BY <1>5, <3>1 DEF PanelInv
      <4> QED BY <4>1, <4>2 DEF Sound, PanelOK
    <3>4. Moves(a, b)
      BY <3>2, <3>3 DEF Moves, PanelType
    <3> QED BY <2>2, <3>1, <3>4
  <2> QED BY <2>1, <2>2
<1> QED BY <1>5, <1>6 DEF Advances

LEMMA GetStepMetricsStep ==
    ASSUME PanelInv, NEW p \in Panels, GetStepMetrics(p)
    PROVE  PanelInv' /\ Advances
<1>1. PICK p0 : p0 = panel[p] /\ Sound(p0, store, coll, Live) /\ InHand(store, Live)
  BY DEF PanelInv, StoreOK
<1>2. PICK r : r = Refreshed(store.query, FALSE, FALSE)
  OBVIOUS
<1>3. PICK q : q = StepReading(p0, store, store.query, None, r.store, r.awaits)
  OBVIOUS
<1>4. Commits(r, [panel EXCEPT ![p] = q]) /\ token' = token
  BY <1>1, <1>2, <1>3 DEF GetStepMetrics, AskDataset, StepReading
<1>5. store.query \in Queries
  BY <1>1 DEF InHand
<1>6. r.store.held = store.held
  BY <1>2, <1>5, RefreshedFacts DEF PanelInv, Refreshes
<1>7. PanelOK(p0, DatasetId(store), Live)
  BY <1>1 DEF Sound
<1>8. /\ PanelOK(q, DatasetId(store), Live) /\ Follows(p0, q)
      /\ q.stepBase = StepBaseKey(store) /\ q.timelineBase = p0.timelineBase
  <2>1. PICK id, then, s1, awaits :
          /\ id = DatasetId(store) /\ then = None /\ s1 = r.store /\ awaits = r.awaits
    OBVIOUS
  <2>2. Of(id, store) /\ PanelOK(p0, id, Live) /\ InHand(store, Live)
    BY <1>1, <1>7, <2>1, OfItself
  <2>3. then \in Sequels \union {None} /\ s1.held = store.held /\ store.query \in Queries
    BY <1>5, <1>6, <2>1
  <2>4. q = StepReading(p0, store, store.query, then, s1, awaits)
    BY <1>3, <2>1
  <2>5. /\ PanelOK(q, id, Live) /\ Follows(p0, q)
        /\ q.stepBase = StepBaseKey(store) /\ q.timelineBase = p0.timelineBase
    BY <2>2, <2>3, <2>4, StepReaderFacts
  <2> QED BY <2>1, <2>5
<1>9. Sound(q, store, coll, Live) /\ Moves(p0, q)
  BY <1>1, <1>8, FollowingRestores DEF Sound, Follows, Based
<1> QED BY <1>1, <1>2, <1>4, <1>5, <1>9, RefreshingStep

LEMMA AskRunStep ==
    ASSUME PanelInv, NEW p \in Panels, AskRun(p)
    PROVE  PanelInv' /\ Advances
<1>1. PICK p0 : p0 = panel[p] /\ Sound(p0, store, coll, Live) /\ InHand(store, Live)
  BY DEF PanelInv, StoreOK
<1>2. PanelOK(p0, DatasetId(store), Live) /\ PanelType(p0) /\ DOMAIN p0 = PanelFields
  BY <1>1 DEF Sound, PanelOK, PanelType
<1>3. PICK base : base = IF p0.stepBase = None THEN StepBaseKey(store) ELSE p0.stepBase
  OBVIOUS
<1>4. base \in StepBases /\ (p0.stepBase # None => base = p0.stepBase)
  BY <1>1, <1>2, <1>3, BaseFacts DEF PanelType
<1>5. PICK p1 : p1 = RunAsked(p0, base)
  OBVIOUS
<1>6. /\ PanelOK(p1, DatasetId(store), Live) /\ Follows(p0, p1) /\ p1.runGeneration = p0.runGeneration + 1
      /\ p1.runGeneration \in Nat /\ p1.stepBase = base /\ p1.timelineBase = p0.timelineBase
  BY <1>2, <1>4, <1>5, RunAskedFacts
<1>7. p1 = [p0 EXCEPT !.runGeneration = @ + 1,
                      !.stepBase = IF @ = None THEN StepBaseKey(store) ELSE @]
  BY <1>2, <1>3, <1>5 DEF RunAsked, PanelFields
<1>8. PICK r : r = Refreshed(store.query, FALSE, FALSE)
  OBVIOUS
<1>9. PICK t : t = Reader("run", p1.runGeneration, store.query, None, r.store, r.awaits)
  OBVIOUS
<1>10. PICK q : q = [p1 EXCEPT !.tasks = @ \union {t}]
  OBVIOUS
<1>11. Commits(r, [panel EXCEPT ![p] = q]) /\ token' = token
  BY <1>1, <1>7, <1>8, <1>9, <1>10 DEF AskRun, AskDataset
<1>12. store.query \in Queries
  BY <1>1 DEF InHand
<1>13. r.store.held = store.held
  BY <1>8, <1>12, RefreshedFacts DEF PanelInv, Refreshes
<1>14. Fits(t, p1, DatasetId(store), Live)
  <2>1. "run" \in {"timeline", "steps", "run"} /\ None \in Sequels \union {None}
    OBVIOUS
  <2>2. /\ t.kind = "run" /\ t.generation = p1.runGeneration
        /\ t.pc = "read" => t.from = DatasetId(r.store) /\ ReadableIn(r.store, store.query)
        /\ TaskType(t)
    <3>1. ReadsAs(t, "run", p1.runGeneration, store.query, None, r.store, r.awaits)
      BY <1>6, <1>9, <1>12, <2>1, ReaderFacts
    <3> QED BY <3>1 DEF ReadsAs
  <2>3. store.held # None => DatasetId(store) \in DatasetIds /\ DatasetId(store)[1] \in Live
    BY <1>1, BaseFacts
  <2>4. DatasetId(r.store) = DatasetId(store)
    BY <1>13 DEF DatasetId
  <2>5. p1.stepBase # None
    BY <1>4, <1>6, NullAssumption
  <2> QED BY <1>6, <1>13, <2>2, <2>3, <2>4, <2>5 DEF Fits, IsOf, ReadableIn
<1>15. PanelOK(q, DatasetId(store), Live) /\ Follows(p1, q) /\ Alike(p1, q)
  BY <1>6, <1>10, <1>14, JoinsFacts
<1>16. Follows(p0, q)
  BY <1>2, <1>6, <1>15, FollowsIsTransitive DEF PanelOK
<1>17. Quiet(store, coll) => Based(q, store)
  BY <1>1, <1>3, <1>6, <1>15 DEF Sound, Based, Alike
<1>18. Sound(q, store, coll, Live) /\ Moves(p0, q)
  BY <1>1, <1>15, <1>16, <1>17, FollowingRestores DEF Sound, Follows
<1> QED BY <1>1, <1>8, <1>11, <1>12, <1>18, RefreshingStep

LEMMA ClearRunStep ==
    ASSUME PanelInv, NEW p \in Panels, ClearRun(p)
    PROVE  PanelInv' /\ Advances
<1>1. PICK p0 : p0 = panel[p] /\ Sound(p0, store, coll, Live) /\ InHand(store, Live)
  BY DEF PanelInv, StoreOK
<1>2. PanelOK(p0, DatasetId(store), Live) /\ PanelType(p0) /\ DOMAIN p0 = PanelFields
  BY <1>1 DEF Sound, PanelOK, PanelType
<1>3. PICK p1 : p1 = [p0 EXCEPT !.runGeneration = @ + 1, !.run = None]
  OBVIOUS
<1>4. PICK q : q = Broadcast(p1, store)
  OBVIOUS
<1>5. panel' = [panel EXCEPT ![p] = q] /\ UNCHANGED <<store, coll, token>>
  BY <1>1, <1>3, <1>4 DEF ClearRun
<1>6. PanelOK(p1, DatasetId(store), Live) /\ Follows(p0, p1)
  <2>1. /\ DOMAIN p1 = PanelFields /\ p1.request = p0.request /\ p1.settings = p0.settings
        /\ p1.outlived = p0.outlived
        /\ p1.applies = p0.applies /\ p1.periodViews = p0.periodViews
        /\ p1.gridViews = p0.gridViews
        /\ p1.timeline = p0.timeline /\ p1.timelineBase = p0.timelineBase
        /\ p1.timelineStatus = p0.timelineStatus
        /\ p1.timelineGeneration = p0.timelineGeneration
        /\ p1.steps = p0.steps /\ p1.stepBase = p0.stepBase
        /\ p1.stepGeneration = p0.stepGeneration
        /\ p1.run = None /\ p1.runGeneration = p0.runGeneration + 1 /\ p1.tasks = p0.tasks
        /\ p1.frame = p0.frame
    BY <1>2, <1>3 DEF PanelFields
  <2>2. PanelType(p1)
    <3>1. p1.request \in BOOLEAN /\ p1.settings \in BOOLEAN
      BY <1>2, <2>1, Zenon DEF PanelType
    <3> QED BY <1>2, <2>1, <3>1 DEF PanelType
  <2>3. RunOK(p1, DatasetId(store), Live)
    <3>1. ASSUME NEW t \in p0.tasks, t.kind = "run"
          PROVE  t.generation <= p1.runGeneration /\ t.generation # p1.runGeneration
      <4>1. t.generation <= p0.runGeneration /\ t.generation \in Nat /\ p0.runGeneration \in Nat
        BY <1>2, <3>1 DEF PanelOK, PanelType, TaskType, RunOK
      <4> QED BY <2>1, <4>1
    <3> QED BY <2>1, <3>1 DEF RunOK
  <2>4. TimelineOK(p1, DatasetId(store), Live) /\ StepsOK(p1, DatasetId(store), Live) /\ FrameOK(p1, DatasetId(store))
    BY <1>2, <2>1 DEF PanelOK, TimelineOK, StepsOK, FrameOK
  <2>5. Follows(p0, p1)
    BY <1>2, <2>1 DEF Follows, Moves, LoadOK, PanelType
  <2> QED BY <2>2, <2>3, <2>4, <2>5 DEF PanelOK
<1>7. PanelOK(q, DatasetId(store), Live) /\ Follows(p1, q) /\ Based(q, store)
  BY <1>1, <1>4, <1>6, OfItself, BroadcastFacts
<1>8. Follows(p0, q)
  BY <1>2, <1>6, <1>7, FollowsIsTransitive DEF PanelOK
<1>9. Sound(q, store, coll, Live) /\ Moves(p0, q)
  BY <1>1, <1>7, <1>8, FollowingRestores DEF Sound, Follows
<1> QED BY <1>1, <1>5, <1>9, OnePanelStep

---------------------------------------------------------------------------
(* A suspended function goes on: until its end is accounted for, the panel *)
(* may be waiting for what it was to bring (`then`).                       *)
RestoreBut(p, then) ==
    p.periodViews # None =>
        /\ p.applies # 0
        /\ \/ then # None /\ then.apply = p.applies
           \/ \E t \in p.tasks : Brings(t, p)

Left(p, t, q) ==
    /\ Alike(p, q) /\ q.tasks = p.tasks \ {t} /\ q.applies = p.applies
    /\ q.periodViews = p.periodViews

LEMMA WithoutFacts ==
    ASSUME NEW p, NEW id, NEW live, PanelOK(p, id, live), RestoreOK(p), NEW t, NEW q, q = Without(p, t)
    PROVE  /\ PanelOK(q, id, live) /\ Left(p, t, q) /\ RestoreBut(q, t.then) /\ Moves(p, q)
           /\ t.kind # "timeline" \/ t.generation # p.timelineGeneration =>
                (LoadOK(p) => LoadOK(q))
<1>1. DOMAIN p = PanelFields
  BY DEF PanelOK, PanelType
<1>2. Left(p, t, q) /\ q.gridViews = p.gridViews
  BY <1>1 DEF Without, Left, Alike, PanelFields
<1>3. Remembers(q)
  BY <1>2 DEF Left, Remembers, PanelOK, PanelType
<1>4. PanelOK(q, id, live) /\ Moves(p, q)
  BY <1>2, <1>3, AlikeFacts DEF Left
<1>5. RestoreBut(q, t.then)
  BY <1>2 DEF Left, RestoreOK, RestoreBut, Brings
<1>6. t.kind # "timeline" \/ t.generation # p.timelineGeneration => (LoadOK(p) => LoadOK(q))
  BY <1>2 DEF Left, Alike, LoadOK
<1> QED BY <1>2, <1>4, <1>5, <1>6

LEMMA RestoreButFollows ==
    ASSUME NEW p, NEW q, NEW then, RestoreBut(p, then), Follows(p, q)
    PROVE  RestoreBut(q, then) /\ (Takes(q, then) => RestoreOK(q))
BY DEF RestoreBut, Follows, Brings, Takes, RestoreOK

(* Its end: nothing is restored any more.                                  *)
LEMMA RestoredFacts ==
    ASSUME NEW p, NEW id, NEW live, PanelOK(p, id, live), NEW then, RestoreBut(p, then),
           NEW q, q = Restored(p, then)
    PROVE  /\ PanelOK(q, id, live) /\ RestoreOK(q) /\ Alike(p, q) /\ Moves(p, q)
           /\ LoadOK(p) => LoadOK(q)
<1>1. CASE then # None /\ then.apply # 0 /\ then.apply = p.applies
  <2>1. DOMAIN p = PanelFields
    BY DEF PanelOK, PanelType
  <2>2. /\ Alike(p, q) /\ q.tasks = p.tasks /\ q.applies = p.applies /\ q.periodViews = None
        /\ q.gridViews = p.gridViews
    BY <1>1, <2>1 DEF Restored, Alike, PanelFields
  <2>3. Remembers(q)
    BY <2>2 DEF Remembers, PanelOK, PanelType
  <2>4. PanelOK(q, id, live) /\ Moves(p, q) /\ (LoadOK(p) => LoadOK(q))
    BY <2>2, <2>3, AlikeFacts
  <2> QED BY <2>2, <2>4 DEF RestoreOK
<1>2. CASE ~(then # None /\ then.apply # 0 /\ then.apply = p.applies)
  <2>1. q = p
    BY <1>2 DEF Restored
  <2>2. RestoreOK(p)
    BY <1>2 DEF RestoreBut, RestoreOK
  <2>3. Alike(p, p)
    BY DEF Alike, PanelOK, PanelType
  <2> QED BY <2>1, <2>2, <2>3, MovesItself
<1> QED BY <1>1, <1>2

(* It goes on in another place: it waits for its collection, or reads what *)
(* is in hand.                                                             *)
GoneOn(p, t, u) == [p EXCEPT !.tasks = (@ \ {t}) \union {u}]

LEMMA GoesOnFacts ==
    ASSUME NEW p, NEW s, NEW live, InHand(s, live),
           NEW id, id = DatasetId(s), PanelOK(p, id, live), LoadOK(p), RestoreOK(p),
           NEW t \in p.tasks, t.kind \in {"timeline", "steps", "run"},
           NEW u, Requests(u, t.kind, t.generation, s), u.then = t.then,
           NEW q, q = GoneOn(p, t, u)
    PROVE  /\ PanelOK(q, id, live) /\ LoadOK(q) /\ RestoreOK(q) /\ Moves(p, q)
           /\ q.timelineBase = p.timelineBase /\ q.stepBase = p.stepBase
<1>1. PanelType(p) /\ DOMAIN p = PanelFields
  BY DEF PanelOK, PanelType
<1>2. s.held # None => DatasetId(s) \in DatasetIds /\ DatasetId(s)[1] \in live
  BY BaseFacts
<1>3. /\ t.kind = "timeline" =>
           /\ t.generation <= p.timelineGeneration
           /\ t.generation = p.timelineGeneration => p.timelineBase # None
      /\ t.kind = "steps" =>
           /\ t.generation <= p.stepGeneration
           /\ t.generation = p.stepGeneration => p.stepBase # None
      /\ t.kind = "run" =>
           /\ t.generation <= p.runGeneration
           /\ t.generation = p.runGeneration => p.stepBase # None
  BY DEF PanelOK, TimelineOK, StepsOK, RunOK
<1>4. Fits(u, p, id, live)
  BY <1>2, <1>3 DEF Fits, IsOf, Requests
<1>5. /\ Alike(p, q) /\ q.tasks = (p.tasks \ {t}) \union {u} /\ q.applies = p.applies
      /\ q.periodViews = p.periodViews /\ q.gridViews = p.gridViews
  BY <1>1 DEF Alike, PanelFields, GoneOn
<1>6. Remembers(q)
  BY <1>1, <1>5 DEF Remembers, PanelType
<1>7. PanelOK(q, id, live) /\ Moves(p, q)
  BY <1>4, <1>5, <1>6, AlikeFacts
<1>8. LoadOK(q) /\ RestoreOK(q)
  BY <1>5 DEF LoadOK, RestoreOK, Brings, Alike, Requests
<1> QED BY <1>5, <1>7, <1>8 DEF Alike

LEMMA OpenDatasetStep ==
    ASSUME PanelInv, NEW p \in Panels, NEW t \in panel[p].tasks, OpenDataset(p, t)
    PROVE  PanelInv' /\ Advances
<1>1. PICK p0 : p0 = panel[p] /\ Sound(p0, store, coll, Live) /\ InHand(store, Live)
  BY DEF PanelInv, StoreOK
<1>2. /\ PanelOK(p0, DatasetId(store), Live) /\ LoadOK(p0) /\ RestoreOK(p0)
      /\ PanelType(p0) /\ t \in p0.tasks
  BY <1>1 DEF Sound, PanelOK
<1>3. PICK r : r = Refreshed(t.query, FALSE, FALSE)
  OBVIOUS
<1>4. PICK u : u = Reader(t.kind, t.generation, t.query, t.then, r.store, r.awaits)
  OBVIOUS
<1>5. PICK q : q = GoneOn(p0, t, u)
  OBVIOUS
<1>6. t.pc = "probe" /\ Commits(r, [panel EXCEPT ![p] = q]) /\ token' = token
  <2>1. t.pc = "probe" /\ Commits(r, [panel EXCEPT ![p].tasks = (@ \ {t}) \union {u}]) /\ token' = token
    BY <1>3, <1>4 DEF OpenDataset
  <2>2. [panel EXCEPT ![p].tasks = (@ \ {t}) \union {u}] = [panel EXCEPT ![p] = q]
    BY <1>1, <1>5 DEF GoneOn
  <2> QED BY <2>1, <2>2
<1>7. /\ t.query \in Queries /\ t.generation \in Nat /\ t.then \in Sequels \union {None}
      /\ t.kind \in {"timeline", "steps", "run"}
  BY <1>2, <1>6 DEF PanelType, TaskType
<1>8. Refreshes(r)
  BY <1>3, <1>7, RefreshedFacts DEF PanelInv
<1>9. Requests(u, t.kind, t.generation, store) /\ u.then = t.then
  <2>1. PICK kind \in {"timeline", "steps", "run"}, generation \in Nat, query \in Queries,
             then \in Sequels \union {None} :
          kind = t.kind /\ generation = t.generation /\ query = t.query /\ then = t.then
    BY <1>7
  <2>2. u = Reader(kind, generation, query, then, r.store, r.awaits)
    BY <1>4, <2>1
  <2>3. ReadsAs(u, kind, generation, query, then, r.store, r.awaits)
    BY <2>2, ReaderFacts
  <2>4. r.store.held = store.held /\ DatasetId(r.store) = DatasetId(store)
    BY <1>8 DEF Refreshes, DatasetId
  <2> QED BY <2>1, <2>3, <2>4 DEF ReadsAs, ReadableIn, Requests
<1>10. /\ PanelOK(q, DatasetId(store), Live) /\ LoadOK(q) /\ RestoreOK(q) /\ Moves(p0, q)
       /\ q.timelineBase = p0.timelineBase /\ q.stepBase = p0.stepBase
  BY <1>1, <1>2, <1>5, <1>7, <1>9, GoesOnFacts
<1>11. Sound(q, store, coll, Live)
  BY <1>1, <1>10 DEF Sound, Based
<1> QED BY <1>1, <1>3, <1>6, <1>7, <1>10, <1>11, RefreshingStep

LEMMA ResumeRestoreStep ==
    ASSUME PanelInv, NEW p \in Panels, NEW t \in panel[p].tasks, ResumeRestore(p, t)
    PROVE  PanelInv' /\ Advances
<1>1. PICK p1 : p1 = panel[p] /\ Sound(p1, store, coll, Live) /\ InHand(store, Live)
  BY DEF PanelInv, StoreOK
<1>2. PanelOK(p1, DatasetId(store), Live) /\ RestoreOK(p1) /\ LoadOK(p1) /\ t \in p1.tasks /\ t.kind = "restore"
  BY <1>1 DEF Sound, ResumeRestore
<1>3. t.query \in Queries /\ t.then \in Sequels \union {None}
  BY <1>2 DEF PanelOK, PanelType, TaskType
<1>4. PICK p0 : p0 = Without(p1, t)
  OBVIOUS
<1>5. /\ PanelOK(p0, DatasetId(store), Live) /\ Left(p1, t, p0) /\ RestoreBut(p0, t.then) /\ Moves(p1, p0)
      /\ LoadOK(p0)
  BY <1>2, <1>4, WithoutFacts
<1>6. Quiet(store, coll) => Based(p0, store)
  BY <1>1, <1>5 DEF Sound, Left, Alike, Based
<1>7. PICK r : r = Refreshed(t.query, FALSE, FALSE)
  OBVIOUS
<1>8. CASE StillCurrent(t.then, p0, store) /\ t.then.steps /\ p0.stepStatus = "idle"
  <2>1. PICK q : q = StepReading(p0, store, t.query, t.then, r.store, r.awaits)
    OBVIOUS
  <2>2. Commits(r, [panel EXCEPT ![p] = q]) /\ token' = token
    BY <1>1, <1>4, <1>7, <1>8, <2>1 DEF ResumeRestore, StepReading
  <2>3. r.store.held = store.held
    BY <1>3, <1>7, RefreshedFacts DEF PanelInv, Refreshes
  <2>4. /\ PanelOK(q, DatasetId(store), Live) /\ Follows(p0, q) /\ Takes(q, t.then)
        /\ q.stepBase = StepBaseKey(store) /\ q.timelineBase = p0.timelineBase
    <3>1. PICK id, then, s1, awaits :
            /\ id = DatasetId(store) /\ then = t.then /\ s1 = r.store /\ awaits = r.awaits
      OBVIOUS
    <3>2. Of(id, store) /\ PanelOK(p0, id, Live) /\ InHand(store, Live)
      BY <1>1, <1>5, <3>1, OfItself
    <3>3. then \in Sequels \union {None} /\ s1.held = store.held /\ t.query \in Queries
      BY <1>3, <2>3, <3>1
    <3>4. q = StepReading(p0, store, t.query, then, s1, awaits)
      BY <2>1, <3>1
    <3>5. /\ PanelOK(q, id, Live) /\ Follows(p0, q) /\ Takes(q, then)
          /\ q.stepBase = StepBaseKey(store) /\ q.timelineBase = p0.timelineBase
      BY <3>2, <3>3, <3>4, StepReaderFacts
    <3> QED BY <3>1, <3>5
  <2>5. RestoreOK(q) /\ LoadOK(q)
    BY <1>5, <2>4, RestoreButFollows DEF Follows
  <2>6. Sound(q, store, coll, Live)
    BY <1>6, <2>4, <2>5 DEF Sound, Based
  <2>7. Moves(p1, q)
    <3>1. Moves(p1, p0) /\ Moves(p0, q)
      BY <1>5, <2>4 DEF Follows
    <3>2. PanelType(p1) /\ PanelType(p0) /\ PanelType(q)
      BY <1>2, <1>5, <2>4 DEF PanelOK
    <3> QED BY <3>1, <3>2 DEF Moves, PanelType
  <2> QED BY <1>1, <1>3, <1>7, <2>2, <2>6, <2>7, RefreshingStep
<1>9. CASE ~(StillCurrent(t.then, p0, store) /\ t.then.steps /\ p0.stepStatus = "idle")
  <2>1. PICK q : q = Restored(p0, t.then)
    OBVIOUS
  <2>2. panel' = [panel EXCEPT ![p] = q] /\ UNCHANGED <<store, coll, token>>
    BY <1>1, <1>4, <1>9, <2>1 DEF ResumeRestore
  <2>3. PanelOK(q, DatasetId(store), Live) /\ RestoreOK(q) /\ Alike(p0, q) /\ Moves(p0, q) /\ LoadOK(q)
    BY <1>5, <2>1, RestoredFacts
  <2>4. Sound(q, store, coll, Live)
    BY <1>6, <2>3 DEF Sound, Based, Alike
  <2>5. Moves(p1, q)
    <3>1. PanelType(p1) /\ PanelType(p0) /\ PanelType(q)
      BY <1>2, <1>5, <2>3 DEF PanelOK
    <3> QED BY <1>5, <2>3, <3>1 DEF Moves, PanelType
  <2> QED BY <1>1, <2>2, <2>4, <2>5, OnePanelStep
<1> QED BY <1>8, <1>9

LEMMA ApplyDoneStep ==
    ASSUME PanelInv, NEW p \in Panels, NEW t \in panel[p].tasks, ApplyDone(p, t)
    PROVE  PanelInv' /\ Advances
<1>1. PICK p1 : p1 = panel[p] /\ Sound(p1, store, coll, Live) /\ InHand(store, Live)
  BY DEF PanelInv, StoreOK
<1>2. PanelOK(p1, DatasetId(store), Live) /\ RestoreOK(p1) /\ LoadOK(p1) /\ t \in p1.tasks /\ t.kind = "apply"
  BY <1>1 DEF Sound, ApplyDone
<1>3. t.query \in Queries /\ t.then \in Sequels /\ t.then # None
  BY <1>2 DEF PanelOK, PanelType, TaskType
<1>4. PICK p0 : p0 = Without(p1, t)
  OBVIOUS
<1>5. /\ PanelOK(p0, DatasetId(store), Live) /\ Left(p1, t, p0) /\ RestoreBut(p0, t.then) /\ Moves(p1, p0)
      /\ LoadOK(p0)
  BY <1>2, <1>4, WithoutFacts
<1>6. Quiet(store, coll) => Based(p0, store)
  BY <1>1, <1>5 DEF Sound, Left, Alike, Based
<1>7. CASE (t.awaits # 0 => coll[t.awaits].ready) /\ StillCurrent(t.then, p0, store)
  <2>1. PICK views : views = [timeline |-> t.pc = "timeline", steps |-> t.then.steps]
    OBVIOUS
  <2>2. PICK q : q = Restoring(p0, store, views, t.query, t.then)
    OBVIOUS
  <2>3. panel' = [panel EXCEPT ![p] = q] /\ UNCHANGED <<store, coll, token>>
    BY <1>1, <1>4, <1>7, <2>1, <2>2, Zenon DEF ApplyDone
  <2>4. /\ PanelOK(q, DatasetId(store), Live) /\ Follows(p0, q)
        /\ Based(p0, store) => Based(q, store)
        /\ t.then.apply # 0 => Takes(q, t.then)
    BY <1>1, <1>3, <1>5, <2>2, OfItself, RestoringFacts
  <2>5. RestoreOK(q)
    <3>1. CASE t.then.apply # 0
      BY <1>5, <2>4, <3>1, RestoreButFollows
    <3>2. CASE t.then.apply = 0
      <4>1. RestoreOK(p0)
        BY <1>5, <3>2 DEF RestoreBut, RestoreOK
      <4> QED BY <2>4, <4>1, FollowingRestores
    <3> QED BY <3>1, <3>2
  <2>6. Sound(q, store, coll, Live)
    BY <1>5, <1>6, <2>4, <2>5 DEF Sound, Follows
  <2>7. Moves(p1, q)
    <3>1. Moves(p0, q) /\ PanelType(p1) /\ PanelType(p0) /\ PanelType(q)
      BY <1>2, <1>5, <2>4 DEF PanelOK, Follows
    <3> QED BY <1>5, <3>1 DEF Moves, PanelType
  <2> QED BY <1>1, <2>3, <2>6, <2>7, OnePanelStep
<1>8. CASE ~((t.awaits # 0 => coll[t.awaits].ready) /\ StillCurrent(t.then, p0, store))
  <2>1. PICK q : q = Restored(p0, t.then)
    OBVIOUS
  <2>2. panel' = [panel EXCEPT ![p] = q] /\ UNCHANGED <<store, coll, token>>
    BY <1>1, <1>4, <1>8, <2>1, Zenon DEF ApplyDone
  <2>3. PanelOK(q, DatasetId(store), Live) /\ RestoreOK(q) /\ Alike(p0, q) /\ Moves(p0, q) /\ LoadOK(q)
    BY <1>5, <2>1, RestoredFacts
  <2>4. Sound(q, store, coll, Live)
    BY <1>6, <2>3 DEF Sound, Based, Alike
  <2>5. Moves(p1, q)
    <3>1. PanelType(p1) /\ PanelType(p0) /\ PanelType(q)
      BY <1>2, <1>5, <2>3 DEF PanelOK
    <3> QED BY <1>5, <2>3, <3>1 DEF Moves, PanelType
  <2> QED BY <1>1, <2>2, <2>4, <2>5, OnePanelStep
<1> QED BY <1>7, <1>8

LEMMA AcquireStep ==
    ASSUME PanelInv, NEW p \in Panels, NEW t \in panel[p].tasks, Acquire(p, t)
    PROVE  PanelInv' /\ Advances
<1>1. PICK p0 : p0 = panel[p] /\ Sound(p0, store, coll, Live) /\ InHand(store, Live)
  BY DEF PanelInv, StoreOK
<1>2. /\ PanelOK(p0, DatasetId(store), Live) /\ LoadOK(p0) /\ RestoreOK(p0)
      /\ PanelType(p0) /\ t \in p0.tasks
  BY <1>1 DEF Sound, PanelOK
<1>3. PICK u : u = [t EXCEPT !.pc = "read", !.awaits = 0, !.from = DatasetId(store)]
  OBVIOUS
<1>4. PICK q : q = GoneOn(p0, t, u)
  OBVIOUS
<1>5. /\ t.pc = "wait" /\ store.held # None
      /\ panel' = [panel EXCEPT ![p] = q] /\ UNCHANGED <<store, coll, token>>
  BY <1>1, <1>3, <1>4 DEF Acquire, Readable, ReadableIn, GoneOn
<1>6. TaskType(t) /\ t.kind \in {"timeline", "steps", "run"}
  BY <1>2, <1>5 DEF PanelType, TaskType
<1>7. Requests(u, t.kind, t.generation, store) /\ u.then = t.then
  BY <1>3, <1>5, <1>6 DEF TaskType, TaskFields, Requests
<1>8. /\ PanelOK(q, DatasetId(store), Live) /\ LoadOK(q) /\ RestoreOK(q) /\ Moves(p0, q)
      /\ q.timelineBase = p0.timelineBase /\ q.stepBase = p0.stepBase
  BY <1>1, <1>2, <1>4, <1>6, <1>7, GoesOnFacts
<1>9. Sound(q, store, coll, Live)
  BY <1>1, <1>8 DEF Sound, Based
<1> QED BY <1>1, <1>5, <1>8, <1>9, OnePanelStep

(* apply(): every panel hears of the query, this one too, and the rest of  *)
(* it is suspended until its refresh has ended.                            *)
LEMMA ApplyStep ==
    ASSUME PanelInv, NEW p \in Panels, NEW query \in Queries, NEW force \in BOOLEAN,
           NEW bypass \in BOOLEAN, Apply(p, query, force, bypass)
    PROVE  PanelInv' /\ Advances
<1>0. PICK id : id = DatasetId(store)
  OBVIOUS
<1>1. PICK p0 : p0 = panel[p] /\ Sound(p0, store, coll, Live) /\ InHand(store, Live)
  BY DEF PanelInv, StoreOK
<1>2. PanelOK(p0, id, Live) /\ PanelType(p0) /\ DOMAIN p0 = PanelFields
  BY <1>0, <1>1 DEF Sound, PanelOK, PanelType
<1>3. Views(p0) \in ViewSets
  <2>1. p0.request \in BOOLEAN /\ p0.settings \in BOOLEAN
    BY <1>2, Zenon DEF PanelType
  <2> QED BY <2>1 DEF Views, ViewSets
<1> DEFINE rereads == ~force /\ query.data = store.query.data
                      /\ (query.period # store.query.period \/ query.grid # store.query.grid)
           views == IF ~rereads THEN None
                    ELSE IF panel[p].periodViews # None THEN panel[p].periodViews
                    ELSE Views(panel[p])
           applied == panel[p].applies + 1
           r == Refreshed(query, force, bypass)
           started == [panel EXCEPT ![p].periodViews = views, ![p].applies = applied]
           heard == IF r.emits THEN AllHeard(started, r.tells) ELSE started
           then == [apply |-> applied, about |-> CollectionId(query), steps |-> views.steps]
           t == [Task("apply", IF views.timeline THEN "timeline" ELSE "steps", applied, query, then)
                   EXCEPT !.awaits = r.awaits]
           before == Broadcast(heard[p], r.store)
           after == IF views = None THEN before
                    ELSE [before EXCEPT !.tasks = @ \union {t}]
<1>4. /\ store' = r.store /\ coll' = r.coll /\ token' = token
      /\ panel' = [heard EXCEPT ![p] = after]
  BY Zenon DEF Apply
<1>5. views \in ViewSets \union {None}
  BY <1>1, <1>2, <1>3 DEF PanelType
<1> HIDE DEF views
<1>6. Refreshes(r)
  BY RefreshedFacts DEF PanelInv
<1> HIDE DEF r
<1>7. PICK live1 : live1 = LiveIn(r.coll, token)
  OBVIOUS
<1>8. /\ Live \subseteq live1 /\ StoreOK' /\ Live' = live1
      /\ InHand(r.store, live1) /\ InHand(r.tells, live1)
      /\ DatasetId(r.store) = id /\ DatasetId(r.tells) = id
      /\ ~r.emits => store' = store /\ coll' = coll /\ live1 = Live
  BY <1>0, <1>4, <1>6, <1>7 DEF Refreshes, PanelInv, StoreOK, Live, DatasetId
<1>9. PICK q1 : q1 = started[p]
  OBVIOUS
<1>10. /\ DOMAIN started = Panels
       /\ \A x \in Panels : x # p => started[x] = panel[x]
       /\ Alike(p0, q1) /\ q1.tasks = p0.tasks /\ q1.gridViews = p0.gridViews
       /\ q1.periodViews = views /\ q1.applies = applied
  BY <1>1, <1>2, <1>9 DEF PanelInv, Alike, PanelFields
<1>11. applied \in Nat /\ applied # 0
  BY <1>1, <1>2 DEF PanelType
<1> HIDE DEF started, applied
<1>12. PanelOK(q1, id, Live) /\ Moves(p0, q1) /\ LoadOK(q1)
  <2>1. Remembers(q1)
    BY <1>2, <1>5, <1>10, <1>11 DEF Remembers, PanelType
  <2> QED BY <1>1, <1>2, <1>10, <2>1, AlikeFacts DEF Sound
<1>13. /\ DOMAIN heard = Panels
       /\ r.emits => \A x \in Panels : heard[x] = Heard(started[x], r.tells)
       /\ ~r.emits => heard = started
  BY <1>10 DEF AllHeard
<1> HIDE DEF heard
<1>14. ASSUME NEW x \in Panels, x # p
       PROVE  Sound(heard[x], store', coll', live1) /\ Moves(panel[x], heard[x])
  <2>1. PICK a, b : a = panel[x] /\ b = heard[x] /\ Sound(a, store, coll, Live) /\ started[x] = a
    BY <1>10, <1>14 DEF PanelInv
  <2>2. CASE r.emits
    <3>1. b = Heard(a, r.tells) /\ PanelOK(a, id, Live) /\ LoadOK(a) /\ RestoreOK(a)
      BY <1>0, <1>13, <2>1, <2>2 DEF Sound
    <3>2. Firm(b, r.tells, live1) /\ Follows(a, b)
      BY <1>8, <3>1, HearingIsFirm
    <3>3. store'.held = r.tells.held /\ store'.query = r.tells.query
      BY <1>4, <1>6 DEF Refreshes
    <3>4. Sound(b, store', coll', live1)
      BY <3>2, <3>3, FirmIsSound
    <3> QED BY <2>1, <3>2, <3>4 DEF Follows
  <2>3. CASE ~r.emits
    <3>1. b = a
      BY <1>13, <2>1, <2>3
    <3>2. Moves(a, a)
      BY <2>1, MovesItself DEF Sound
    <3> QED BY <1>8, <2>1, <2>3, <3>1, <3>2
  <2> QED BY <2>2, <2>3
<1>15. PICK q2 : q2 = heard[p]
  OBVIOUS
<1>16. PanelOK(q2, id, live1) /\ Follows(q1, q2)
  <2>1. PanelOK(q1, id, live1)
    BY <1>8, <1>12, LiveGrows
  <2>2. CASE r.emits
    <3>1. q2 = Heard(q1, r.tells)
      BY <1>9, <1>13, <1>15, <2>2
    <3> QED BY <1>8, <2>1, <3>1, OfItself, HeardFacts
  <2>3. CASE ~r.emits
    <3>1. q2 = q1
      BY <1>9, <1>13, <1>15, <2>3
    <3> QED BY <2>1, <3>1, FollowsItself
  <2> QED BY <2>2, <2>3
<1>17. before = Broadcast(q2, r.store)
  BY <1>15
<1> HIDE DEF before
<1>18. PanelOK(before, id, live1) /\ Follows(q2, before) /\ Based(before, r.store)
  BY <1>8, <1>16, <1>17, OfItself, BroadcastFacts
<1>19. Follows(q1, before)
  BY <1>12, <1>16, <1>18, FollowsIsTransitive DEF PanelOK
<1>20. /\ before.periodViews = views /\ before.applies = applied /\ LoadOK(before)
       /\ Moves(q1, before)
  BY <1>10, <1>12, <1>19 DEF Follows
<1>21. /\ PanelOK(after, id, live1) /\ Moves(p0, after) /\ LoadOK(after) /\ RestoreOK(after)
       /\ Based(after, r.store)
  <2>1. Moves(p0, before)
    <3>1. PanelType(p0) /\ PanelType(q1) /\ PanelType(before)
      BY <1>2, <1>12, <1>18 DEF PanelOK
    <3> QED BY <1>12, <1>20, <3>1 DEF Moves, PanelType
  <2>2. CASE views = None
    BY <1>18, <1>20, <2>1, <2>2 DEF RestoreOK
  <2>3. CASE views # None
    <3>1. views.steps \in BOOLEAN /\ CollectionId(query) \in Nat \X Nat \X Nat
      BY <1>5, <2>3, PanelAssumption DEF ViewSets, CollectionId
    <3>2. then \in Sequels /\ then # None /\ then.apply = applied
      <4>1. PICK a, b, c : a = applied /\ b = CollectionId(query) /\ c = views.steps
        OBVIOUS
      <4>2. then = [apply |-> a, about |-> b, steps |-> c]
        BY <4>1
      <4>3. then \in Sequels /\ then.apply = a
        BY <1>11, <3>1, <4>1, <4>2 DEF Sequels
      <4> QED BY <4>1, <4>3, NullAssumption
    <3> HIDE DEF then
    <3>0. PICK pc \in {"timeline", "steps"} :
            pc = IF views.timeline THEN "timeline" ELSE "steps"
      <4>1. (IF views.timeline THEN "timeline" ELSE "steps") \in {"timeline", "steps"}
        BY Zenon
      <4> QED BY <4>1
    <3>3. PICK u : t = [u EXCEPT !.awaits = r.awaits] /\ u = Task("apply", pc, applied, query, then)
      BY <3>0
    <3>4. /\ DOMAIN t = TaskFields /\ t.kind = "apply" /\ t.pc = pc /\ t.generation = applied
          /\ t.query = query /\ t.then = then
      <4>1. /\ DOMAIN u = TaskFields /\ u.kind = "apply" /\ u.pc = pc /\ u.generation = applied
            /\ u.query = query /\ u.then = then
        BY <3>3, TaskFacts
      <4> QED BY <3>3, <4>1 DEF TaskFields
    <3> HIDE DEF t
    <3>5. Fits(t, before, id, live1)
      BY <1>11, <3>2, <3>4 DEF Fits, TaskType
    <3>6. after = [before EXCEPT !.tasks = @ \union {t}]
      BY <2>3
    <3> HIDE DEF after
    <3>7. /\ PanelOK(after, id, live1) /\ Follows(before, after) /\ Alike(before, after)
          /\ after.tasks = before.tasks \union {t}
      BY <1>18, <3>5, <3>6, JoinsFacts
    <3>8. RestoreOK(after)
      BY <1>11, <1>20, <3>2, <3>4, <3>7 DEF RestoreOK, Brings, Follows
    <3>9. Moves(p0, after)
      <4>1. PanelType(p0) /\ PanelType(before) /\ PanelType(after)
        BY <1>2, <1>18, <3>7 DEF PanelOK
      <4> QED BY <2>1, <3>7, <4>1 DEF Moves, PanelType, Follows
    <3> QED BY <1>18, <1>20, <3>7, <3>8, <3>9 DEF Follows, Based, Alike
  <2> QED BY <2>2, <2>3
<1> HIDE DEF after
<1>22. Sound(after, store', coll', live1)
  BY <1>4, <1>8, <1>21 DEF Sound
<1>23. /\ DOMAIN panel' = Panels /\ panel'[p] = after
       /\ \A x \in Panels : x # p => panel'[x] = heard[x]
  BY <1>4, <1>13
<1>24. \A x \in Panels : Sound(panel'[x], store', coll', Live')
  BY <1>4, <1>8, <1>14, <1>22, <1>23
<1>25. Advances
  BY <1>1, <1>14, <1>21, <1>23 DEF Advances
<1> QED BY <1>8, <1>23, <1>24, <1>25 DEF PanelInv

(* What one view may do: move on to a newer request, or show the answer to *)
(* its latest one.                                                         *)
Lane(g, v, g1, v1) ==
    \/ g1 >= g /\ v1 \in {v, None}
    \/ g1 = g /\ v1 # None /\ v1.of = g

Shows(p, q) ==
    /\ Lane(p.timelineGeneration, p.timeline, q.timelineGeneration, q.timeline)
    /\ Lane(p.stepGeneration, p.steps, q.stepGeneration, q.steps)
    /\ Lane(p.runGeneration, p.run, q.runGeneration, q.run)

(* setStepMetrics(), setStepError(), setRunTimeline() and the end of       *)
(* project(): the answer of the latest request is of its base.             *)
Ends(p, q) ==
    /\ q.tasks = p.tasks /\ q.applies = p.applies /\ q.periodViews = p.periodViews
    /\ q.timelineBase = p.timelineBase /\ q.stepBase = p.stepBase
    /\ q.timelineGeneration = p.timelineGeneration
    /\ q.stepGeneration = p.stepGeneration /\ q.runGeneration = p.runGeneration

LEMMA EndedFacts ==
    ASSUME NEW p, NEW id, NEW live, PanelOK(p, id, live), NEW t, Fits(t, p, id, live), Fresh(p, t),
           t.kind \in {"timeline", "steps", "run"},
           NEW answer, answer = None \/ (answer = AnswerTo(t) /\ t.pc = "read"),
           NEW keep \in BOOLEAN, NEW q, q = Ended(p, t, answer, keep)
    PROVE  /\ PanelOK(q, id, live) /\ Shows(p, q) /\ Ends(p, q)
           /\ t.kind = "timeline" \/ LoadOK(p) => LoadOK(q)
<1>1. PanelType(p) /\ DOMAIN p = PanelFields
  BY DEF PanelOK, PanelType
<1>2. /\ p.timelineGeneration \in Nat /\ p.stepGeneration \in Nat /\ p.runGeneration \in Nat
  BY <1>1 DEF PanelType
<1>3. answer # None => answer.of = t.generation /\ answer.from = t.from
  BY DEF AnswerTo
<1>5. t.generation \in Nat
  BY DEF Fits, TaskType
<1>4. t.from \in DatasetIds /\ answer # None => answer \in Answers
  <2>1. PICK a, b : a = t.generation /\ b = t.from
    OBVIOUS
  <2>2. answer # None => answer = [of |-> a, from |-> b]
    BY <2>1 DEF AnswerTo
  <2> QED BY <1>5, <2>1, <2>2 DEF Answers
<1>6. CASE t.kind = "timeline"
  <2>1. /\ t.generation = p.timelineGeneration /\ p.timelineBase # None
        /\ answer # None => t.from \in DatasetIds /\ IsOf(t.from, p.timelineBase[1], id, live)
    BY <1>6 DEF Fresh, Fits
  <2>2. answer # None => answer \in Answers
    BY <1>4, <2>1
  <2>3. PICK status \in {"error", "ready"} :
          q = [p EXCEPT !.timeline = answer, !.timelineStatus = status]
    <3>1. PICK status : status = IF answer = None THEN "error" ELSE "ready"
      OBVIOUS
    <3>2. q = [p EXCEPT !.timeline = answer, !.timelineStatus = status]
      BY <1>6, <3>1 DEF Ended
    <3> QED BY <3>1, <3>2
  <2>4. /\ DOMAIN q = PanelFields /\ q.request = p.request /\ q.settings = p.settings /\ q.outlived = p.outlived
        /\ q.gridViews = p.gridViews
        /\ q.timeline = answer /\ q.timelineStatus # "loading"
        /\ q.steps = p.steps /\ q.run = p.run /\ q.frame = p.frame /\ Ends(p, q)
    BY <1>1, <2>3 DEF PanelFields, Ends
  <2>5. PanelType(q)
    <3>1. q.request \in BOOLEAN /\ q.settings \in BOOLEAN
      BY <1>1, <2>4, Zenon DEF PanelType
    <3> QED BY <1>1, <2>2, <2>4, <3>1 DEF PanelType, Ends
  <2>6. TimelineOK(q, id, live)
    BY <1>3, <2>1, <2>4 DEF PanelOK, TimelineOK, Ends
  <2>7. StepsOK(q, id, live) /\ RunOK(q, id, live) /\ FrameOK(q, id)
    BY <2>4 DEF PanelOK, StepsOK, RunOK, FrameOK, Ends
  <2>8. Shows(p, q)
    BY <1>2, <1>3, <2>1, <2>4 DEF Shows, Lane, Ends
  <2>9. LoadOK(q)
    BY <2>4 DEF LoadOK
  <2> QED BY <2>4, <2>5, <2>6, <2>7, <2>8, <2>9 DEF PanelOK
<1>7. CASE t.kind = "steps" /\ answer # None
  <2>1. /\ t.generation = p.stepGeneration /\ p.stepBase # None
        /\ IsOf(t.from, p.stepBase[3], id, live) /\ t.from \in DatasetIds /\ t.from[1] \in live
    BY <1>7 DEF Fresh, Fits, IsOf
  <2>2. answer \in Answers
    BY <1>4, <1>7, <2>1
  <2>3. PICK run \in {p.run, None} :
          q = [p EXCEPT !.steps = answer, !.settings = TRUE, !.stepStatus = "ready", !.run = run]
    <3>1. q = [p EXCEPT !.steps = answer, !.settings = TRUE, !.stepStatus = "ready",
                        !.run = IF keep THEN @ ELSE None]
      BY <1>7 DEF Ended
    <3> QED BY <3>1
  <2>4. /\ DOMAIN q = PanelFields /\ q.request = p.request /\ q.settings = TRUE /\ q.outlived = p.outlived
        /\ q.gridViews = p.gridViews
        /\ q.timeline = p.timeline /\ q.timelineStatus = p.timelineStatus
        /\ q.steps = answer /\ q.run = run /\ q.frame = p.frame /\ Ends(p, q)
    BY <1>1, <2>3 DEF PanelFields, Ends
  <2>5. PanelType(q)
    <3>1. q.request \in BOOLEAN /\ q.settings \in BOOLEAN
      BY <1>1, <2>4, Zenon DEF PanelType
    <3> QED BY <1>1, <2>2, <2>4, <3>1 DEF PanelType, Ends
  <2>6. StepsOK(q, id, live)
    BY <1>2, <1>3, <2>1, <2>4 DEF PanelOK, StepsOK, Ends
  <2>7. TimelineOK(q, id, live) /\ RunOK(q, id, live) /\ FrameOK(q, id)
    BY <2>4 DEF PanelOK, TimelineOK, RunOK, FrameOK, Ends
  <2>8. Shows(p, q)
    BY <1>2, <1>3, <1>7, <2>1, <2>4 DEF Shows, Lane, Ends
  <2>9. LoadOK(p) => LoadOK(q)
    BY <2>4 DEF LoadOK, Ends
  <2> QED BY <1>7, <2>4, <2>5, <2>6, <2>7, <2>8, <2>9 DEF PanelOK
<1>8. CASE t.kind = "steps" /\ answer = None
  <2>1. q = [p EXCEPT !.settings = TRUE, !.stepStatus = "error"]
    BY <1>8 DEF Ended
  <2>2. /\ DOMAIN q = PanelFields /\ q.request = p.request /\ q.settings = TRUE /\ q.outlived = p.outlived
        /\ q.gridViews = p.gridViews
        /\ q.timeline = p.timeline /\ q.timelineStatus = p.timelineStatus
        /\ q.steps = p.steps /\ q.run = p.run /\ q.frame = p.frame /\ Ends(p, q)
    BY <1>1, <2>1 DEF PanelFields, Ends
  <2>3. PanelType(q)
    <3>1. q.request \in BOOLEAN /\ q.settings \in BOOLEAN
      BY <1>1, <2>2, Zenon DEF PanelType
    <3> QED BY <1>1, <2>2, <3>1 DEF PanelType, Ends
  <2>4. TimelineOK(q, id, live) /\ StepsOK(q, id, live) /\ RunOK(q, id, live) /\ FrameOK(q, id)
    BY <2>2 DEF PanelOK, TimelineOK, StepsOK, RunOK, FrameOK, Ends
  <2>5. Shows(p, q)
    BY <1>2, <2>2 DEF Shows, Lane, Ends
  <2>6. LoadOK(p) => LoadOK(q)
    BY <2>2 DEF LoadOK, Ends
  <2> QED BY <1>8, <2>2, <2>3, <2>4, <2>5, <2>6 DEF PanelOK
<1>9. CASE t.kind = "run" /\ answer # None
  <2>1. /\ t.generation = p.runGeneration /\ t.from \in DatasetIds /\ t.from[1] \in live
        /\ p.stepBase # None
        /\ ~p.outlived => IsOf(t.from, p.stepBase[3], id, live)
    BY <1>9 DEF Fresh, Fits
  <2>2. answer \in Answers
    BY <1>4, <1>9, <2>1
  <2>3. q = [p EXCEPT !.run = answer, !.stepStatus = "ready"]
    BY <1>9 DEF Ended
  <2>4. /\ DOMAIN q = PanelFields /\ q.request = p.request /\ q.settings = p.settings /\ q.outlived = p.outlived
        /\ q.gridViews = p.gridViews
        /\ q.timeline = p.timeline /\ q.timelineStatus = p.timelineStatus
        /\ q.steps = p.steps /\ q.run = answer /\ q.frame = p.frame /\ Ends(p, q)
    BY <1>1, <2>3 DEF PanelFields, Ends
  <2>5. PanelType(q)
    <3>1. q.request \in BOOLEAN /\ q.settings \in BOOLEAN
      BY <1>1, <2>4, Zenon DEF PanelType
    <3> QED BY <1>1, <2>2, <2>4, <3>1 DEF PanelType, Ends
  <2>6. RunOK(q, id, live)
    BY <1>3, <1>9, <2>1, <2>4 DEF PanelOK, RunOK, Ends
  <2>7. TimelineOK(q, id, live) /\ StepsOK(q, id, live) /\ FrameOK(q, id)
    BY <2>4 DEF PanelOK, TimelineOK, StepsOK, FrameOK, Ends
  <2>8. Shows(p, q)
    BY <1>2, <1>3, <1>9, <2>1, <2>4 DEF Shows, Lane, Ends
  <2>9. LoadOK(p) => LoadOK(q)
    BY <2>4 DEF LoadOK, Ends
  <2> QED BY <1>9, <2>4, <2>5, <2>6, <2>7, <2>8, <2>9 DEF PanelOK
<1>10. CASE t.kind = "run" /\ answer = None
  <2>1. q = p
    BY <1>10 DEF Ended
  <2>2. Shows(p, p)
    BY <1>2 DEF Shows, Lane
  <2> QED BY <1>10, <2>1, <2>2 DEF Ends
<1> QED BY <1>6, <1>7, <1>8, <1>9, <1>10

LEMMA ShowsMoves ==
    ASSUME NEW p, NEW q, NEW r, PanelType(p), PanelType(q), PanelType(r)
    PROVE  /\ Moves(p, q) => Shows(p, q)
           /\ Alike(p, q) /\ Shows(q, r) => Shows(p, r)
           /\ Shows(p, q) /\ Alike(q, r) => Shows(p, r)
           /\ Shows(p, q) /\ Ends(p, q) /\ Moves(q, r) /\ Drops(q, r) => Shows(p, r)
<1>1. Moves(p, q) => Shows(p, q)
  BY DEF Moves, Shows, Lane
<1>2. Alike(p, q) /\ Shows(q, r) => Shows(p, r)
  BY DEF Alike, Shows
<1>3. Shows(p, q) /\ Alike(q, r) => Shows(p, r)
  BY DEF Alike, Shows
<1>4. Shows(p, q) /\ Ends(p, q) /\ Moves(q, r) /\ Drops(q, r) => Shows(p, r)
  <2> SUFFICES ASSUME Shows(p, q), Ends(p, q), Moves(q, r), Drops(q, r)
               PROVE  Shows(p, r)
    OBVIOUS
  <2>1. Lane(p.timelineGeneration, p.timeline, r.timelineGeneration, r.timeline)
    BY DEF Moves, Shows, Lane, Ends, PanelType, Drops
  <2>2. Lane(p.stepGeneration, p.steps, r.stepGeneration, r.steps)
    BY DEF Moves, Shows, Lane, Ends, PanelType, Drops
  <2>3. Lane(p.runGeneration, p.run, r.runGeneration, r.run)
    BY DEF Moves, Shows, Lane, Ends, PanelType, Drops
  <2> QED BY <2>1, <2>2, <2>3 DEF Shows
<1> QED BY <1>1, <1>2, <1>3, <1>4

(* An answer arrives: it is of the latest request, or nothing is shown.    *)
Proceeds == \A x \in Panels : Shows(panel[x], panel'[x])

LEMMA EndStep ==
    ASSUME PanelInv, NEW p \in Panels, NEW t \in panel[p].tasks, End(p, t)
    PROVE  PanelInv' /\ Proceeds
<1>1. PICK p1 : p1 = panel[p] /\ Sound(p1, store, coll, Live) /\ InHand(store, Live)
  BY DEF PanelInv, StoreOK
<1>2. /\ PanelOK(p1, DatasetId(store), Live) /\ PanelType(p1) /\ RestoreOK(p1) /\ LoadOK(p1) /\ t \in p1.tasks
  BY <1>1 DEF Sound, PanelOK
<1>3. t.pc \in {"read", "wait"}
  BY DEF End
<1>4. TaskType(t) /\ t.kind \in {"timeline", "steps", "run"} /\ Fits(t, p1, DatasetId(store), Live)
  BY <1>2, <1>3 DEF PanelOK, PanelType, TaskType, Fits, TimelineOK, StepsOK, RunOK
<1>5. PICK p0 : p0 = Without(p1, t)
  OBVIOUS
<1>6. /\ PanelOK(p0, DatasetId(store), Live) /\ PanelType(p0) /\ Left(p1, t, p0) /\ RestoreBut(p0, t.then)
      /\ t.kind # "timeline" \/ t.generation # p1.timelineGeneration => LoadOK(p0)
  BY <1>2, <1>5, WithoutFacts DEF PanelOK
<1>7. Fits(t, p0, DatasetId(store), Live)
  BY <1>4, <1>6 DEF Fits, Left, Alike
<1>8. PICK answer \in {None, AnswerTo(t)}, keep \in BOOLEAN :
        /\ answer = None \/ (answer = AnswerTo(t) /\ t.pc = "read")
        /\ panel' = [panel EXCEPT ![p] =
             Followed(IF Fresh(p0, t) THEN Broadcast(Ended(p0, t, answer, keep), store) ELSE p0, t)]
  <2>1. PICK answer \in {None} \union (IF t.pc = "read" THEN {AnswerTo(t)} ELSE {}),
             keep \in BOOLEAN :
          panel' = [panel EXCEPT ![p] =
             Followed(IF Fresh(Without(panel[p], t), t)
                        THEN Broadcast(Ended(Without(panel[p], t), t, answer, keep), store)
                        ELSE Without(panel[p], t), t)]
    BY Zenon DEF End
  <2>2. answer = None \/ (answer = AnswerTo(t) /\ t.pc = "read")
    BY <2>1, Zenon
  <2>3. Without(panel[p], t) = p0
    BY <1>1, <1>5
  <2>4. panel' = [panel EXCEPT ![p] =
          Followed(IF Fresh(p0, t) THEN Broadcast(Ended(p0, t, answer, keep), store) ELSE p0, t)]
    BY <2>1, <2>3
  <2> QED BY <2>1, <2>2, <2>4
<1>9. UNCHANGED <<store, coll, token>>
  BY DEF End
<1>10. PICK e : e = Ended(p0, t, answer, keep)
  OBVIOUS
<1>11. PICK b : b = IF Fresh(p0, t) THEN Broadcast(e, store) ELSE p0
  OBVIOUS
<1>12. PICK q : q = Followed(b, t)
  OBVIOUS
<1>13. /\ PanelOK(b, DatasetId(store), Live) /\ PanelType(b) /\ Shows(p0, b) /\ RestoreBut(b, t.then)
       /\ LoadOK(b) /\ (Quiet(store, coll) => Based(b, store))
  <2>1. CASE Fresh(p0, t)
    <3>1. /\ PanelOK(e, DatasetId(store), Live) /\ Shows(p0, e) /\ Ends(p0, e)
          /\ t.kind = "timeline" \/ LoadOK(p0) => LoadOK(e)
      BY <1>4, <1>6, <1>7, <1>8, <1>10, <2>1, EndedFacts
    <3>2. LoadOK(e)
      BY <1>6, <3>1
    <3>3. RestoreBut(e, t.then)
      BY <1>6, <3>1 DEF RestoreBut, Ends, Brings
    <3>4. b = Broadcast(e, store)
      BY <1>11, <2>1
    <3>5. PanelOK(b, DatasetId(store), Live) /\ Follows(e, b) /\ Based(b, store) /\ Drops(e, b)
      BY <1>1, <3>1, <3>4, OfItself, BroadcastFacts
    <3>6. Shows(p0, b)
      BY <1>6, <3>1, <3>5, ShowsMoves DEF PanelOK, Follows
    <3>7. RestoreBut(b, t.then)
      BY <3>3, <3>5, RestoreButFollows
    <3> QED BY <3>2, <3>5, <3>6, <3>7 DEF PanelOK, Follows
  <2>2. CASE ~Fresh(p0, t)
    <3>1. b = p0
      BY <1>11, <2>2
    <3>2. t.kind = "timeline" => t.generation # p1.timelineGeneration
      BY <1>6, <2>2 DEF Fresh, Left, Alike
    <3>3. Shows(p0, p0)
      BY <1>6 DEF Shows, Lane, PanelType
    <3>4. Quiet(store, coll) => Based(p0, store)
      BY <1>1, <1>6 DEF Sound, Left, Alike, Based
    <3> QED BY <1>6, <3>1, <3>2, <3>3, <3>4
  <2> QED BY <2>1, <2>2
<1>14. PanelOK(q, DatasetId(store), Live) /\ LoadOK(q) /\ RestoreOK(q) /\ Alike(b, q)
  <2>1. CASE t.kind = "timeline" /\ t.then # None
    <3>1. PICK u : u = Task("restore", "resume", 0, t.query, t.then)
      OBVIOUS
    <3>2. q = [b EXCEPT !.tasks = @ \union {u}]
      BY <1>12, <2>1, <3>1 DEF Followed
    <3>3. Fits(u, b, DatasetId(store), Live) /\ u.then = t.then
      BY <1>4, <2>1, <3>1, TaskFacts DEF Fits, TaskType
    <3>4. /\ PanelOK(q, DatasetId(store), Live) /\ Follows(b, q) /\ Alike(b, q)
          /\ q.tasks = b.tasks \union {u}
      BY <1>13, <3>2, <3>3, JoinsFacts
    <3>5. Takes(q, t.then)
      BY <3>3, <3>4 DEF Takes
    <3> QED BY <1>13, <3>4, <3>5, RestoreButFollows DEF Follows
  <2>2. CASE ~(t.kind = "timeline" /\ t.then # None)
    <3>1. q = Restored(b, t.then)
      BY <1>12, <2>2 DEF Followed
    <3> QED BY <1>13, <3>1, RestoredFacts
  <2> QED BY <2>1, <2>2
<1>15. Sound(q, store, coll, Live)
  BY <1>13, <1>14 DEF Sound, Based, Alike
<1>16. Shows(p1, q)
  <2>1. PanelType(q)
    BY <1>14 DEF PanelOK
  <2>2. Shows(p0, q)
    BY <1>6, <1>13, <1>14, <2>1, ShowsMoves
  <2> QED BY <1>2, <1>6, <2>1, <2>2, ShowsMoves DEF Left
<1>17. panel' = [panel EXCEPT ![p] = q]
  BY <1>8, <1>10, <1>11, <1>12
<1>18. /\ PanelInv' /\ panel'[p] = q
       /\ \A x \in Panels : x # p => panel'[x] = panel[x]
  BY <1>9, <1>15, <1>17, OnePanelStep
<1>19. \A x \in Panels : x # p => Shows(panel[x], panel[x])
  BY DEF PanelInv, Sound, PanelOK, PanelType, Shows, Lane
<1> QED BY <1>1, <1>16, <1>18, <1>19 DEF Proceeds

---------------------------------------------------------------------------
(* The store on its own.                                                   *)
(* A collection changes its place, or ends.                                *)
LEMMA OneCollection ==
    ASSUME StoreOK, NEW c \in DOMAIN coll, NEW new \in RunningType \union DoneType,
           new.token = coll[c].token, coll' = [coll EXCEPT ![c] = new], token' = token
    PROVE  /\ coll' \in CollsType /\ Live' = Live /\ coll'[c] = new
           /\ \A x \in DOMAIN coll : x # c => coll'[x] = coll[x]
<1>1. coll \in CollsType
  BY DEF StoreOK
<1>2. /\ coll' \in CollsType /\ DOMAIN coll' = DOMAIN coll /\ coll'[c] = new
      /\ \A x \in DOMAIN coll : x # c => coll'[x] = coll[x]
  BY <1>1 DEF CollsType
<1>3. Live' = Live
  BY <1>2 DEF Live, LiveIn
<1> QED BY <1>2, <1>3

(* The store changes, and every panel hears of it.                         *)
LEMMA ToldStep ==
    ASSUME PanelInv, StoreOK', Live' = Live, store'.held = store.held,
           panel' = AllHeard(panel, store')
    PROVE  PanelInv' /\ Advances
<1>1. PICK s : s = store' /\ InHand(s, Live) /\ DatasetId(s) = DatasetId(store)
  BY DEF StoreOK, DatasetId
<1>2. ASSUME NEW x \in Panels
      PROVE  Sound(panel'[x], store', coll', Live') /\ Moves(panel[x], panel'[x])
  <2>1. PICK a, b : a = panel[x] /\ b = panel'[x] /\ b = Heard(a, s)
    BY <1>1 DEF AllHeard
  <2>2. PanelOK(a, DatasetId(s), Live) /\ LoadOK(a) /\ RestoreOK(a)
    BY <1>1, <2>1 DEF PanelInv, Sound
  <2>3. Firm(b, s, Live) /\ Follows(a, b)
    BY <1>1, <2>1, <2>2, HearingIsFirm
  <2>4. Sound(b, s, coll', Live)
    BY <2>3, FirmIsSound
  <2> QED BY <1>1, <2>1, <2>3, <2>4 DEF Follows
<1>3. DOMAIN panel' = Panels
  BY DEF AllHeard
<1> QED BY <1>2, <1>3 DEF PanelInv, Advances

(* The store changes unheard: what is in hand stays, and what is announced *)
(* is no more than before.                                                 *)
LEMMA UntoldStep ==
    ASSUME PanelInv, StoreOK', Live' = Live, panel' = panel,
           store'.held = store.held, store'.query = store.query,
           Quiet(store', coll') => Quiet(store, coll)
    PROVE  PanelInv' /\ Advances
<1>1. /\ DatasetId(store') = DatasetId(store) /\ BaseKey(store') = BaseKey(store)
      /\ StepBaseKey(store') = StepBaseKey(store)
  BY DEF DatasetId, BaseKey, StepBaseKey
<1>2. ASSUME NEW x \in Panels PROVE Sound(panel'[x], store', coll', Live')
  BY <1>1 DEF PanelInv, Sound, Based
<1>3. Advances
  BY MovesItself DEF Advances, PanelInv, Sound
<1> QED BY <1>2, <1>3 DEF PanelInv

(* With the bases of the store, what is shown is of them, whatever is put  *)
(* in hand next.                                                           *)
LEMMA BasedForAny ==
    ASSUME NEW p, NEW s, NEW live, InHand(s, live), PanelOK(p, DatasetId(s), live), Based(p, s),
           NEW id
    PROVE  PanelOK(p, id, live)
<1>1. /\ p.timelineBase # None => p.timelineBase[1] = DatasetId(s)
      /\ p.stepBase # None => p.stepBase[3] = DatasetId(s)
  BY BaseFacts DEF Based
<1>2. TimelineOK(p, id, live)
  BY <1>1 DEF PanelOK, TimelineOK, IsOf
<1>3. StepsOK(p, id, live)
  BY <1>1 DEF PanelOK, StepsOK, IsOf
<1>4. RunOK(p, id, live)
  BY <1>1 DEF PanelOK, RunOK, IsOf
<1>5. FrameOK(p, id)
  BY BaseFacts DEF PanelOK, FrameOK
<1> QED BY <1>2, <1>3, <1>4, <1>5 DEF PanelOK

LEMMA OutcomeFacts ==
    ASSUME NEW s \in StoreType, NEW c, coll[c] \in RunningType
    PROVE  /\ Outcome(s, c) \in StoreType /\ Outcome(s, c).query = s.query
           /\ Outcome(s, c).held = s.held /\ Outcome(s, c).inflight = s.inflight
<1>1. PICK interrupted : interrupted = coll[c].interrupted /\ interrupted \in BOOLEAN
  BY DEF RunningType
<1>2. PICK status \in {"error", "ready"} : status = IF interrupted THEN "error" ELSE "ready"
  <2>1. (IF interrupted THEN "error" ELSE "ready") \in {"error", "ready"}
    BY Zenon
  <2> QED BY <2>1
<1>3. PICK limited \in BOOLEAN, collecting \in BOOLEAN :
        /\ limited = (s.limited \/ interrupted)
        /\ collecting = (s.collecting /\ coll[c].retained # 0 /\ ~interrupted)
  BY Zenon
<1>4. Outcome(s, c) = [s EXCEPT !.status = status, !.limited = limited, !.collecting = collecting]
  <2>1. Outcome(s, c) = [s EXCEPT !.status = IF interrupted THEN "error" ELSE "ready",
                           !.limited = s.limited \/ interrupted,
                           !.collecting = s.collecting /\ coll[c].retained # 0 /\ ~interrupted]
    BY <1>1 DEF Outcome
  <2> QED BY <1>2, <1>3, <2>1, Zenon
<1> QED BY <1>2, <1>3, <1>4 DEF StoreType

LEMMA CollectStep ==
    ASSUME PanelInv, NEW c \in 1 .. Len(coll), Collect(c)
    PROVE  PanelInv' /\ Advances
<1>1. /\ store \in StoreType /\ coll \in CollsType /\ token \in Nat /\ StoreOK
      /\ InHand(store, Live) /\ InFlight(store, coll, Live)
      /\ panel' = panel /\ token' = token
      /\ store.inflight = c /\ coll[c].pc = "running" /\ c \in DOMAIN coll /\ c # 0
  BY DEF PanelInv, StoreOK, Collect, CollsType
<1>2. c \in Live /\ c \in Nat /\ coll[c] \in RunningType /\ coll[c].retained \in Live \union {0}
  BY <1>1 DEF InFlight, InHand
<1>3. PICK held : held = [root |-> IF coll[c].retained # 0 THEN coll[c].retained ELSE c,
                          data |-> coll[c].query.data, period |-> coll[c].query.period]
  OBVIOUS
<1>4. held \in Datasets /\ held # None /\ held.root \in Live
  <2>1. coll[c].query.data \in Nat /\ coll[c].query.period \in Nat /\ coll[c].retained \in Nat
    BY <1>2, PanelAssumption DEF RunningType
  <2>2. PICK root, data, period :
          /\ root = (IF coll[c].retained # 0 THEN coll[c].retained ELSE c)
          /\ data = coll[c].query.data /\ period = coll[c].query.period
    OBVIOUS
  <2>3. held = [root |-> root, data |-> data, period |-> period]
    BY <1>3, <2>2
  <2>4. held \in Datasets /\ held.root \in Live
    BY <1>2, <2>1, <2>2, <2>3 DEF Datasets
  <2> QED BY <2>4, NullAssumption
<1>5. PICK s : s = [store EXCEPT !.held = held]
  OBVIOUS
<1>6. /\ s \in StoreType /\ s.query = store.query /\ s.held = held /\ s.inflight = c
  BY <1>1, <1>4, <1>5 DEF StoreType
<1>7. PICK pc \in {"reported", "committed"} :
        /\ coll' = [coll EXCEPT ![c].pc = pc]
        /\ store' = s \/ store' = Outcome(s, c)
  <2>1. /\ store' = IF store.held = None THEN Outcome(s, c) ELSE s
        /\ coll' = [coll EXCEPT ![c].pc = IF store.held = None THEN "reported" ELSE "committed"]
    BY <1>3, <1>5 DEF Collect
  <2> QED BY <2>1
<1>8. /\ store' \in StoreType /\ store'.query = store.query /\ store'.held = held
      /\ store'.inflight = c
  BY <1>2, <1>6, <1>7, OutcomeFacts
<1>9. PICK new : new = [coll[c] EXCEPT !.pc = pc]
  OBVIOUS
<1>10. /\ new \in RunningType /\ new.token = coll[c].token /\ new.retained = coll[c].retained
       /\ new.pc = pc
  BY <1>2, <1>9 DEF RunningType
<1>11. coll' = [coll EXCEPT ![c] = new]
  BY <1>7, <1>9
<1>12. /\ coll' \in CollsType /\ Live' = Live /\ coll'[c] = new
  BY <1>1, <1>10, <1>11, OneCollection
<1>13. StoreOK'
  <2>1. InHand(store', Live')
    BY <1>1, <1>4, <1>8, <1>12 DEF InHand
  <2>2. InFlight(store', coll', Live')
    BY <1>2, <1>8, <1>10, <1>12 DEF InFlight
  <2> QED BY <1>1, <1>8, <1>12, <2>1, <2>2 DEF StoreOK
<1>14. ASSUME NEW x \in Panels PROVE Sound(panel'[x], store', coll', Live')
  <2>1. PICK a : a = panel[x] /\ Sound(a, store, coll, Live)
    BY DEF PanelInv
  <2>2. Based(a, store)
    BY <1>1, <2>1 DEF Sound, Quiet
  <2>3. PanelOK(a, DatasetId(store'), Live)
    BY <1>1, <2>1, <2>2, BasedForAny DEF Sound
  <2>4. ~Quiet(store', coll')
    BY <1>1, <1>8, <1>10, <1>12 DEF Quiet
  <2> QED BY <1>1, <1>12, <2>1, <2>3, <2>4 DEF Sound
<1>15. Advances
  BY <1>1, MovesItself DEF Advances, PanelInv, Sound
<1> QED BY <1>1, <1>13, <1>14, <1>15 DEF PanelInv

LEMMA ReportStep ==
    ASSUME PanelInv, NEW c \in 1 .. Len(coll), Report(c)
    PROVE  PanelInv' /\ Advances
<1>1. /\ store \in StoreType /\ coll \in CollsType /\ token \in Nat /\ StoreOK
      /\ InHand(store, Live) /\ InFlight(store, coll, Live)
      /\ panel' = panel /\ token' = token /\ c \in DOMAIN coll
      /\ coll[c].pc = "committed" /\ coll' = [coll EXCEPT ![c].pc = "reported"]
      /\ store' = Outcome(store, c)
  BY DEF PanelInv, StoreOK, Report, CollsType
<1>2. coll[c] \in RunningType
  <2>1. coll[c] \in RunningType \union DoneType
    BY <1>1 DEF CollsType
  <2> QED BY <1>1, <2>1 DEF DoneType
<1>3. /\ store' \in StoreType /\ store'.query = store.query /\ store'.held = store.held
      /\ store'.inflight = store.inflight
  BY <1>1, <1>2, OutcomeFacts
<1>4. PICK new : new = [coll[c] EXCEPT !.pc = "reported"]
  OBVIOUS
<1>5. /\ new \in RunningType /\ new.token = coll[c].token /\ new.retained = coll[c].retained
      /\ new.pc = "reported"
  BY <1>2, <1>4 DEF RunningType
<1>6. coll' = [coll EXCEPT ![c] = new]
  BY <1>1, <1>4
<1>7. /\ coll' \in CollsType /\ Live' = Live /\ coll'[c] = new
      /\ \A x \in DOMAIN coll : x # c => coll'[x] = coll[x]
  BY <1>1, <1>5, <1>6, OneCollection
<1>8. store.inflight # 0 => store.inflight \in DOMAIN coll
  BY <1>1 DEF InFlight, Live, LiveIn
<1>9. StoreOK'
  <2>1. InHand(store', Live')
    BY <1>1, <1>3, <1>7 DEF InHand
  <2>2. InFlight(store', coll', Live')
    BY <1>1, <1>3, <1>5, <1>7, <1>8 DEF InFlight
  <2> QED BY <1>1, <1>3, <1>7, <2>1, <2>2 DEF StoreOK
<1>10. Quiet(store', coll') => Quiet(store, coll)
  BY <1>3, <1>5, <1>7, <1>8 DEF Quiet
<1> QED BY <1>1, <1>3, <1>7, <1>9, <1>10, UntoldStep

(* However a collection ends: nothing else than its outcome changes.       *)
LEMMA EndingStep ==
    ASSUME PanelInv, NEW c \in 1 .. Len(coll), NEW s \in StoreType,
           s.held = store.held, s.query = store.query, s.inflight = store.inflight,
           Ending(c, s)
    PROVE  PanelInv' /\ Advances
<1>1. /\ coll \in CollsType /\ token \in Nat /\ StoreOK
      /\ InHand(store, Live) /\ InFlight(store, coll, Live)
      /\ token' = token /\ c \in DOMAIN coll
  BY DEF PanelInv, StoreOK, Ending, CollsType
<1>2. PICK ready \in BOOLEAN : ready = (s.status = "ready")
  BY Zenon
<1>3. PICK new : new = [pc |-> "done", token |-> coll[c].token, ready |-> ready]
  OBVIOUS
<1>4. new \in DoneType /\ new.token = coll[c].token
  <2>1. coll[c] \in RunningType \union DoneType
    BY <1>1 DEF CollsType
  <2>2. coll[c].token \in Nat
    BY <2>1 DEF RunningType, DoneType
  <2> QED BY <1>2, <1>3, <2>2 DEF DoneType
<1>5. coll' = [coll EXCEPT ![c] = new]
  <2>1. coll' = [coll EXCEPT ![c] = [pc |-> "done", token |-> coll[c].token, ready |-> s.status = "ready"]]
    BY DEF Ending
  <2> QED BY <1>2, <1>3, <2>1, Zenon
<1>6. /\ coll' \in CollsType /\ Live' = Live
      /\ \A x \in DOMAIN coll : x # c => coll'[x] = coll[x]
  BY <1>1, <1>4, <1>5, OneCollection
<1>7. CASE store.inflight = c
  <2>1. PICK idle : idle = [s EXCEPT !.inflight = 0]
    OBVIOUS
  <2>2. store' = idle /\ panel' = AllHeard(panel, store')
    BY <1>7, <2>1 DEF Ending
  <2>3. /\ idle \in StoreType /\ idle.query = store.query /\ idle.held = store.held
        /\ idle.inflight = 0
    BY <2>1 DEF StoreType
  <2>4. StoreOK'
    BY <1>1, <1>6, <2>2, <2>3 DEF StoreOK, InHand, InFlight
  <2> QED BY <1>6, <2>2, <2>3, <2>4, ToldStep
<1>8. CASE store.inflight # c
  <2>1. store' = s /\ panel' = panel
    BY <1>8 DEF Ending
  <2>2. store.inflight # 0 => store.inflight \in DOMAIN coll
    BY <1>1 DEF InFlight, Live, LiveIn
  <2>3. InHand(store', Live') /\ InFlight(store', coll', Live')
    BY <1>1, <1>6, <1>8, <2>1, <2>2 DEF InHand, InFlight
  <2>4. StoreOK'
    BY <1>1, <1>6, <2>1, <2>3 DEF StoreOK
  <2>5. Quiet(store', coll') => Quiet(store, coll)
    BY <1>6, <1>8, <2>1, <2>2 DEF Quiet
  <2> QED BY <1>6, <2>1, <2>4, <2>5, UntoldStep
<1> QED BY <1>7, <1>8

LEMMA FinishStep ==
    ASSUME PanelInv, NEW c \in 1 .. Len(coll), Finish(c) \/ Discard(c) \/ Fail(c)
    PROVE  PanelInv' /\ Advances
<1>1. store \in StoreType
  BY DEF PanelInv, StoreOK
<1>2. CASE Finish(c) \/ Discard(c)
  <2>1. Ending(c, store)
    BY <1>2 DEF Finish, Discard
  <2> QED BY <1>1, <2>1, EndingStep
<1>3. CASE Fail(c)
  <2>1. PICK limited \in BOOLEAN :
          Ending(c, [store EXCEPT !.status = "error", !.limited = limited,
                                  !.collecting = @ /\ coll[c].retained # 0])
    BY <1>3, Zenon DEF Fail
  <2>2. PICK collecting \in BOOLEAN : collecting = (store.collecting /\ coll[c].retained # 0)
    BY Zenon
  <2>3. PICK s : s = [store EXCEPT !.status = "error", !.limited = limited, !.collecting = collecting]
    OBVIOUS
  <2>4. Ending(c, s)
    BY <2>1, <2>2, <2>3, Zenon
  <2>5. s \in StoreType /\ s.held = store.held /\ s.query = store.query /\ s.inflight = store.inflight
    BY <1>1, <2>3 DEF StoreType
  <2> QED BY <2>4, <2>5, EndingStep
<1> QED BY <1>2, <1>3

LEMMA ProgressStep ==
    ASSUME PanelInv, NEW c \in 1 .. Len(coll), Progress(c)
    PROVE  PanelInv' /\ Advances
<1>1. store' = store /\ coll' = coll /\ token' = token /\ panel' = AllHeard(panel, store')
  BY DEF Progress
<1>2. StoreOK' /\ Live' = Live
  BY <1>1 DEF PanelInv, StoreOK, Live
<1> QED BY <1>1, <1>2, ToldStep

LEMMA RetryStep ==
    ASSUME PanelInv, Retry
    PROVE  PanelInv' /\ Advances
<1>1. PICK r : r = Refreshed(store.query, TRUE, FALSE)
  OBVIOUS
<1>2. Commits(r, panel) /\ token' = token
  BY <1>1 DEF Retry
<1>3. Refreshes(r)
  <2>1. PICK q \in Queries : q = store.query
    BY DEF PanelInv, StoreOK, InHand
  <2>2. r = Refreshed(q, TRUE, FALSE)
    BY <1>1, <2>1
  <2> QED BY <2>2, RefreshedFacts DEF PanelInv
<1>4. PanelInv' /\ \A x \in Panels : Follows(panel[x], panel'[x])
  BY <1>2, <1>3, CommitsStep DEF PanelInv
<1> QED BY <1>4 DEF Advances, Follows

(* invalidateStepState(): with nothing in hand, no view and no request of  *)
(* any panel outlives the credential.                                      *)
LEMMA CutOff ==
    ASSUME NEW p, NEW id, NEW live, PanelOK(p, id, live), NEW s, InHand(s, live), s.held = None,
           Based(p, s), NEW q, q = Broadcast(NoSteps(p), s), NEW live1
    PROVE  PanelOK(q, DatasetId(s), live1) /\ Follows(p, q) /\ Based(q, s)
<1>1. PICK d : d = NoSteps(p)
  OBVIOUS
<1>2. /\ PanelOK(d, id, live) /\ Follows(p, d) /\ d.tasks = p.tasks
      /\ d.timelineBase = p.timelineBase /\ d.stepBase = None
      /\ d.timelineGeneration = p.timelineGeneration /\ d.timeline = p.timeline
      /\ d.steps = None /\ d.run = None
      /\ d.stepGeneration = p.stepGeneration + 1 /\ d.runGeneration = p.runGeneration + 1
  BY <1>1, NoStepsFacts
<1>3. d.timelineBase = None /\ d.timeline = None
  <2>1. DatasetId(s) = None /\ BaseKey(s)[1] = DatasetId(s)
    BY BaseFacts
  <2>2. ASSUME p.timelineBase = BaseKey(s) PROVE p.timelineBase = None
    <3>1. p.timelineBase # None => p.timelineBase[1] \in DatasetIds
      BY DEF PanelOK, PanelType, Bases
    <3> QED BY <2>1, <2>2, <3>1, NullAssumption
  <2> QED BY <1>2, <2>2 DEF Based, PanelOK, TimelineOK
<1>4. q = [d EXCEPT !.frame = [dataset |-> DatasetId(s), timeline |-> d.timeline,
                               steps |-> d.steps, run |-> d.run, outlived |-> d.outlived]]
  BY <1>1, <1>2, <1>3 DEF Broadcast
<1>5. DOMAIN d = PanelFields
  BY <1>2 DEF PanelOK, PanelType
<1>6. /\ DOMAIN q = PanelFields /\ q.request = d.request /\ q.settings = d.settings
      /\ q.applies = d.applies /\ q.periodViews = d.periodViews /\ q.gridViews = d.gridViews
      /\ q.timeline = None /\ q.timelineBase = None
      /\ q.timelineStatus = d.timelineStatus
      /\ q.timelineGeneration = d.timelineGeneration
      /\ q.steps = None /\ q.stepBase = None /\ q.stepGeneration = d.stepGeneration
      /\ q.run = None /\ q.runGeneration = d.runGeneration /\ q.tasks = d.tasks
      /\ q.frame.timeline = None /\ q.frame.steps = None /\ q.frame.run = None
  BY <1>2, <1>3, <1>4, <1>5 DEF PanelFields
<1>7. PanelType(q)
  <2>1. q.request \in BOOLEAN /\ q.settings \in BOOLEAN
    BY <1>2, <1>6, Zenon DEF PanelOK, PanelType
  <2> QED BY <1>2, <1>6, <2>1 DEF PanelOK, PanelType
<1>8. TimelineOK(q, DatasetId(s), live1)
  BY <1>2, <1>3, <1>6 DEF PanelOK, TimelineOK
<1>9. \A t \in p.tasks :
        /\ t.kind = "steps" => t.generation < q.stepGeneration
        /\ t.kind = "run" => t.generation < q.runGeneration
  <2> SUFFICES ASSUME NEW t \in p.tasks
               PROVE  /\ t.kind = "steps" => t.generation < q.stepGeneration
                      /\ t.kind = "run" => t.generation < q.runGeneration
    OBVIOUS
  <2>1. /\ t.kind = "steps" => t.generation <= p.stepGeneration
        /\ t.kind = "run" => t.generation <= p.runGeneration
        /\ t.generation \in Nat /\ p.runGeneration \in Nat /\ p.stepGeneration \in Nat
    BY DEF PanelOK, PanelType, TaskType, StepsOK, RunOK
  <2> QED BY <1>2, <1>6, <2>1
<1>10. \A t \in p.tasks : t.generation \in Nat
  BY DEF PanelOK, PanelType, TaskType
<1>11. q.stepGeneration \in Nat /\ q.runGeneration \in Nat
  BY <1>7 DEF PanelType
<1>12. StepsOK(q, DatasetId(s), live1)
  BY <1>2, <1>6, <1>9, <1>10, <1>11 DEF StepsOK
<1>13. RunOK(q, DatasetId(s), live1)
  BY <1>2, <1>6, <1>9, <1>10, <1>11 DEF RunOK
<1>14. FrameOK(q, DatasetId(s))
  BY <1>6 DEF FrameOK
<1>15. Follows(d, q)
  BY <1>2, <1>3, <1>6 DEF Follows, Moves, LoadOK, PanelOK, PanelType
<1>16. Follows(p, q)
  BY <1>2, <1>7, <1>15, FollowsIsTransitive DEF PanelOK
<1> QED BY <1>6, <1>7, <1>8, <1>12, <1>13, <1>14, <1>16 DEF PanelOK, Based

(* A panel that is sound for the dataset in hand asks nothing of the bases *)
(* that are of none.                                                       *)
LEMMA OfNoDataset ==
    ASSUME NEW p, NEW id, NEW live, PanelOK(p, id, live),
           NEW other, other \notin DatasetIds \union {None}
    PROVE  PanelOK(p, other, live)
<1>1. /\ p.timelineBase # None => p.timelineBase[1] # other
      /\ p.stepBase # None => p.stepBase[3] # other
  BY DEF PanelOK, PanelType, Bases, StepBases
<1>2. TimelineOK(p, other, live)
  BY <1>1 DEF PanelOK, TimelineOK, IsOf
<1>3. StepsOK(p, other, live)
  BY <1>1 DEF PanelOK, StepsOK, IsOf
<1>4. RunOK(p, other, live)
  BY <1>1 DEF PanelOK, RunOK, IsOf
<1> QED BY <1>2, <1>3, <1>4 DEF PanelOK, FrameOK

LEMMA ChangeTokenStep ==
    ASSUME PanelInv, ChangeToken
    PROVE  PanelInv' /\ Advances
<1>1. /\ store \in StoreType /\ coll \in CollsType /\ token \in Nat
      /\ InHand(store, Live)
  BY DEF PanelInv, StoreOK
<1>2. PICK s : s = [store EXCEPT !.status = "idle", !.limited = FALSE, !.held = None,
                                 !.collecting = FALSE, !.inflight = 0]
  OBVIOUS
<1>3. /\ store' = s /\ coll' = coll /\ token' = token + 1
      /\ panel' = [x \in Panels |-> Broadcast(NoSteps(Heard(panel[x], s)), s)]
  BY <1>2 DEF ChangeToken
<1>4. /\ s \in StoreType /\ s.query = store.query /\ s.held = None /\ s.inflight = 0
  BY <1>1, <1>2 DEF StoreType
<1>5. \A live : InHand(s, live)
  BY <1>1, <1>4 DEF InHand
<1>6. StoreOK'
  BY <1>1, <1>3, <1>4, <1>5 DEF StoreOK, InFlight
<1>7. PICK live1 : live1 = Live'
  OBVIOUS
<1>8. PICK other : other \notin DatasetIds \union {None}
  BY NoSetContainsEverything
<1>9. ASSUME NEW x \in Panels
      PROVE  Sound(panel'[x], s, coll', live1) /\ Moves(panel[x], panel'[x])
  <2>1. PICK a : a = panel[x] /\ Sound(a, store, coll, Live)
    BY DEF PanelInv
  <2>2. PanelOK(a, other, Live)
    BY <1>8, <2>1, OfNoDataset DEF Sound
  <2>3. PICK b : b = Heard(a, s)
    OBVIOUS
  <2>4. PanelOK(b, other, Live) /\ Follows(a, b) /\ Based(b, s)
    BY <1>5, <1>8, <2>2, <2>3, HeardFacts DEF Of
  <2>5. PICK q : q = Broadcast(NoSteps(b), s)
    OBVIOUS
  <2>6. PanelOK(q, DatasetId(s), live1) /\ Follows(b, q) /\ Based(q, s)
    BY <1>4, <1>5, <2>4, <2>5, CutOff
  <2>7. Follows(a, q)
    BY <2>2, <2>4, <2>6, FollowsIsTransitive DEF PanelOK
  <2>8. Sound(q, s, coll', live1)
    BY <2>1, <2>6, <2>7, FollowingRestores DEF Sound, Follows
  <2>9. panel'[x] = q /\ panel[x] = a
    BY <1>3, <2>1, <2>3, <2>5
  <2> QED BY <2>7, <2>8, <2>9 DEF Follows
<1>10. DOMAIN panel' = Panels
  BY <1>3
<1> QED BY <1>3, <1>6, <1>7, <1>9, <1>10 DEF PanelInv, Advances

LEMMA PanelStart == ASSUME PanelInit PROVE PanelInv
<1>1. PICK q0 : q0 = FirstQuery /\ q0 \in Queries
  BY PanelAssumption
<1>2. q0.data \in Nat /\ q0.period \in Nat /\ q0.grid \in Nat
  BY <1>1, PanelAssumption
<1>3. FirstDataset \in Datasets /\ FirstDataset.root = 1
  <2>1. PICK d, e : d = q0.data /\ e = q0.period
    OBVIOUS
  <2>2. FirstDataset = [root |-> 1, data |-> d, period |-> e]
    BY <1>1, <2>1 DEF FirstDataset
  <2> QED BY <1>2, <2>1, <2>2 DEF Datasets
<1>4. PICK held : held = FirstDataset
  OBVIOUS
<1>5. /\ store = [query |-> q0, status |-> "ready", limited |-> FALSE, held |-> held,
                  collecting |-> FALSE, inflight |-> 0]
      /\ coll = <<[pc |-> "done", token |-> 0, ready |-> TRUE]>>
      /\ token = 0
  BY <1>1, <1>4 DEF PanelInit
<1>6. /\ store \in StoreType /\ coll \in CollsType /\ coll[1].token = 0 /\ 1 \in DOMAIN coll
      /\ store.held = held /\ store.query = q0 /\ store.inflight = 0
  <2>1. PICK first : first = [pc |-> "done", token |-> 0, ready |-> TRUE]
    OBVIOUS
  <2>2. first \in DoneType /\ first.token = 0
    BY <2>1 DEF DoneType
  <2>3. coll = <<first>>
    BY <1>5, <2>1
  <2>4. coll \in CollsType /\ coll[1] = first /\ 1 \in DOMAIN coll
    BY <2>2, <2>3 DEF CollsType
  <2> QED BY <1>1, <1>3, <1>4, <1>5, <2>2, <2>4 DEF StoreType
<1>7. 1 \in Live
  BY <1>5, <1>6 DEF Live, LiveIn
<1>8. InHand(store, Live) /\ InFlight(store, coll, Live)
  BY <1>1, <1>3, <1>4, <1>6, <1>7 DEF InHand, InFlight
<1>9. StoreOK
  BY <1>5, <1>6, <1>8 DEF StoreOK
<1>10. ASSUME NEW p \in Panels PROVE Sound(panel[p], store, coll, Live)
  <2>0. PICK id, grid : id = DatasetId(store) /\ grid = FirstQuery.grid
    OBVIOUS
  <2>1. PICK q :
          /\ q = panel[p]
          /\ q = [applies |-> 0, periodViews |-> None,
                  seen |-> id, gridSeen |-> grid, gridViews |-> None,
                  request |-> FALSE, timeline |-> None, timelineStatus |-> "idle",
                  timelineBase |-> None, signature |-> None, timelineGeneration |-> 0,
                  settings |-> FALSE, steps |-> None, stepStatus |-> "idle", stepBase |-> None,
                  outlived |-> FALSE, stepGeneration |-> 0, run |-> None, runGeneration |-> 0,
                  tasks |-> {},
                  frame |-> [dataset |-> id, timeline |-> None, steps |-> None,
                             run |-> None, outlived |-> FALSE]]
    BY <2>0 DEF PanelInit
  <2>2. /\ DOMAIN q = PanelFields /\ q.applies = 0 /\ q.periodViews = None
        /\ q.gridViews = None /\ q.request = FALSE /\ q.timeline = None
        /\ q.timelineStatus = "idle" /\ q.timelineBase = None /\ q.timelineGeneration = 0
        /\ q.settings = FALSE /\ q.steps = None /\ q.stepBase = None /\ q.stepGeneration = 0
        /\ q.run = None /\ q.runGeneration = 0 /\ q.tasks = {}
        /\ q.frame.timeline = None /\ q.frame.steps = None /\ q.frame.run = None
    BY <2>1 DEF PanelFields
  <2>3. PanelType(q)
    <3>1. q.request \in BOOLEAN /\ q.settings \in BOOLEAN
      BY <2>2, Zenon
    <3> QED BY <2>2, <3>1 DEF PanelType
  <2>4. PanelOK(q, id, Live)
    BY <2>2, <2>3 DEF PanelOK, TimelineOK, StepsOK, RunOK, FrameOK
  <2>5. LoadOK(q) /\ RestoreOK(q) /\ Based(q, store)
    BY <2>2 DEF LoadOK, RestoreOK, Based
  <2> QED BY <2>0, <2>1, <2>4, <2>5 DEF Sound
<1>11. DOMAIN panel = Panels
  BY DEF PanelInit
<1> QED BY <1>9, <1>10, <1>11 DEF PanelInv

---------------------------------------------------------------------------
LEMMA AdvancesProceeds == ASSUME PanelInv, PanelInv', Advances PROVE Proceeds
<1> SUFFICES ASSUME NEW x \in Panels PROVE Shows(panel[x], panel'[x])
  BY DEF Proceeds
<1>1. PanelType(panel[x]) /\ PanelType(panel'[x])
  BY DEF PanelInv, Sound, PanelOK
<1>2. Moves(panel[x], panel'[x])
  BY DEF Advances
<1> QED BY <1>1, <1>2, ShowsMoves

(* Every step keeps the invariant, and makes every view progress.          *)
LEMMA PanelStep ==
    ASSUME PanelInv, [PanelNext]_panelVars
    PROVE  PanelInv' /\ Proceeds
<1>1. ASSUME NEW p \in Panels, Request(p) PROVE PanelInv' /\ Advances
  <2>1. ASSUME NEW q \in Queries, Apply(p, q, FALSE, FALSE) PROVE PanelInv' /\ Advances
    BY <2>1, ApplyStep
  <2>2. ASSUME NEW bypass \in BOOLEAN, Apply(p, store.query, TRUE, bypass)
        PROVE  PanelInv' /\ Advances
    <3>1. PICK q \in Queries : q = store.query
      BY DEF PanelInv, StoreOK, InHand
    <3>2. Apply(p, q, TRUE, bypass)
      BY <2>2, <3>1
    <3> QED BY <3>2, ApplyStep
  <2> QED BY <1>1, <2>1, <2>2, AskTimelineStep, ClearTimelineStep, AskStepsStep,
             GetStepMetricsStep, AskRunStep, ClearRunStep DEF Request
<1>2. ASSUME NEW p \in Panels, Resume(p) PROVE PanelInv' /\ Proceeds
  <2>1. PICK t \in panel[p].tasks :
          \/ OpenDataset(p, t) \/ ResumeRestore(p, t)
          \/ ApplyDone(p, t) \/ Acquire(p, t) \/ End(p, t)
    BY <1>2 DEF Resume
  <2>2. CASE End(p, t)
    BY <2>2, EndStep
  <2>3. CASE OpenDataset(p, t) \/ ResumeRestore(p, t) \/ ApplyDone(p, t) \/ Acquire(p, t)
    <3>1. PanelInv' /\ Advances
      BY <2>3, OpenDatasetStep, ResumeRestoreStep, ApplyDoneStep, AcquireStep
    <3> QED BY <3>1, AdvancesProceeds
  <2> QED BY <2>1, <2>2, <2>3
<1>3. ASSUME Collecting PROVE PanelInv' /\ Advances
  BY <1>3, CollectStep, ReportStep, FinishStep, ProgressStep DEF Collecting
<1>4. ASSUME UNCHANGED panelVars PROVE PanelInv' /\ Advances
  <2>1. store' = store /\ coll' = coll /\ panel' = panel /\ token' = token
    BY <1>4 DEF panelVars
  <2>2. PanelInv'
    BY <2>1 DEF PanelInv, StoreOK, Live
  <2> QED BY <2>1, <2>2, MovesItself DEF Advances, PanelInv, Sound
<1> QED BY <1>1, <1>2, <1>3, <1>4, AdvancesProceeds, RetryStep, ChangeTokenStep DEF PanelNext

THEOREM PanelInvariant == PanelSpec => []PanelInv
<1>1. PanelInit => PanelInv
  BY PanelStart
<1>2. PanelInv /\ [PanelNext]_panelVars => PanelInv'
  BY PanelStep
<1> QED BY <1>1, <1>2, PTL DEF PanelSpec

(* A projection is never drawn beside the metrics of another period or     *)
(* collection, nor statistics of steps or a run, but what a step request   *)
(* outlives that was sent between a change of metrics and the news of it;  *)
(* the answer to the latest step request never is: baseKey, stepBaseKey    *)
(* and the generations of lib/instance.mjs.                                *)
THEOREM FramesBelongTogether == PanelSpec => []FramesAreConsistent
<1>1. PanelInv => FramesAreConsistent
  <2> SUFFICES ASSUME PanelInv, NEW p \in Panels
               PROVE  LET f == panel[p].frame IN
                      /\ f.timeline # None => f.timeline.from = f.dataset
                      /\ \A answer \in {f.steps, f.run} :
                           answer # None /\ ~f.outlived => answer.from = f.dataset
                      /\ f.steps # None /\ f.steps.of = panel[p].stepGeneration =>
                           f.steps.from = f.dataset
    BY DEF FramesAreConsistent
  <2>1. FrameOK(panel[p], DatasetId(store))
    BY DEF PanelInv, Sound, PanelOK
  <2>2. DatasetId(store) \in DatasetIds \union {None}
    BY BaseFacts DEF PanelInv, StoreOK
  <2> QED BY <2>1, <2>2 DEF FrameOK
<1> QED BY <1>1, PanelInvariant, PTL

(* Nothing that was read under a replaced credential stays on a panel, nor *)
(* arrives on it later (invalidateStepState, invalidateAuthCaches).        *)
THEOREM ViewsAreOfTheToken == PanelSpec => []ShownIsOfTheToken
<1>1. PanelInv => ShownIsOfTheToken
  <2> SUFFICES ASSUME PanelInv, NEW p \in Panels,
                      NEW answer \in {panel[p].timeline, panel[p].steps, panel[p].run},
                      answer # None
               PROVE  coll[answer.from[1]].token = token
    BY DEF ShownIsOfTheToken
  <2>1. PICK q : q = panel[p] /\ PanelOK(q, DatasetId(store), Live)
    BY DEF PanelInv, Sound
  <2>2. answer.from[1] \in Live
    <3>1. q.timeline # None => q.timeline.from[1] \in Live
      BY <2>1 DEF PanelOK, TimelineOK, IsOf
    <3>2. q.steps # None => q.steps.from[1] \in Live
      BY <2>1 DEF PanelOK, StepsOK
    <3>3. q.run # None => q.run.from[1] \in Live
      BY <2>1 DEF PanelOK, RunOK
    <3> QED BY <2>1, <3>1, <3>2, <3>3
  <2> QED BY <2>2 DEF Live, LiveIn
<1> QED BY <1>1, PanelInvariant, PTL

(* A panel in which nothing is suspended has nothing left to wait for: its *)
(* projection is not loading, and it is not restoring its views.           *)
THEOREM NothingIsLeftWaiting == PanelSpec => []IdlePanelsAreSettled
<1>1. PanelInv => IdlePanelsAreSettled
  BY DEF PanelInv, Sound, LoadOK, RestoreOK, IdlePanelsAreSettled
<1> QED BY <1>1, PanelInvariant, PTL

---------------------------------------------------------------------------
(* The views of a panel as boards: what each was asked last, and the       *)
(* request whose answer it shows.                                          *)
AskedOf(p, view) ==
    CASE view = "timeline" -> p.timelineGeneration
      [] view = "steps" -> p.stepGeneration
      [] OTHER -> p.runGeneration
ShownOn(p, view) ==
    CASE view = "timeline" -> NumberOf(p.timeline)
      [] view = "steps" -> NumberOf(p.steps)
      [] OTHER -> NumberOf(p.run)

LEMMA BoardTypes ==
    ASSUME NEW p, PanelType(p), NEW view \in {"timeline", "steps", "run"}
    PROVE  AskedOf(p, view) \in Nat /\ ShownOn(p, view) \in Nat
<1>1. \A answer \in Answers \union {None} : NumberOf(answer) \in Nat
  BY DEF NumberOf, Answers
<1>2. AskedOf(p, view) \in Nat
  BY DEF AskedOf, PanelType
<1>3. ShownOn(p, view) \in {NumberOf(p.timeline), NumberOf(p.steps), NumberOf(p.run)}
  BY DEF ShownOn
<1> QED BY <1>1, <1>2, <1>3 DEF PanelType

LEMMA LaneIsABoard ==
    ASSUME NEW g \in Nat, NEW v, NEW g1 \in Nat, NEW v1, Lane(g, v, g1, v1)
    PROVE  \/ g1 > g /\ NumberOf(v1) \in {NumberOf(v), 0}
           \/ g1 = g /\ NumberOf(v1) = g
           \/ g1 = g /\ NumberOf(v1) \in {NumberOf(v), 0}
BY DEF Lane, NumberOf

LEMMA ViewIsABoard ==
    ASSUME NEW p, NEW q, PanelType(p), PanelType(q), Shows(p, q),
           NEW view \in {"timeline", "steps", "run"}
    PROVE  \/ AskedOf(q, view) > AskedOf(p, view) /\ ShownOn(q, view) \in {ShownOn(p, view), 0}
           \/ AskedOf(q, view) = AskedOf(p, view) /\ ShownOn(q, view) = AskedOf(p, view)
           \/ AskedOf(q, view) = AskedOf(p, view) /\ ShownOn(q, view) \in {ShownOn(p, view), 0}
<1>1. CASE view = "timeline"
  BY <1>1, LaneIsABoard, SMTT(40) DEF AskedOf, ShownOn, Shows, PanelType
<1>2. CASE view = "steps"
  BY <1>2, LaneIsABoard, SMTT(40) DEF AskedOf, ShownOn, Shows, PanelType
<1>3. CASE view = "run"
  BY <1>3, LaneIsABoard DEF AskedOf, ShownOn, Shows, PanelType
<1> QED BY <1>1, <1>2, <1>3

(* Each view shows the answer to its latest request or none, whatever      *)
(* order the answers arrive in: project(), setStepMetrics(),               *)
(* setStepError() and setRunTimeline() of lib/instance.mjs.                *)
THEOREM ViewsAreBoards == PanelSpec => PanelImplementsBoard
<1> DEFINE asked == [l \in Lanes |->
               CASE l[2] = "timeline" -> panel[l[1]].timelineGeneration
                 [] l[2] = "steps" -> panel[l[1]].stepGeneration
                 [] OTHER -> panel[l[1]].runGeneration]
           shown == [l \in Lanes |->
               CASE l[2] = "timeline" -> NumberOf(panel[l[1]].timeline)
                 [] l[2] = "steps" -> NumberOf(panel[l[1]].steps)
                 [] OTHER -> NumberOf(panel[l[1]].run)]
<1>1. /\ asked = [l \in Lanes |-> AskedOf(panel[l[1]], l[2])]
      /\ shown = [l \in Lanes |-> ShownOn(panel[l[1]], l[2])]
  BY DEF AskedOf, ShownOn
<1>2. /\ asked' = [l \in Lanes |-> AskedOf(panel'[l[1]], l[2])]
      /\ shown' = [l \in Lanes |-> ShownOn(panel'[l[1]], l[2])]
  BY DEF AskedOf, ShownOn
<1>3. PanelInit => Board!BoardInit
  <2> SUFFICES ASSUME PanelInit PROVE asked = [l \in Lanes |-> 0] /\ shown = [l \in Lanes |-> 0]
    BY DEF Board!BoardInit
  <2> HIDE DEF asked, shown
  <2>1. ASSUME NEW l \in Lanes
        PROVE  AskedOf(panel[l[1]], l[2]) = 0 /\ ShownOn(panel[l[1]], l[2]) = 0
    <3>1. l[1] \in Panels /\ l[2] \in {"timeline", "steps", "run"}
      BY DEF Lanes
    <3>2. PICK q : q = panel[l[1]]
      OBVIOUS
    <3>3. /\ q.timelineGeneration = 0 /\ q.stepGeneration = 0 /\ q.runGeneration = 0
          /\ q.timeline = None /\ q.steps = None /\ q.run = None
      BY <3>1, <3>2 DEF PanelInit
    <3> QED BY <3>1, <3>2, <3>3 DEF AskedOf, ShownOn, NumberOf
  <2> QED BY <1>1, <2>1
<1>4. ASSUME PanelInv, PanelInv', Proceeds PROVE Board!BoardNext
  <2>1. ASSUME NEW l \in Lanes
        PROVE  /\ l[1] \in Panels /\ l[2] \in {"timeline", "steps", "run"}
               /\ PanelType(panel[l[1]]) /\ PanelType(panel'[l[1]])
               /\ Shows(panel[l[1]], panel'[l[1]])
    BY <1>4 DEF Lanes, PanelInv, Sound, PanelOK, Proceeds
  <2>2. asked' \in [Lanes -> Nat] /\ shown' \in [Lanes -> Nat]
    <3> HIDE DEF asked, shown
    <3> QED BY <1>2, <2>1, BoardTypes
  <2>3. ASSUME NEW l \in Lanes
        PROVE  \/ asked'[l] > asked[l] /\ shown'[l] \in {shown[l], 0}
               \/ asked'[l] = asked[l] /\ shown'[l] = asked[l]
               \/ asked'[l] = asked[l] /\ shown'[l] \in {shown[l], 0}
    <3>1. PICK p, q, view :
            /\ p = panel[l[1]] /\ q = panel'[l[1]] /\ view = l[2]
            /\ view \in {"timeline", "steps", "run"}
      BY <2>1
    <3> HIDE DEF asked, shown
    <3>2. /\ asked[l] = AskedOf(p, view) /\ shown[l] = ShownOn(p, view)
          /\ asked'[l] = AskedOf(q, view) /\ shown'[l] = ShownOn(q, view)
      BY <1>1, <1>2, <3>1
    <3>3. PanelType(p) /\ PanelType(q) /\ Shows(p, q)
      BY <2>1, <3>1
    <3>4. view \in {"timeline", "steps", "run"}
      BY <3>1
    <3> QED BY <3>2, <3>3, <3>4, ViewIsABoard
  <2> QED BY <2>2, <2>3 DEF Board!BoardNext, Board!Ask, Board!Answer, Board!Drop
<1>5. PanelInv /\ [PanelNext]_panelVars => [Board!BoardNext]_<<asked, shown>>
  BY <1>4, PanelStep
<1>6. QED
  BY <1>3, <1>5, PanelInvariant, PTL DEF PanelSpec, PanelImplementsBoard, Board!BoardSpec

===========================================================================
