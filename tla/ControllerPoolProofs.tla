-------------------------- MODULE ControllerPoolProofs --------------------------
(***************************************************************************)
(* Proofs about ControllerPool: for every number of replicas (several only *)
(* with leader election), every number of workers and of Extensions.       *)
(***************************************************************************)
EXTENDS ControllerPool, FiniteSetTheorems, SequenceTheorems, TLAPS

-----------------------------------------------------------------------------
(* The workqueue.                                                           *)

(* The queue's items after one is added or taken.                           *)
LEMMA AppendRange ==
    ASSUME NEW S, NEW q \in Seq(S), NEW x \in S
    PROVE  /\ Append(q, x) \in Seq(S)
           /\ Range(Append(q, x)) = Range(q) \union {x}
           /\ x \notin Range(q) /\ IsInjective(q) => IsInjective(Append(q, x))
BY DEF Range, IsInjective

LEMMA TailRange ==
    ASSUME NEW S, NEW q \in Seq(S), q # <<>>
    PROVE  /\ Tail(q) \in Seq(S)
           /\ Range(q) = Range(Tail(q)) \union {Head(q)}
           /\ IsInjective(q) => /\ IsInjective(Tail(q))
                                /\ Head(q) \notin Range(Tail(q))
<1>1. /\ Tail(q) \in Seq(S) /\ Head(q) = q[1] /\ Len(q) \in Nat \ {0}
      /\ DOMAIN q = 1..Len(q) /\ DOMAIN Tail(q) = 1..(Len(q) - 1)
      /\ \A i \in 1..(Len(q) - 1) : Tail(q)[i] = q[i + 1]
  OBVIOUS
<1>2. \A i \in DOMAIN q : i = 1 \/ i - 1 \in DOMAIN Tail(q)
  BY <1>1
<1>3. \A i \in DOMAIN q : i = 1 \/ q[i] = Tail(q)[i - 1]
  BY <1>1
<1>4. \A i \in DOMAIN Tail(q) : i + 1 \in DOMAIN q /\ i + 1 # 1
  BY <1>1
<1>5. Range(q) \subseteq Range(Tail(q)) \union {Head(q)}
  BY <1>1, <1>2, <1>3 DEF Range
<1>6. Range(Tail(q)) \union {Head(q)} \subseteq Range(q)
  BY <1>1, <1>4 DEF Range
<1>7. IsInjective(q) => IsInjective(Tail(q))
  BY <1>1, <1>4 DEF IsInjective
<1>8. IsInjective(q) => Head(q) \notin Range(Tail(q))
  BY <1>1, <1>4 DEF IsInjective, Range
<1> QED
  BY <1>1, <1>5, <1>6, <1>7, <1>8

(* Adding an item loses none and leaves the workers alone.                  *)
LEMMA EnqueueKeeps ==
    ASSUME NEW w \in WorkState, NEW x \in Extensions, WellFormed(w)
    PROVE  /\ Enqueue(w, x) \in WorkState /\ WellFormed(Enqueue(w, x))
           /\ Pending(Enqueue(w, x), x)
           /\ \A y : Pending(w, y) => Pending(Enqueue(w, x), y)
           /\ Enqueue(w, x).busy = w.busy
           /\ Enqueue(w, x).waiting = w.waiting
<1>1. CASE w.busy[x] # "no"
  BY <1>1 DEF Enqueue, WorkState, WellFormed, Busy, Pending
<1>2. CASE w.busy[x] = "no" /\ x \in Range(w.queue)
  BY <1>2 DEF Enqueue, Pending
<1>3. CASE w.busy[x] = "no" /\ x \notin Range(w.queue)
  <2>1. Enqueue(w, x) = [w EXCEPT !.queue = Append(w.queue, x)]
    BY <1>3 DEF Enqueue, WorkState
  <2>2. /\ Append(w.queue, x) \in Seq(Extensions)
        /\ Range(Append(w.queue, x)) = Range(w.queue) \union {x}
        /\ IsInjective(Append(w.queue, x))
    BY <1>3, AppendRange DEF WorkState, WellFormed
  <2> QED
    BY <1>3, <2>1, <2>2 DEF WorkState, WellFormed, Busy, Pending
<1> QED
  BY <1>1, <1>2, <1>3

(* So does the end of a pass, which puts what changed meanwhile back.       *)
LEMMA DoneKeeps ==
    ASSUME NEW w \in WorkState, NEW x \in Extensions, WellFormed(w),
           w.busy[x] # "no"
    PROVE  /\ Done(w, x) \in WorkState /\ WellFormed(Done(w, x))
           /\ \A y : Pending(w, y) => Pending(Done(w, x), y)
           /\ \A y \in Extensions : y # x => Done(w, x).busy[y] = w.busy[y]
           /\ Done(w, x).busy[x] = "no"
           /\ Done(w, x).waiting = w.waiting
<1>1. x \notin Range(w.queue)
  BY DEF WellFormed, Busy
<1>2. /\ Append(w.queue, x) \in Seq(Extensions)
      /\ Range(Append(w.queue, x)) = Range(w.queue) \union {x}
      /\ IsInjective(Append(w.queue, x))
  BY <1>1, AppendRange DEF WorkState, WellFormed
<1> DEFINE q == IF x \in w.again THEN Append(w.queue, x) ELSE w.queue
<1>3. Done(w, x) = [ queue |-> q, busy |-> [w.busy EXCEPT ![x] = "no"],
                     again |-> w.again \ {x}, waiting |-> w.waiting ]
  <2>1. Done(w, x) = [ w EXCEPT !.busy = [w.busy EXCEPT ![x] = "no"],
                                !.again = w.again \ {x}, !.queue = q ]
    BY DEF Done
  <2> HIDE DEF q
  <2> QED
    BY <2>1 DEF WorkState
<1>4. /\ q \in Seq(Extensions) /\ IsInjective(q)
      /\ Range(q) = IF x \in w.again THEN Range(w.queue) \union {x}
                                     ELSE Range(w.queue)
  BY <1>2 DEF WorkState, WellFormed
<1> HIDE DEF q
<1>5. /\ Done(w, x).busy[x] = "no"
      /\ \A y \in Extensions : y # x => Done(w, x).busy[y] = w.busy[y]
      /\ Done(w, x).waiting = w.waiting
  BY <1>3 DEF WorkState
<1>6. Done(w, x) \in WorkState
  BY <1>3, <1>4 DEF WorkState
<1>7. WellFormed(Done(w, x))
  <2>1. Busy(Done(w, x)) = Busy(w) \ {x}
    BY <1>5 DEF Busy
  <2>2. Range(w.queue) \intersect Busy(w) = {}
    BY DEF WellFormed
  <2>3. Range(q) \intersect (Busy(w) \ {x}) = {}
    BY <1>4, <2>2
  <2>4. Done(w, x).queue = q
    BY <1>3
  <2> QED
    BY <1>4, <2>1, <2>3, <2>4 DEF WellFormed
<1>8. \A y : Pending(w, y) => Pending(Done(w, x), y)
  BY <1>3, <1>4 DEF Pending
<1> QED
  BY <1>5, <1>6, <1>7, <1>8

LEMMA RequeuedKeeps ==
    ASSUME NEW w \in WorkState, NEW x \in Extensions, WellFormed(w),
           w.busy[x] # "no"
    PROVE  /\ Requeued(w, x) \in WorkState /\ WellFormed(Requeued(w, x))
           /\ \A y : Pending(w, y) => Pending(Requeued(w, x), y)
           /\ \A y \in Extensions : y # x => Requeued(w, x).busy[y] = w.busy[y]
           /\ Requeued(w, x).busy[x] = "no"
           /\ Requeued(w, x).waiting = w.waiting \union {x}
<1>1. Requeued(w, x) = [Done(w, x) EXCEPT !.waiting = Done(w, x).waiting \union {x}]
  BY DEF Requeued
<1> QED
  BY <1>1, DoneKeeps DEF WorkState, WellFormed, Busy, Pending

(* A worker takes the item at the head of the queue.                        *)
LEMMA TakeKeeps ==
    ASSUME NEW w \in WorkState, WellFormed(w), w.queue # <<>>,
           NEW x, x = Head(w.queue)
    PROVE  /\ x \in Extensions
           /\ [w EXCEPT !.queue = Tail(@)] \in WorkState
           /\ WellFormed([w EXCEPT !.queue = Tail(@)])
           /\ \A y : y # x /\ Pending(w, y)
                       => Pending([w EXCEPT !.queue = Tail(@)], y)
           /\ x \notin Range(Tail(w.queue))
<1>1. /\ Tail(w.queue) \in Seq(Extensions)
      /\ Range(w.queue) = Range(Tail(w.queue)) \union {x}
      /\ IsInjective(Tail(w.queue)) /\ x \notin Range(Tail(w.queue))
  BY TailRange DEF WorkState, WellFormed
<1>2. x \in Extensions
  BY DEF WorkState
<1> QED
  BY <1>1, <1>2 DEF WorkState, WellFormed, Busy, Pending

-----------------------------------------------------------------------------
(* The inductive invariant.                                                 *)

OneLeader ==
    \A r, s \in Replicas : (proc[r] = "leading" /\ proc[s] = "leading") => r = s

OnlyLeaderWorks == \A r \in Replicas : proc[r] # "leading" => work[r] = NoWork

SetUp == \A r \in Replicas :
            proc[r] \in {"standby", "leading"} => "extensions" \in parts[r]

PoolInv == TypeOK /\ OneLeader /\ OnlyLeaderWorks /\ SetUp /\ NothingForgotten

(* What the command line becomes.                                           *)
LEMMA Settings ==
    ASSUME flags \in Flags
    PROVE  /\ Manager(flags).leaderElection = flags.leaderElection
           /\ Controller.ignoring = flags.ignoreOperationAnnotation
           /\ Controller.predicates = {}
           /\ flags.leaderElection \in BOOLEAN
           /\ flags.ignoreOperationAnnotation \in BOOLEAN
<1>1. /\ flags.leaderElection \in BOOLEAN
      /\ flags.ignoreOperationAnnotation \in BOOLEAN
  BY PoolAssumption
<1>2. /\ Given(RunOptions(flags), "predicates", {}) = {}
      /\ Given(RunOptions(flags), "ignoreOperationAnnotation", FALSE)
           = flags.ignoreOperationAnnotation
  BY DEF Given, RunOptions
<1> QED
  BY <1>1, <1>2 DEF Manager, Controller, Controllers, NewController

LEMMA NoWorkTyped == NoWork \in WorkState /\ WellFormed(NoWork)
BY DEF NoWork, WorkState, WellFormed, Busy, Range, IsInjective

(* w is what the queues may become in a step that is about x.               *)
Only(w, x) ==
    /\ w \in [Replicas -> WorkState]
    /\ \A r \in Replicas : /\ WellFormed(w[r])
                           /\ proc[r] # "leading" => w[r] = NoWork
    /\ \A r \in Replicas, y \in Extensions : y # x =>
         /\ Pending(work[r], y) => Pending(w[r], y)
         /\ w[r].busy[y] = work[r].busy[y]
         /\ y \in work[r].waiting => y \in w[r].waiting

(* With x as e, a change that is left has a pass coming.                    *)
Kept(w, e, x) ==
    e.phase \in {"new", "live"} /\ e.change # "none" =>
        Passes(e, "listed") \/ \E r \in Replicas : Tracked(w[r], x)

(* The step is about x, and x is attended to after it.                      *)
Attends(x) ==
    /\ Only(work', x) /\ UNCHANGED flags
    /\ \A y \in Extensions : y # x => ext'[y] = ext[y]
    /\ ~Unattended(x)'

LEMMA KeptAttended ==
    ASSUME NEW x \in Extensions, UNCHANGED flags, Kept(work', ext'[x], x)
    PROVE  ~Unattended(x)'
<1>1. Controller' = Controller
  BY DEF Controller, Controllers
<1> QED
  BY <1>1 DEF Kept, Unattended, Passes, DefaultPredicates, Tracked, Pending

(* A step about x keeps the invariant if x itself is remembered.            *)
LEMMA StepAboutOne ==
    ASSUME PoolInv, NEW x \in Extensions, Only(work', x),
           UNCHANGED <<flags, proc, parts>>, calm' \in BOOLEAN,
           ext' \in [Extensions -> ExtensionState],
           \A y \in Extensions : y # x => ext'[y] = ext[y],
           \A r \in Replicas : proc[r] = "leading" =>
             ext'[x].phase = "absent" \/ Remembered(work'[r], ext'[x], x),
           Kept(work', ext'[x], x)
    PROVE  PoolInv' /\ Attends(x)
<1>1. TypeOK'
  BY DEF PoolInv, TypeOK, Only
<1>2. OneLeader' /\ SetUp'
  BY DEF PoolInv, OneLeader, SetUp
<1>3. OnlyLeaderWorks'
  BY DEF OnlyLeaderWorks, Only
<1>4. NothingForgotten'
  <2> SUFFICES ASSUME NEW r \in Replicas, NEW y \in Extensions,
                      proc[r] = "leading", ext'[y].phase # "absent"
               PROVE  Remembered(work[r], ext[y], y)'
    BY DEF NothingForgotten
  <2>1. CASE y = x
    BY <2>1 DEF Remembered, Tracked, Pending
  <2>2. CASE y # x
    <3>1. Remembered(work[r], ext[y], y) /\ ext'[y] = ext[y]
      BY <2>2 DEF PoolInv, NothingForgotten
    <3>2. /\ Pending(work[r], y) => Pending(work'[r], y)
          /\ work'[r].busy[y] = work[r].busy[y]
          /\ y \in work[r].waiting => y \in work'[r].waiting
      BY <2>2 DEF Only
    <3> QED
      BY <3>1, <3>2 DEF Remembered, Tracked, Pending
  <2> QED
    BY <2>1, <2>2
<1>5. Attends(x)
  BY KeptAttended DEF Attends
<1> QED
  BY <1>1, <1>2, <1>3, <1>4, <1>5 DEF PoolInv

(* So does a step that publishes x as e, if the event gets through or x is  *)
(* remembered without it.                                                   *)
LEMMA PublishedStep ==
    ASSUME PoolInv, NEW x \in Extensions, NEW e \in ExtensionState, NEW event,
           NEW w, Only(w, x), Publish(x, e, event, w),
           UNCHANGED <<flags, proc, parts, calm>>,
           \A r \in Replicas : proc[r] = "leading" =>
             e.phase = "absent" \/ Passes(e, event) \/ Remembered(w[r], e, x),
           Kept(w, e, x)
    PROVE  PoolInv' /\ Attends(x)
<1> USE DEF PoolInv
<1>1. /\ ext' \in [Extensions -> ExtensionState] /\ ext'[x] = e
      /\ \A y \in Extensions : y # x => ext'[y] = ext[y]
  BY DEF Publish, TypeOK
<1>2. \A r \in Replicas :
        work'[r] = IF Watching(r) /\ Passes(e, event) THEN Enqueue(w[r], x)
                                                      ELSE w[r]
  BY DEF Publish
<1>3. \A r \in Replicas : w[r] \in WorkState /\ WellFormed(w[r])
  BY DEF Only
<1>4. \A r \in Replicas :
        /\ work'[r] \in WorkState /\ WellFormed(work'[r])
        /\ \A y : Pending(w[r], y) => Pending(work'[r], y)
        /\ work'[r].busy = w[r].busy /\ work'[r].waiting = w[r].waiting
  BY <1>2, <1>3, EnqueueKeeps
<1>5. work' \in [Replicas -> WorkState]
  <2>1. DOMAIN work' = Replicas /\ work' = [r \in Replicas |-> work'[r]]
    BY DEF Publish
  <2> QED
    BY <1>4, <2>1
<1>6. \A r \in Replicas : proc[r] # "leading" => work'[r] = NoWork
  BY <1>2 DEF Only, Watching
<1>7. Only(work', x)
  BY <1>4, <1>5, <1>6 DEF Only
<1>8. ASSUME NEW r \in Replicas, proc[r] = "leading"
      PROVE  e.phase = "absent" \/ Remembered(work'[r], e, x)
  <2>1. CASE Passes(e, event)
    <3>1. Watching(r)
      BY <1>8 DEF Watching, SetUp
    <3>2. Pending(work'[r], x)
      BY <1>2, <1>3, <2>1, <3>1, EnqueueKeeps
    <3> QED
      BY <3>2 DEF Remembered, Tracked
  <2>2. CASE Remembered(w[r], e, x)
    BY <1>4, <2>2 DEF Remembered, Tracked
  <2> QED
    BY <1>8, <2>1, <2>2
<1>9. calm' \in BOOLEAN
  BY DEF TypeOK
<1>10. Kept(work', e, x)
  BY <1>4 DEF Kept, Tracked
<1> QED
  BY <1>1, <1>7, <1>8, <1>9, <1>10, StepAboutOne

LEMMA OnlyUnchanged ==
    ASSUME PoolInv, NEW x \in Extensions
    PROVE  Only(work, x)
BY DEF PoolInv, TypeOK, OnlyLeaderWorks, Only

(* The leader's queue becomes v.                                            *)
LEMMA OnlyLeader ==
    ASSUME PoolInv, NEW x \in Extensions, NEW r \in Replicas,
           proc[r] = "leading", NEW v \in WorkState, WellFormed(v),
           \A y \in Extensions : y # x =>
             /\ Pending(work[r], y) => Pending(v, y)
             /\ v.busy[y] = work[r].busy[y]
             /\ y \in work[r].waiting => y \in v.waiting
    PROVE  /\ Only([work EXCEPT ![r] = v], x)
           /\ [work EXCEPT ![r] = v][r] = v
           /\ \A s \in Replicas : proc[s] = "leading" => s = r
<1>1. work \in [Replicas -> WorkState]
      /\ \A s \in Replicas : WellFormed(work[s])
                             /\ (proc[s] # "leading" => work[s] = NoWork)
  BY DEF PoolInv, TypeOK, OnlyLeaderWorks
<1>2. \A s \in Replicas : [work EXCEPT ![r] = v][s] = IF s = r THEN v ELSE work[s]
  BY <1>1
<1>3. [work EXCEPT ![r] = v] \in [Replicas -> WorkState]
  BY <1>1
<1>4. \A s \in Replicas : proc[s] = "leading" => s = r
  BY DEF PoolInv, OneLeader
<1> QED
  BY <1>1, <1>2, <1>3, <1>4 DEF Only

(* Only the leader has work.                                                *)
LEMMA BusyLeads ==
    ASSUME PoolInv, NEW r \in Replicas, NEW x \in Extensions,
           work[r].busy[x] # "no" \/ x \in work[r].waiting
           \/ work[r].queue # <<>>
    PROVE  proc[r] = "leading"
BY DEF PoolInv, OnlyLeaderWorks, NoWork

(* gardenlet's requests.                                                    *)
LEMMA RequestsKeepInv ==
    ASSUME PoolInv, NEW x \in Extensions, Change(x) \/ Annotate(x) \/ Delete(x)
    PROVE  PoolInv' /\ Attends(x)
<1> USE OnlyUnchanged DEF Passes, DefaultPredicates
<1>1. flags \in Flags /\ ext[x] \in ExtensionState /\ UNCHANGED <<flags, proc, parts, calm>>
  BY DEF PoolInv, TypeOK, Change, Annotate, Delete
<1>2. Controller.predicates = {}
      /\ Controller.ignoring = flags.ignoreOperationAnnotation
      /\ flags.ignoreOperationAnnotation \in BOOLEAN
  BY <1>1, Settings
<1>3. CASE Change(x)
  <2> DEFINE e == [ ext[x] EXCEPT !.phase = IF @ = "absent" THEN "new" ELSE @,
                                  !.annotated = TRUE, !.change = "unseen" ]
  <2>1. e \in ExtensionState /\ e.annotated
    BY <1>1 DEF ExtensionState, Phases
  <2>2. Publish(x, e, "spec", work)
    BY <1>3 DEF Change
  <2>3. Passes(e, "spec") /\ Kept(work, e, x)
    BY <1>2, <2>1 DEF Kept
  <2> HIDE DEF e
  <2> QED
    BY <1>1, <2>1, <2>2, <2>3, PublishedStep
<1>4. CASE Annotate(x)
  <2> DEFINE e == [ext[x] EXCEPT !.annotated = TRUE]
  <2>1. e \in ExtensionState /\ e.annotated /\ e.succeeded = ext[x].succeeded
        /\ e.phase = ext[x].phase
    BY <1>1 DEF ExtensionState
  <2>2. Publish(x, e, "metadata", work)
    BY <1>4 DEF Annotate
  <2>3. ASSUME NEW r \in Replicas, proc[r] = "leading"
        PROVE  Passes(e, "metadata") \/ Remembered(work[r], e, x)
    <3>1. CASE flags.ignoreOperationAnnotation
      <4>1. Remembered(work[r], ext[x], x)
        BY <1>4, <2>3 DEF PoolInv, NothingForgotten, Annotate
      <4> QED
        BY <2>1, <3>1, <4>1 DEF Remembered
    <3>2. CASE ~flags.ignoreOperationAnnotation
      BY <1>2, <2>1, <3>2
    <3> QED
      BY <3>1, <3>2
  <2>4. Kept(work, e, x)
    BY <1>2, <2>1 DEF Kept
  <2> HIDE DEF e
  <2> QED
    BY <1>1, <2>1, <2>2, <2>3, <2>4, PublishedStep
<1>5. CASE Delete(x)
  <2> DEFINE e == IF ext[x].phase = "new" THEN NoExtension
                  ELSE [ext[x] EXCEPT !.phase = "deleting"]
  <2>1. e \in ExtensionState /\ e.phase \in {"absent", "deleting"}
    BY <1>1 DEF ExtensionState, NoExtension, Phases
  <2>2. Publish(x, e, "spec", work)
    BY <1>5 DEF Delete
  <2>3. (e.phase = "absent" \/ Passes(e, "spec")) /\ Kept(work, e, x)
    BY <1>2, <2>1 DEF Kept
  <2> HIDE DEF e
  <2> QED
    BY <1>1, <2>1, <2>2, <2>3, PublishedStep
<1> QED
  BY <1>3, <1>4, <1>5

(* A worker goes on with x, which is not in the queue.                      *)
LEMMA BusyKeeps ==
    ASSUME NEW w \in WorkState, NEW x \in Extensions, WellFormed(w),
           x \notin Range(w.queue), NEW b \in {"taken", "reconcile", "delete"},
           NEW v, v = [w EXCEPT !.busy[x] = b]
    PROVE  /\ v \in WorkState /\ WellFormed(v)
           /\ \A y : Pending(w, y) => Pending(v, y)
           /\ \A y \in Extensions : y # x => v.busy[y] = w.busy[y]
           /\ v.busy[x] = b
           /\ v.waiting = w.waiting
<1>1. /\ v \in WorkState /\ v.queue = w.queue /\ v.again = w.again
      /\ v.waiting = w.waiting /\ v.busy[x] = b
      /\ \A y \in Extensions : y # x => v.busy[y] = w.busy[y]
  BY DEF WorkState
<1>2. Busy(v) \subseteq Busy(w) \union {x}
  BY <1>1 DEF Busy
<1>3. WellFormed(v)
  BY <1>1, <1>2 DEF WellFormed
<1>4. \A y : Pending(w, y) => Pending(v, y)
  BY <1>1 DEF Pending
<1> QED
  BY <1>1, <1>3, <1>4

(* The beginning of a pass.                                                 *)
LEMMA TakeKeepsInv ==
    ASSUME PoolInv, NEW r \in Replicas, NEW x \in Extensions, Take(r, x)
    PROVE  PoolInv' /\ Attends(x)
<1> DEFINE popped == [work[r] EXCEPT !.queue = Tail(@)]
           taken == [popped EXCEPT !.busy[x] = "taken"]
<1>1. /\ flags \in Flags /\ ext[x] \in ExtensionState /\ calm \in BOOLEAN
      /\ work[r] \in WorkState /\ WellFormed(work[r]) /\ proc[r] = "leading"
      /\ work[r].queue # <<>> /\ x = Head(work[r].queue)
      /\ work \in [Replicas -> WorkState]
      /\ UNCHANGED <<flags, proc, parts, calm>>
  BY DEF PoolInv, TypeOK, Take
<1>2. /\ popped \in WorkState /\ WellFormed(popped)
      /\ \A y : y # x /\ Pending(work[r], y) => Pending(popped, y)
      /\ x \notin Range(popped.queue)
      /\ popped.busy = work[r].busy /\ popped.waiting = work[r].waiting
  <2>1. popped.queue = Tail(work[r].queue) /\ popped.busy = work[r].busy
        /\ popped.waiting = work[r].waiting
    BY <1>1 DEF WorkState
  <2> QED
    BY <1>1, <2>1, TakeKeeps
<1>3. Popped(r) = [work EXCEPT ![r] = popped]
  BY DEF Popped
<1> HIDE DEF popped
<1>4. /\ taken \in WorkState /\ WellFormed(taken) /\ taken.busy[x] = "taken"
      /\ \A y \in Extensions : y # x =>
           /\ Pending(work[r], y) => Pending(taken, y)
           /\ taken.busy[y] = work[r].busy[y]
           /\ y \in work[r].waiting => y \in taken.waiting
  <2>1. taken = [popped EXCEPT !.busy[x] = "taken"]
    OBVIOUS
  <2> HIDE DEF taken
  <2> QED
    BY <1>2, <2>1, BusyKeeps
<1>5. [Popped(r) EXCEPT ![r].busy[x] = "taken"] = [work EXCEPT ![r] = taken]
  BY <1>1, <1>3
<1> HIDE DEF taken
<1>6. /\ Only([work EXCEPT ![r] = taken], x)
      /\ [work EXCEPT ![r] = taken][r] = taken
      /\ \A s \in Replicas : proc[s] = "leading" => s = r
  BY <1>1, <1>4, OnlyLeader
<1>7. CASE ext[x].phase = "absent"
  <2>1. Only([work EXCEPT ![r] = popped], x)
    BY <1>1, <1>2, OnlyLeader
  <2>2. work' = [work EXCEPT ![r] = popped] /\ ext' = ext
    BY <1>3, <1>7 DEF Take
  <2>3. Kept(work', ext'[x], x)
    BY <1>7, <2>2 DEF Kept
  <2> QED
    BY <1>1, <1>7, <2>1, <2>2, <2>3, StepAboutOne DEF PoolInv, TypeOK
<1>8. CASE ext[x].phase # "absent" /\ ext[x].annotated
  <2> DEFINE e == [ext[x] EXCEPT !.annotated = FALSE]
  <2>1. e \in ExtensionState /\ e.annotated = FALSE
    BY <1>1 DEF ExtensionState
  <2>2. Publish(x, e, "metadata", [work EXCEPT ![r] = taken])
    BY <1>5, <1>8 DEF Take
  <2>3. Remembered(taken, e, x)
    BY <1>4, <2>1 DEF Remembered, Tracked
  <2> HIDE DEF e
  <2>4. \A s \in Replicas : proc[s] = "leading"
          => Remembered([work EXCEPT ![r] = taken][s], e, x)
    BY <1>6, <2>3
  <2>5. Kept([work EXCEPT ![r] = taken], e, x)
    BY <1>4, <1>6 DEF Kept, Tracked
  <2> QED
    BY <1>1, <1>6, <2>1, <2>2, <2>4, <2>5, PublishedStep
<1>9. CASE ext[x].phase # "absent" /\ ~ext[x].annotated
  <2>1. work' = [work EXCEPT ![r] = taken] /\ ext' = ext
    BY <1>5, <1>9 DEF Take
  <2>2. Remembered(taken, ext[x], x)
    BY <1>4, <1>9 DEF Remembered, Tracked
  <2>3. \A s \in Replicas :
          proc[s] = "leading" => Remembered(work'[s], ext'[x], x)
    BY <1>6, <2>1, <2>2
  <2>4. Kept(work', ext'[x], x)
    BY <1>4, <1>6, <2>1 DEF Kept, Tracked
  <2> QED
    BY <1>1, <1>6, <2>1, <2>3, <2>4, StepAboutOne DEF PoolInv, TypeOK
<1> QED
  BY <1>7, <1>8, <1>9

(* What a worker has is not in the queue as well.                           *)
LEMMA Working ==
    ASSUME PoolInv, NEW r \in Replicas, NEW x \in Extensions,
           work[r].busy[x] # "no"
    PROVE  /\ proc[r] = "leading" /\ flags \in Flags
           /\ work[r] \in WorkState /\ WellFormed(work[r])
           /\ x \notin Range(work[r].queue)
           /\ work \in [Replicas -> WorkState]
           /\ ext[x] \in ExtensionState /\ ext \in [Extensions -> ExtensionState]
           /\ calm \in BOOLEAN
           /\ ext[x].phase # "absent" => Remembered(work[r], ext[x], x)
<1>1. proc[r] = "leading"
  BY BusyLeads
<1>2. WellFormed(work[r]) => x \notin Range(work[r].queue)
  BY DEF WellFormed, Busy
<1> QED
  BY <1>1, <1>2 DEF PoolInv, TypeOK, NothingForgotten

LEMMA BeginKeepsInv ==
    ASSUME PoolInv, NEW r \in Replicas, NEW x \in Extensions,
           BeginReconcile(r, x) \/ BeginDelete(r, x)
    PROVE  PoolInv' /\ Attends(x)
<1>1. work[r].busy[x] = "taken" /\ ext[x].phase # "absent"
      /\ UNCHANGED <<flags, proc, parts, calm>>
  BY DEF BeginReconcile, BeginDelete
<1>2. /\ work[r] \in WorkState /\ WellFormed(work[r]) /\ flags \in Flags
      /\ x \notin Range(work[r].queue) /\ ext[x] \in ExtensionState
      /\ work \in [Replicas -> WorkState] /\ proc[r] = "leading"
      /\ Remembered(work[r], ext[x], x)
  BY <1>1, Working
<1>3. ASSUME NEW b \in {"taken", "reconcile", "delete"}, NEW e \in ExtensionState,
             Publish(x, e, "metadata", [work EXCEPT ![r].busy[x] = b]),
             e.annotated = ext[x].annotated, e.phase = "deleting" => b = "delete",
             b = "reconcile" => e.change # "unseen"
      PROVE  PoolInv' /\ Attends(x)
  <2> DEFINE v == [work[r] EXCEPT !.busy[x] = b]
  <2>1. /\ v \in WorkState /\ WellFormed(v) /\ v.busy[x] = b
        /\ Pending(work[r], x) => Pending(v, x)
        /\ \A y \in Extensions : y # x =>
             /\ Pending(work[r], y) => Pending(v, y)
             /\ v.busy[y] = work[r].busy[y]
             /\ y \in work[r].waiting => y \in v.waiting
    <3>1. v = [work[r] EXCEPT !.busy[x] = b]
      OBVIOUS
    <3> HIDE DEF v
    <3> QED
      BY <1>2, <3>1, BusyKeeps
  <2>2. Publish(x, e, "metadata", [work EXCEPT ![r] = v])
    BY <1>3
  <2> HIDE DEF v
  <2>3. /\ Only([work EXCEPT ![r] = v], x)
        /\ [work EXCEPT ![r] = v][r] = v
        /\ \A s \in Replicas : proc[s] = "leading" => s = r
    BY <1>2, <2>1, OnlyLeader
  <2>4. Remembered(v, e, x)
    BY <1>2, <1>3, <2>1 DEF Remembered, Tracked
  <2>5. \A s \in Replicas : proc[s] = "leading"
          => Remembered([work EXCEPT ![r] = v][s], e, x)
    BY <2>3, <2>4
  <2>6. Kept([work EXCEPT ![r] = v], e, x)
    BY <2>1, <2>3 DEF Kept, Tracked
  <2> QED
    BY <1>1, <2>2, <2>3, <2>5, <2>6, PublishedStep
<1>4. CASE BeginReconcile(r, x)
  <2> DEFINE e == [ ext[x] EXCEPT !.phase = "live", !.succeeded = FALSE,
                      !.change = IF @ = "unseen" THEN "seen" ELSE @ ]
  <2>1. /\ e \in ExtensionState /\ e.annotated = ext[x].annotated
        /\ e.phase = "live" /\ e.change # "unseen"
    BY <1>2 DEF ExtensionState, Phases
  <2>2. Publish(x, e, "metadata", [work EXCEPT ![r].busy[x] = "reconcile"])
    BY <1>4 DEF BeginReconcile
  <2> HIDE DEF e
  <2> QED
    BY <1>3, <2>1, <2>2
<1>5. CASE BeginDelete(r, x)
  <2> DEFINE e == [ext[x] EXCEPT !.succeeded = FALSE]
  <2>1. e \in ExtensionState /\ e.annotated = ext[x].annotated
    BY <1>2 DEF ExtensionState
  <2>2. Publish(x, e, "metadata", [work EXCEPT ![r].busy[x] = "delete"])
    BY <1>5 DEF BeginDelete
  <2> HIDE DEF e
  <2> QED
    BY <1>3, <2>1, <2>2
<1> QED
  BY <1>4, <1>5

(* The end of a pass.                                                       *)
LEMMA PassEnds ==
    ASSUME PoolInv, NEW r \in Replicas, NEW x \in Extensions,
           work[r].busy[x] # "no",
           NEW v, v = Done(work[r], x) \/ v = Requeued(work[r], x)
    PROVE  /\ Only([work EXCEPT ![r] = v], x)
           /\ [work EXCEPT ![r] = v][r] = v
           /\ \A s \in Replicas : proc[s] = "leading" => s = r
           /\ Pending(work[r], x) => Pending(v, x)
           /\ x \in work[r].waiting => x \in v.waiting
           /\ v = Requeued(work[r], x) => x \in v.waiting
           /\ v.busy[x] = "no"
<1>1. proc[r] = "leading" /\ work[r] \in WorkState /\ WellFormed(work[r])
  BY Working
<1>2. /\ v \in WorkState /\ WellFormed(v)
      /\ \A y : Pending(work[r], y) => Pending(v, y)
      /\ \A y \in Extensions : y # x => v.busy[y] = work[r].busy[y]
      /\ \A y : y \in work[r].waiting => y \in v.waiting
      /\ v = Requeued(work[r], x) => x \in v.waiting
      /\ v.busy[x] = "no"
  BY <1>1, DoneKeeps, RequeuedKeeps
<1> QED
  BY <1>1, <1>2, OnlyLeader

LEMMA FinishReconcileKeepsInv ==
    ASSUME PoolInv, NEW r \in Replicas, NEW x \in Extensions,
           FinishReconcile(r, x)
    PROVE  PoolInv' /\ Attends(x)
<1> DEFINE e == [ ext[x] EXCEPT !.succeeded = TRUE,
                    !.change = IF @ = "seen" THEN "none" ELSE @ ]
           v == IF Controller.resync THEN Requeued(work[r], x)
                                     ELSE Done(work[r], x)
<1>1. work[r].busy[x] = "reconcile" /\ UNCHANGED <<flags, proc, parts, calm>>
  BY DEF FinishReconcile
<1>2. ext[x] \in ExtensionState
      /\ (ext[x].phase # "absent" => Remembered(work[r], ext[x], x))
  BY <1>1, Working
<1>3. /\ e \in ExtensionState /\ e.succeeded /\ e.annotated = ext[x].annotated
      /\ e.phase = ext[x].phase
      /\ e.change # "none" => ext[x].change = "unseen"
  BY <1>2 DEF ExtensionState
<1>4. Publish(x, e, "metadata", [work EXCEPT ![r] = v])
  BY DEF FinishReconcile
<1>5. v = Done(work[r], x) \/ v = Requeued(work[r], x)
  OBVIOUS
<1> HIDE DEF e, v
<1>6. /\ Only([work EXCEPT ![r] = v], x)
      /\ [work EXCEPT ![r] = v][r] = v
      /\ \A s \in Replicas : proc[s] = "leading" => s = r
      /\ Pending(work[r], x) => Pending(v, x)
      /\ x \in work[r].waiting => x \in v.waiting
      /\ v.busy[x] = "no"
  BY <1>1, <1>5, PassEnds
<1>7. e.phase = "absent" \/ Remembered(v, e, x)
  BY <1>1, <1>2, <1>3, <1>6 DEF Remembered
<1>8. \A s \in Replicas : proc[s] = "leading"
        => e.phase = "absent" \/ Remembered([work EXCEPT ![r] = v][s], e, x)
  BY <1>6, <1>7
<1>9. Kept([work EXCEPT ![r] = v], e, x)
  <2>1. e.phase \in {"new", "live"} /\ e.change # "none" => Pending(v, x)
    BY <1>1, <1>2, <1>3, <1>6 DEF Remembered
  <2> QED
    BY <1>6, <2>1 DEF Kept, Tracked
<1> QED
  BY <1>1, <1>3, <1>4, <1>6, <1>8, <1>9, PublishedStep

LEMMA AbandonKeepsInv ==
    ASSUME PoolInv, NEW r \in Replicas, NEW x \in Extensions,
           work[r].busy[x] # "no", Abandon(r, x)
    PROVE  PoolInv' /\ Attends(x)
<1> DEFINE e == [ext[x] EXCEPT !.change = IF @ = "seen" THEN "unseen" ELSE @]
           v == Requeued(work[r], x)
<1>1. UNCHANGED <<flags, proc, parts, calm>>
  BY DEF Abandon
<1>2. ext[x] \in ExtensionState
      /\ (ext[x].phase # "absent" => Remembered(work[r], ext[x], x))
  BY Working
<1>3. e \in ExtensionState /\ e.annotated = ext[x].annotated
      /\ e.phase = ext[x].phase
  BY <1>2 DEF ExtensionState
<1>4. Publish(x, e, "metadata", [work EXCEPT ![r] = v])
  BY DEF Abandon
<1>5. v = Requeued(work[r], x)
  OBVIOUS
<1> HIDE DEF e, v
<1>6. /\ Only([work EXCEPT ![r] = v], x)
      /\ [work EXCEPT ![r] = v][r] = v
      /\ \A s \in Replicas : proc[s] = "leading" => s = r
      /\ Pending(work[r], x) => Pending(v, x)
      /\ x \in v.waiting /\ v.busy[x] = "no"
  BY <1>5, PassEnds
<1>7. e.phase = "absent" \/ Remembered(v, e, x)
  BY <1>2, <1>3, <1>6 DEF Remembered, Tracked
<1>8. \A s \in Replicas : proc[s] = "leading"
        => e.phase = "absent" \/ Remembered([work EXCEPT ![r] = v][s], e, x)
  BY <1>6, <1>7
<1>9. Kept([work EXCEPT ![r] = v], e, x)
  BY <1>6 DEF Kept, Tracked
<1> QED
  BY <1>1, <1>3, <1>4, <1>6, <1>8, <1>9, PublishedStep

LEMMA NothingLeftKeepsInv ==
    ASSUME PoolInv, NEW r \in Replicas, NEW x \in Extensions,
           NothingToDo(r, x) \/ FinishDelete(r, x)
    PROVE  PoolInv' /\ Attends(x)
<1> DEFINE v == Done(work[r], x)
<1>1. /\ work[r].busy[x] # "no" /\ UNCHANGED <<flags, proc, parts, calm>>
      /\ work' = [work EXCEPT ![r] = v]
  BY DEF NothingToDo, FinishDelete
<1>2. /\ ext' \in [Extensions -> ExtensionState] /\ ext'[x].phase = "absent"
      /\ \A y \in Extensions : y # x => ext'[y] = ext[y]
  <2>1. ext \in [Extensions -> ExtensionState]
    BY DEF PoolInv, TypeOK
  <2>2. CASE NothingToDo(r, x)
    BY <2>1, <2>2 DEF NothingToDo
  <2>3. CASE FinishDelete(r, x)
    <3>1. NoExtension \in ExtensionState /\ NoExtension.phase = "absent"
      BY DEF NoExtension, ExtensionState, Phases
    <3>2. ext' = [ext EXCEPT ![x] = NoExtension]
      BY <2>3 DEF FinishDelete
    <3> QED
      BY <2>1, <3>1, <3>2
  <2> QED
    BY <2>2, <2>3
<1>3. v = Done(work[r], x)
  OBVIOUS
<1> HIDE DEF v
<1>4. Only(work', x) /\ calm' \in BOOLEAN
  BY <1>1, <1>3, PassEnds, Working
<1>5. Kept(work', ext'[x], x)
  BY <1>2 DEF Kept
<1> QED
  BY <1>1, <1>2, <1>4, <1>5, StepAboutOne

(* The delay of an item has passed.                                         *)
LEMMA DueKeepsInv ==
    ASSUME PoolInv, NEW r \in Replicas, NEW x \in Extensions, Due(r, x)
    PROVE  PoolInv' /\ Attends(x)
<1> DEFINE q == Enqueue(work[r], x)
           v == [q EXCEPT !.waiting = @ \ {x}]
<1>1. x \in work[r].waiting /\ UNCHANGED <<flags, proc, parts, calm, ext>>
      /\ work' = [work EXCEPT ![r] = v]
  BY DEF Due, Resumed
<1>2. proc[r] = "leading"
  BY <1>1, BusyLeads
<1>3. /\ q \in WorkState /\ WellFormed(q) /\ Pending(q, x)
      /\ \A y : Pending(work[r], y) => Pending(q, y)
      /\ q.busy = work[r].busy /\ q.waiting = work[r].waiting
  BY EnqueueKeeps DEF PoolInv, TypeOK
<1> HIDE DEF q
<1>4. v \in WorkState /\ v.queue = q.queue /\ v.again = q.again
      /\ v.busy = q.busy /\ v.waiting = q.waiting \ {x}
  BY <1>3 DEF WorkState
<1> HIDE DEF v
<1>5. WellFormed(v) /\ Pending(v, x)
      /\ \A y : Pending(work[r], y) => Pending(v, y)
  BY <1>3, <1>4 DEF WellFormed, Busy, Pending
<1>6. \A y \in Extensions : y # x =>
        /\ Pending(work[r], y) => Pending(v, y)
        /\ v.busy[y] = work[r].busy[y]
        /\ y \in work[r].waiting => y \in v.waiting
  BY <1>3, <1>4, <1>5
<1>7. /\ Only([work EXCEPT ![r] = v], x)
      /\ [work EXCEPT ![r] = v][r] = v
      /\ \A s \in Replicas : proc[s] = "leading" => s = r
  BY <1>2, <1>4, <1>5, <1>6, OnlyLeader
<1>8. Remembered(v, ext'[x], x)
  BY <1>5 DEF Remembered, Tracked
<1>9. \A s \in Replicas : proc[s] = "leading" => Remembered(work'[s], ext'[x], x)
  BY <1>1, <1>7, <1>8
<1>10. Kept(work', ext'[x], x)
  BY <1>1, <1>5, <1>7 DEF Kept, Tracked
<1> QED
  BY <1>1, <1>7, <1>9, <1>10, StepAboutOne DEF PoolInv, TypeOK

(* Start-up, elections and crashes.                                         *)
LEMMA LeadKeepsInv ==
    ASSUME PoolInv, NEW r \in Replicas, Lead(r)
    PROVE  PoolInv'
<1> USE DEF PoolInv
<1>1. /\ flags \in Flags /\ proc[r] = "standby" /\ "extensions" \in parts[r]
      /\ proc' = [proc EXCEPT ![r] = "leading"]
      /\ UNCHANGED <<flags, parts, ext, calm>>
  BY DEF Lead, SetUp, TypeOK
<1>2. PICK q \in Bijection(1..Cardinality(Listed(r)), Listed(r)) :
        work' = [work EXCEPT ![r].queue = q]
  BY DEF Lead
<1>3. Cardinality(Listed(r)) \in Nat
  <2>1. Listed(r) \in SUBSET Extensions
    BY DEF Listed
  <2> QED
    BY <2>1, PoolAssumption, FS_Subset, FS_CardinalityType
<1>4. q \in Seq(Extensions) /\ Range(q) = Listed(r) /\ IsInjective(q)
  <2>1. /\ q \in [1..Cardinality(Listed(r)) -> Listed(r)] /\ IsInjective(q)
        /\ \A x \in Listed(r) : \E i \in 1..Cardinality(Listed(r)) : q[i] = x
    BY DEF Bijection, Injection, Surjection
  <2>2. q \in [1..Cardinality(Listed(r)) -> Extensions]
    BY <2>1 DEF Listed
  <2>3. q \in Seq(Extensions)
    BY <1>3, <2>2, SeqDef
  <2> QED
    BY <2>1, <2>3 DEF Range
<1>5. work[r] = NoWork
  BY <1>1 DEF OnlyLeaderWorks
<1> DEFINE v == [NoWork EXCEPT !.queue = q]
<1>6. v \in WorkState /\ v.queue = q /\ v.again = {} /\ v.waiting = {}
      /\ \A x \in Extensions : v.busy[x] = "no"
  BY <1>4 DEF NoWork, WorkState
<1>7. work' = [work EXCEPT ![r] = v]
  BY <1>2, <1>5 DEF TypeOK
<1> HIDE DEF v
<1>8. WellFormed(v)
  BY <1>4, <1>6 DEF WellFormed, Busy
<1>9. \A s \in Replicas : s # r => proc[s] # "leading"
  BY <1>1, PoolAssumption, Settings DEF Lead
<1>10. /\ work' \in [Replicas -> WorkState] /\ work'[r] = v
       /\ \A s \in Replicas : s # r => work'[s] = work[s]
  BY <1>6, <1>7 DEF TypeOK
<1>11. TypeOK'
  BY <1>1, <1>8, <1>10 DEF TypeOK
<1>12. /\ proc'[r] = "leading" /\ \A s \in Replicas : s # r => proc'[s] = proc[s]
  BY <1>1 DEF TypeOK
<1>13. OneLeader' /\ SetUp' /\ OnlyLeaderWorks'
  BY <1>1, <1>9, <1>10, <1>12 DEF OneLeader, SetUp, OnlyLeaderWorks
<1>14. ASSUME NEW x \in Extensions, ext[x].phase # "absent"
       PROVE  Remembered(v, ext[x], x)
  <2>1. Controller.predicates = {}
        /\ Controller.ignoring = flags.ignoreOperationAnnotation
        /\ flags.ignoreOperationAnnotation \in BOOLEAN
    BY <1>1, Settings
  <2>2. Passes(ext[x], "listed") => x \in Range(q)
    BY <1>1, <1>4, <1>14 DEF Listed
  <2>3. Passes(ext[x], "listed") => Pending(v, x)
    BY <1>6, <2>2 DEF Pending
  <2>4. \/ Passes(ext[x], "listed")
        \/ ~ext[x].annotated /\ ext[x].succeeded /\ ext[x].phase # "deleting"
    BY <2>1 DEF Passes, DefaultPredicates
  <2> QED
    BY <1>6, <2>3, <2>4 DEF Remembered, Tracked
<1>15. NothingForgotten'
  <2> SUFFICES ASSUME NEW s \in Replicas, NEW x \in Extensions,
                      proc'[s] = "leading", ext'[x].phase # "absent"
               PROVE  Remembered(work[s], ext[x], x)'
    BY DEF NothingForgotten
  <2>1. s = r
    BY <1>9, <1>12
  <2>2. Remembered(v, ext[x], x)
    BY <1>1, <1>14
  <2> QED
    BY <1>1, <1>10, <2>1, <2>2 DEF Remembered, Tracked, Pending
<1> QED
  BY <1>11, <1>13, <1>15

LEMMA BootKeepsInv ==
    ASSUME PoolInv, NEW r \in Replicas,
           CreateManager(r) \/ SetUpController(r) \/ SetUpFails(r)
    PROVE  PoolInv'
<1>1. /\ UNCHANGED <<flags, work, ext, calm>>
      /\ proc[r] \in {"down", "created"}
      /\ \/ /\ proc' = [proc EXCEPT ![r] = "created"]
            /\ parts' = [parts EXCEPT ![r] = {"heartbeat"}]
         \/ /\ proc' = [proc EXCEPT ![r] = "standby"]
            /\ parts' = [parts EXCEPT ![r] = @ \union {"extensions"}]
         \/ /\ proc' = [proc EXCEPT ![r] = "down"]
            /\ parts' = [parts EXCEPT ![r] = {}]
  BY DEF CreateManager, SetUpController, SetUpFails
<1>2. \A s \in Replicas : (proc'[s] = "leading") <=> (proc[s] = "leading")
  BY <1>1 DEF PoolInv, TypeOK
<1>3. TypeOK'
  BY <1>1 DEF PoolInv, TypeOK
<1>4. OneLeader' /\ OnlyLeaderWorks'
  BY <1>1, <1>2 DEF PoolInv, OneLeader, OnlyLeaderWorks
<1>5. SetUp'
  BY <1>1 DEF PoolInv, SetUp, TypeOK
<1>6. NothingForgotten'
  BY <1>1, <1>2 DEF PoolInv, NothingForgotten, Remembered, Tracked, Pending
<1> QED
  BY <1>3, <1>4, <1>5, <1>6 DEF PoolInv

LEMMA CrashKeepsInv ==
    ASSUME PoolInv, NEW r \in Replicas, Crash(r)
    PROVE  PoolInv'
<1> USE DEF PoolInv
<1>1. /\ UNCHANGED <<flags, calm>>
      /\ proc' = [proc EXCEPT ![r] = "down"]
      /\ parts' = [parts EXCEPT ![r] = {}]
      /\ work' = [work EXCEPT ![r] = NoWork]
  BY DEF Crash
<1>2. /\ proc'[r] = "down" /\ work'[r] = NoWork /\ parts'[r] = {}
      /\ \A s \in Replicas : s # r => /\ proc'[s] = proc[s]
                                      /\ work'[s] = work[s]
                                      /\ parts'[s] = parts[s]
  BY <1>1 DEF TypeOK
<1>3. /\ ext' \in [Extensions -> ExtensionState]
      /\ \A x \in Extensions : /\ ext'[x].phase = ext[x].phase
                               /\ ext'[x].annotated = ext[x].annotated
                               /\ ext'[x].succeeded = ext[x].succeeded
  BY DEF Crash, TypeOK, ExtensionState
<1>4. TypeOK'
  BY <1>1, <1>2, <1>3, NoWorkTyped DEF TypeOK
<1>5. OneLeader' /\ OnlyLeaderWorks' /\ SetUp'
  BY <1>2 DEF OneLeader, OnlyLeaderWorks, SetUp
<1>6. NothingForgotten'
  <2> SUFFICES ASSUME NEW s \in Replicas, NEW x \in Extensions,
                      proc'[s] = "leading", ext'[x].phase # "absent"
               PROVE  Remembered(work[s], ext[x], x)'
    BY DEF NothingForgotten
  <2>1. proc[s] = "leading" /\ work'[s] = work[s] /\ ext[x].phase # "absent"
    BY <1>2, <1>3
  <2>2. Remembered(work[s], ext[x], x)
    BY <2>1 DEF NothingForgotten
  <2>3. ext'[x] = ext[x] \/ work[s].busy[x] = "no"
    <3>1. CASE work[r].busy[x] # "no"
      <4>1. proc[r] = "leading"
        BY <3>1, BusyLeads
      <4> QED
        BY <1>2, <2>1, <4>1 DEF OneLeader
    <3>2. CASE work[r].busy[x] = "no"
      BY <3>2 DEF Crash, TypeOK
    <3> QED
      BY <3>1, <3>2
  <2> QED
    BY <1>1, <1>3, <2>1, <2>2, <2>3 DEF Remembered, Tracked, Pending
<1> QED
  BY <1>4, <1>5, <1>6

LEMMA InitPool == Init => PoolInv
<1> SUFFICES ASSUME Init
             PROVE  PoolInv
  OBVIOUS
<1>1. NoExtension \in ExtensionState
  BY DEF NoExtension, ExtensionState, Phases
<1>2. TypeOK
  BY <1>1, NoWorkTyped DEF Init, TypeOK
<1>3. \A r \in Replicas : proc[r] = "down" /\ work[r] = NoWork
  BY DEF Init
<1> QED
  BY <1>2, <1>3 DEF PoolInv, OneLeader, OnlyLeaderWorks, SetUp, NothingForgotten

LEMMA NextPool == PoolInv /\ [Next]_vars => PoolInv'
<1> SUFFICES ASSUME PoolInv, [Next]_vars
             PROVE  PoolInv'
  OBVIOUS
<1>1. ASSUME NEW r \in Replicas, Boot(r) \/ SetUpFails(r) \/ Crash(r)
      PROVE  PoolInv'
  BY <1>1, LeadKeepsInv, BootKeepsInv, CrashKeepsInv DEF Boot
<1>2. ASSUME NEW x \in Extensions, Change(x) \/ Annotate(x) \/ Delete(x)
      PROVE  PoolInv'
  BY <1>2, RequestsKeepInv
<1>3. ASSUME NEW r \in Replicas, NEW x \in Extensions,
             Take(r, x) \/ Pass(r, x) \/ Fail(r, x) \/ Due(r, x)
      PROVE  PoolInv'
  <2>1. CASE Take(r, x) \/ Due(r, x)
    BY <2>1, TakeKeepsInv, DueKeepsInv
  <2>2. CASE Fail(r, x) \/ TimeOut(r, x)
    BY <2>2, AbandonKeepsInv DEF Fail, TimeOut
  <2>3. CASE BeginReconcile(r, x) \/ BeginDelete(r, x)
    BY <2>3, BeginKeepsInv
  <2>4. CASE FinishReconcile(r, x)
    BY <2>4, FinishReconcileKeepsInv
  <2>5. CASE NothingToDo(r, x) \/ FinishDelete(r, x)
    BY <2>5, NothingLeftKeepsInv
  <2> QED
    BY <1>3, <2>1, <2>2, <2>3, <2>4, <2>5 DEF Pass
<1>4. CASE Settle \/ UNCHANGED vars
  <2>1. UNCHANGED <<flags, proc, parts, work, ext>> /\ calm' \in BOOLEAN
    BY <1>4 DEF Settle, vars, PoolInv, TypeOK
  <2>2. TypeOK' /\ OneLeader' /\ OnlyLeaderWorks' /\ SetUp'
    BY <2>1 DEF PoolInv, TypeOK, OneLeader, OnlyLeaderWorks, SetUp
  <2>3. NothingForgotten'
    BY <2>1 DEF PoolInv, NothingForgotten, Remembered, Tracked, Pending
  <2> QED
    BY <2>2, <2>3 DEF PoolInv
<1> QED
  BY <1>1, <1>2, <1>3, <1>4 DEF Next

LEMMA PoolInvHolds == Spec => []PoolInv
BY InitPool, NextPool, PTL DEF Spec

(* Every reachable state is well typed: no queue ever holds an Extension    *)
(* twice, or one that a worker has and that did not change meanwhile.       *)
THEOREM TypeCorrect == Spec => []TypeOK
<1>1. PoolInv => TypeOK
  BY DEF PoolInv
<1> QED
  BY <1>1, PoolInvHolds, PTL

(* At any time at most one worker of all replicas has an Extension, which   *)
(* the actuator's operations rely on: they take no lock.                    *)
THEOREM OneWorker == Spec => []OneWorkerPerExtension
<1>1. PoolInv => OneWorkerPerExtension
  BY BusyLeads DEF OneWorkerPerExtension, PoolInv, OneLeader
<1> QED
  BY <1>1, PoolInvHolds, PTL

(* The leading replica has every Extension whose annotation, last operation *)
(* or deletion asks for a pass, or that changed during one, in its queue,   *)
(* among the delayed ones, or with a worker.                                *)
THEOREM NobodyForgotten == Spec => []NothingForgotten
<1>1. PoolInv => NothingForgotten
  BY DEF PoolInv
<1> QED
  BY <1>1, PoolInvHolds, PTL

(* A step of a replica or of gardenlet for x leaves nobody unattended that  *)
(* was attended to before.                                                  *)
LEMMA Bystanders ==
    ASSUME NEW x \in Extensions, Attends(x), NEW y \in Extensions, Unattended(y)'
    PROVE  Unattended(y)
<1>1. y # x
  BY DEF Attends
<1>2. /\ ext'[y] = ext[y]
      /\ \A r \in Replicas : Tracked(work[r], y) => Tracked(work'[r], y)
  BY <1>1 DEF Attends, Only, Tracked
<1>3. Controller' = Controller
  BY DEF Attends, Controller, Controllers
<1> QED
  BY <1>2, <1>3 DEF Unattended, Passes, DefaultPredicates, Tracked, Pending

(* Neither do start-up, elections and the death of a standby.               *)
LEMMA OnlyLeadersLose ==
    ASSUME PoolInv, NEW r \in Replicas, Boot(r) \/ SetUpFails(r) \/ Crash(r),
           NEW x \in Extensions, Unattended(x)', ~Unattended(x)
    PROVE  proc[r] = "leading" /\ proc'[r] = "down" /\ Tracked(work[r], x)
<1>1. UNCHANGED flags /\ Controller' = Controller
  BY DEF Boot, CreateManager, SetUpController, Lead, SetUpFails, Crash,
         Controller, Controllers
<1>2. CASE Crash(r)
  <2>1. /\ proc' = [proc EXCEPT ![r] = "down"] /\ proc'[r] = "down"
        /\ \A s \in Replicas : s # r => work'[s] = work[s]
    BY <1>2 DEF Crash, PoolInv, TypeOK
  <2>2. /\ ext'[x].phase = ext[x].phase
        /\ ext'[x].annotated = ext[x].annotated
        /\ ext'[x].succeeded = ext[x].succeeded
        /\ ext'[x].change # "none" => ext[x].change # "none"
    BY <1>2 DEF Crash, PoolInv, TypeOK, ExtensionState
  <2>3. Passes(ext[x], "listed") <=> Passes(ext[x], "listed")'
    BY <1>1, <2>2 DEF Passes, DefaultPredicates
  <2>4. PICK s \in Replicas : Tracked(work[s], x)
    BY <2>2, <2>3 DEF Unattended
  <2>5. s = r
    BY <2>1, <2>4 DEF Unattended, Tracked, Pending
  <2>6. proc[r] = "leading"
    BY <2>4, <2>5 DEF PoolInv, OnlyLeaderWorks, NoWork, Tracked, Pending, Range
  <2> QED
    BY <2>1, <2>4, <2>5, <2>6
<1>3. CASE Boot(r) \/ SetUpFails(r)
  <2>1. ext' = ext /\ \A s \in Replicas : s # r => work'[s] = work[s]
    BY <1>3
       DEF Boot, CreateManager, SetUpController, Lead, SetUpFails, PoolInv, TypeOK
  <2>2. ~Tracked(work[r], x) \/ work' = work
    <3>1. CASE Lead(r)
      BY <3>1
         DEF Lead, PoolInv, OnlyLeaderWorks, NoWork, Tracked, Pending, Range
    <3> QED
      BY <1>3, <3>1 DEF Boot, CreateManager, SetUpController, SetUpFails
  <2>3. Passes(ext[x], "listed") <=> Passes(ext[x], "listed")'
    BY <1>1, <2>1 DEF Passes, DefaultPredicates
  <2>4. PICK s \in Replicas : Tracked(work[s], x)
    BY <2>1, <2>3 DEF Unattended
  <2>5. Tracked(work'[s], x)
    BY <2>1, <2>2, <2>4
  <2> QED
    BY <2>5 DEF Unattended, Tracked, Pending
<1> QED
  BY <1>2, <1>3

(* A request is lost only when the leader that has it goes down: for any    *)
(* number of replicas, workers and Extensions and any flags.                *)
THEOREM RequestsOutliveErrors == Spec => OnlyCrashesForget
<1>1. ASSUME PoolInv, [Next]_vars, NEW x \in Extensions,
             Unattended(x)', ~Unattended(x)
      PROVE  \E r \in Replicas : /\ proc[r] = "leading" /\ proc'[r] = "down"
                                 /\ Tracked(work[r], x)
  <2>1. ASSUME NEW r \in Replicas, Boot(r) \/ SetUpFails(r) \/ Crash(r)
        PROVE  proc[r] = "leading" /\ proc'[r] = "down" /\ Tracked(work[r], x)
    BY <1>1, <2>1, OnlyLeadersLose
  <2>2. ASSUME NEW y \in Extensions, Change(y) \/ Annotate(y) \/ Delete(y)
        PROVE  FALSE
    BY <1>1, <2>2, RequestsKeepInv, Bystanders
  <2>3. ASSUME NEW r \in Replicas, NEW y \in Extensions,
               Take(r, y) \/ Pass(r, y) \/ Fail(r, y) \/ Due(r, y)
        PROVE  FALSE
    <3>1. Attends(y)
      BY <1>1, <2>3, TakeKeepsInv, DueKeepsInv, AbandonKeepsInv, BeginKeepsInv,
         FinishReconcileKeepsInv, NothingLeftKeepsInv DEF Pass, Fail, TimeOut
    <3> QED
      BY <1>1, <3>1, Bystanders
  <2>4. CASE Settle \/ UNCHANGED vars
    <3>1. UNCHANGED <<flags, proc, parts, work, ext>>
      BY <2>4 DEF Settle, vars
    <3>2. Controller' = Controller
      BY <3>1 DEF Controller, Controllers
    <3> QED
      BY <1>1, <3>1, <3>2
         DEF Unattended, Passes, DefaultPredicates, Tracked, Pending
  <2> QED
    BY <1>1, <2>1, <2>2, <2>3, <2>4 DEF Next
<1>2. PoolInv /\ [Next]_vars => [\A x \in Extensions :
          Unattended(x)' /\ ~Unattended(x) =>
              \E r \in Replicas : proc[r] = "leading" /\ proc'[r] = "down"
                                  /\ Tracked(work[r], x)]_vars
  BY <1>1
<1> QED
  BY <1>2, PoolInvHolds, PTL DEF Spec, OnlyCrashesForget

(* The heartbeat lease is only renewed by a replica that serves Extensions. *)
THEOREM HeartbeatIsHonest == Spec => []HeartbeatMeansService
<1>1. PoolInv => HeartbeatMeansService
  BY DEF PoolInv, SetUp, HeartbeatMeansService
<1> QED
  BY <1>1, PoolInvHolds, PTL

-----------------------------------------------------------------------------
(* What the replicas run, as Dispatch sees it.                              *)

(* The operation that replica r has in progress for x, if any.              *)
OpOf(w, r, x) == IF w[r].busy[x] \in {"reconcile", "delete"} THEN w[r].busy[x]
                                                             ELSE "no"

LEMMA RunningIs ==
    ASSUME NEW w, NEW x
    PROVE  /\ (\A s \in Replicas : OpOf(w, s, x) = "no")
                => RunningFor(w, x) = "none"
           /\ \A r \in Replicas :
                (\A s \in Replicas : s # r => OpOf(w, s, x) = "no") =>
                  /\ OpOf(w, r, x) = "no" => RunningFor(w, x) = "none"
                  /\ OpOf(w, r, x) = "reconcile" => RunningFor(w, x) = "reconcile"
                  /\ OpOf(w, r, x) = "delete" => RunningFor(w, x) = "cleanup"
BY DEF RunningFor, Operating, OpOf

LEMMA RunningSame ==
    ASSUME NEW v, NEW w, NEW x,
           \A s \in Replicas : OpOf(v, s, x) = OpOf(w, s, x)
    PROVE  RunningFor(v, x) = RunningFor(w, x)
<1>1. Operating(v, x) = Operating(w, x)
  BY DEF Operating, OpOf
<1>2. \A s \in Replicas : v[s].busy[x] = "delete" <=> w[s].busy[x] = "delete"
  BY DEF OpOf
<1> QED
  BY <1>1, <1>2 DEF RunningFor

(* An operation runs for an Extension that has been there since before.     *)
Attached ==
    \A r \in Replicas, x \in Extensions :
        /\ OpOf(work, r, x) = "delete" => ext[x].phase = "deleting"
        /\ OpOf(work, r, x) = "reconcile" => ext[x].phase \in {"live", "deleting"}

(* What a step does to the operations and to the phases of the Extensions.  *)
OpsBut(w, r, x, o) ==
    /\ OpOf(w, r, x) = o
    /\ \A s \in Replicas, y \in Extensions :
         (s # r \/ y # x) => OpOf(w, s, y) = OpOf(work, s, y)

SameOps ==
    \A s \in Replicas, y \in Extensions : OpOf(work', s, y) = OpOf(work, s, y)

PhasesBut(x, p) ==
    /\ ext'[x].phase = p
    /\ \A y \in Extensions : y # x => ext'[y].phase = ext[y].phase

SamePhases == \A y \in Extensions : ext'[y].phase = ext[y].phase

Nobody(x) == \A s \in Replicas : OpOf(work, s, x) = "no"

Stops == /\ SamePhases
         /\ \A s \in Replicas, y \in Extensions :
              OpOf(work', s, y) \in {"no", OpOf(work, s, y)}

Asks(x) == /\ SameOps
           /\ \/ ext[x].phase = "absent" /\ PhasesBut(x, "new")
              \/ ext[x].phase = "new" /\ PhasesBut(x, "absent")
              \/ ext[x].phase = "live" /\ PhasesBut(x, "deleting")

Begins(r, x) ==
    /\ Nobody(x)
    /\ \/ /\ ext[x].phase \in {"new", "live"} /\ PhasesBut(x, "live")
          /\ OpsBut(work', r, x, "reconcile")
       \/ /\ ext[x].phase = "deleting" /\ SamePhases
          /\ OpsBut(work', r, x, "delete")

Cleans(r, x) == /\ OpOf(work, r, x) = "delete"
                /\ PhasesBut(x, "absent") /\ OpsBut(work', r, x, "no")

LEMMA EnqueueOps ==
    ASSUME NEW w \in WorkState, NEW x
    PROVE  Enqueue(w, x).busy = w.busy
BY DEF Enqueue, WorkState

LEMMA PublishedOps ==
    ASSUME PoolInv, NEW x \in Extensions, NEW e, NEW event,
           NEW w \in [Replicas -> WorkState], Publish(x, e, event, w)
    PROVE  /\ PhasesBut(x, e.phase)
           /\ \A s \in Replicas, y \in Extensions :
                OpOf(work', s, y) = OpOf(w, s, y)
<1>1. ext' = [ext EXCEPT ![x] = e] /\ ext \in [Extensions -> ExtensionState]
  BY DEF Publish, PoolInv, TypeOK
<1>2. ASSUME NEW s \in Replicas
      PROVE  work'[s].busy = w[s].busy
  <2>1. work'[s] = Enqueue(w[s], x) \/ work'[s] = w[s]
    BY DEF Publish
  <2> QED
    BY <2>1, EnqueueOps
<1> QED
  BY <1>1, <1>2 DEF PhasesBut, OpOf

(* The queues are w when that of r has become v.                            *)
Becomes(w, r, v) == /\ w \in [Replicas -> WorkState]
                    /\ w[r] = v
                    /\ \A s \in Replicas : s # r => w[s] = work[s]

LEMMA Becoming ==
    ASSUME PoolInv, NEW r \in Replicas, NEW v \in WorkState
    PROVE  Becomes([work EXCEPT ![r] = v], r, v)
BY DEF PoolInv, TypeOK, Becomes

LEMMA OpSet ==
    ASSUME NEW r \in Replicas, NEW x \in Extensions, NEW v, NEW w,
           Becomes(w, r, v),
           \A y \in Extensions : y # x => v.busy[y] = work[r].busy[y]
    PROVE  OpsBut(w, r, x, OpOf(w, r, x))
BY DEF OpsBut, OpOf, Becomes

(* gardenlet's requests start and stop nothing.                             *)
LEMMA RequestsAsk ==
    ASSUME PoolInv, NEW x \in Extensions, Change(x) \/ Annotate(x) \/ Delete(x)
    PROVE  Stops \/ Asks(x)
<1>1. work \in [Replicas -> WorkState] /\ ext[x] \in ExtensionState
  BY DEF PoolInv, TypeOK
<1>2. ASSUME NEW e, NEW event, Publish(x, e, event, work)
      PROVE  SameOps /\ PhasesBut(x, e.phase)
  BY <1>1, <1>2, PublishedOps DEF SameOps
<1>3. CASE Change(x)
  <2> DEFINE e == [ ext[x] EXCEPT !.phase = IF @ = "absent" THEN "new" ELSE @,
                                  !.annotated = TRUE, !.change = "unseen" ]
  <2>1. /\ Publish(x, e, "spec", work)
        /\ e.phase = IF ext[x].phase = "absent" THEN "new" ELSE ext[x].phase
    BY <1>1, <1>3 DEF Change, ExtensionState
  <2> HIDE DEF e
  <2>2. SameOps /\ PhasesBut(x, e.phase)
    BY <1>2, <2>1
  <2> QED
    BY <2>1, <2>2 DEF Stops, Asks, PhasesBut, SameOps, SamePhases
<1>4. CASE Annotate(x)
  <2>1. PICK e : Publish(x, e, "metadata", work) /\ e.phase = ext[x].phase
    BY <1>1, <1>4 DEF Annotate, ExtensionState
  <2>2. SameOps /\ PhasesBut(x, e.phase)
    BY <1>2, <2>1
  <2> QED
    BY <2>1, <2>2 DEF Stops, PhasesBut, SameOps, SamePhases
<1>5. CASE Delete(x)
  <2>1. PICK e : /\ Publish(x, e, "spec", work) /\ ext[x].phase \in {"new", "live"}
                 /\ e.phase = IF ext[x].phase = "new" THEN "absent" ELSE "deleting"
    BY <1>1, <1>5 DEF Delete, ExtensionState, NoExtension
  <2>2. SameOps /\ PhasesBut(x, e.phase)
    BY <1>2, <2>1
  <2> QED
    BY <2>1, <2>2 DEF Asks
<1> QED
  BY <1>3, <1>4, <1>5

(* The beginning of an operation: nobody else has one for x.                *)
LEMMA BeginBegins ==
    ASSUME PoolInv, NEW r \in Replicas, NEW x \in Extensions,
           BeginReconcile(r, x) \/ BeginDelete(r, x)
    PROVE  Begins(r, x)
<1>1. work[r].busy[x] = "taken" /\ proc[r] = "leading"
      /\ work[r] \in WorkState /\ ext[x] \in ExtensionState
  BY Working DEF BeginReconcile, BeginDelete
<1>2. Nobody(x)
  <2>1. \A s \in Replicas : work[s].busy[x] = "taken" \/ work[s].busy[x] = "no"
    BY <1>1, BusyLeads DEF PoolInv, OneLeader
  <2> QED
    BY <2>1 DEF Nobody, OpOf
<1>3. ASSUME NEW b \in {"reconcile", "delete"}, NEW e,
             Publish(x, e, "metadata", [work EXCEPT ![r].busy[x] = b])
      PROVE  PhasesBut(x, e.phase) /\ OpsBut(work', r, x, b)
  <2> DEFINE v == [work[r] EXCEPT !.busy[x] = b]
             w == [work EXCEPT ![r] = v]
  <2>1. /\ v \in WorkState /\ v.busy[x] = b
        /\ \A y \in Extensions : y # x => v.busy[y] = work[r].busy[y]
    BY <1>1 DEF WorkState
  <2>2. Publish(x, e, "metadata", w)
    BY <1>3
  <2> HIDE DEF v
  <2>3. Becomes(w, r, v)
    BY <2>1, Becoming
  <2> HIDE DEF w
  <2>4. OpsBut(w, r, x, b)
    <3>1. OpOf(w, r, x) = b
      BY <2>1, <2>3 DEF OpOf, Becomes
    <3> QED
      BY <2>1, <2>3, <3>1, OpSet
  <2> QED
    BY <2>2, <2>3, <2>4, PublishedOps DEF OpsBut, Becomes
<1>4. CASE BeginReconcile(r, x)
  <2> DEFINE e == [ ext[x] EXCEPT !.phase = "live", !.succeeded = FALSE,
                      !.change = IF @ = "unseen" THEN "seen" ELSE @ ]
  <2>1. /\ Publish(x, e, "metadata", [work EXCEPT ![r].busy[x] = "reconcile"])
        /\ ext[x].phase \in {"new", "live"} /\ e.phase = "live"
    BY <1>1, <1>4 DEF BeginReconcile, ExtensionState
  <2> HIDE DEF e
  <2> QED
    BY <1>2, <1>3, <2>1 DEF Begins
<1>5. CASE BeginDelete(r, x)
  <2>1. PICK e : /\ Publish(x, e, "metadata",
                            [work EXCEPT ![r].busy[x] = "delete"])
                 /\ ext[x].phase = "deleting" /\ e.phase = "deleting"
    BY <1>1, <1>5 DEF BeginDelete, ExtensionState
  <2>2. PhasesBut(x, "deleting") /\ OpsBut(work', r, x, "delete")
    BY <1>3, <2>1
  <2>3. SamePhases
    BY <2>1, <2>2 DEF PhasesBut, SamePhases
  <2> QED
    BY <1>2, <2>1, <2>2, <2>3 DEF Begins
<1> QED
  BY <1>4, <1>5

(* The end of a pass stops one operation; that of a deletion takes the      *)
(* Extension away.                                                          *)
LEMMA EndStops ==
    ASSUME PoolInv, NEW r \in Replicas, NEW x \in Extensions,
           work[r].busy[x] # "no",
           NEW v, v = Done(work[r], x) \/ v = Requeued(work[r], x)
    PROVE  /\ [work EXCEPT ![r] = v] \in [Replicas -> WorkState]
           /\ OpsBut([work EXCEPT ![r] = v], r, x, "no")
<1> DEFINE w == [work EXCEPT ![r] = v]
<1>1. /\ v \in WorkState /\ v.busy[x] = "no"
      /\ \A y \in Extensions : y # x => v.busy[y] = work[r].busy[y]
  BY Working, DoneKeeps, RequeuedKeeps
<1>2. Becomes(w, r, v)
  BY <1>1, Becoming
<1> HIDE DEF w
<1>3. OpOf(w, r, x) = "no"
  BY <1>1, <1>2 DEF OpOf, Becomes
<1>4. OpsBut(w, r, x, "no")
  BY <1>1, <1>2, <1>3, OpSet
<1> QED
  BY <1>2, <1>4 DEF w, Becomes

LEMMA FinishStops ==
    ASSUME PoolInv, NEW r \in Replicas, NEW x \in Extensions,
           \/ FinishReconcile(r, x)
           \/ work[r].busy[x] # "no" /\ Abandon(r, x)
    PROVE  Stops
<1>1. work[r].busy[x] # "no" /\ ext[x] \in ExtensionState
  BY Working DEF FinishReconcile
<1>2. ASSUME NEW e, e.phase = ext[x].phase,
             NEW v, v = Done(work[r], x) \/ v = Requeued(work[r], x),
             Publish(x, e, "metadata", [work EXCEPT ![r] = v])
      PROVE  Stops
  <2> DEFINE w == [work EXCEPT ![r] = v]
  <2>1. Publish(x, e, "metadata", w)
    BY <1>2
  <2>2. w \in [Replicas -> WorkState] /\ OpsBut(w, r, x, "no")
    BY <1>1, <1>2, EndStops
  <2> HIDE DEF w
  <2>3. /\ PhasesBut(x, ext[x].phase)
        /\ \A s \in Replicas, y \in Extensions :
             OpOf(work', s, y) = OpOf(w, s, y)
    BY <1>2, <2>1, <2>2, PublishedOps
  <2> QED
    BY <2>2, <2>3 DEF OpsBut, Stops, SamePhases, PhasesBut
<1>3. CASE FinishReconcile(r, x)
  <2> DEFINE e == [ ext[x] EXCEPT !.succeeded = TRUE,
                      !.change = IF @ = "seen" THEN "none" ELSE @ ]
             v == IF Controller.resync THEN Requeued(work[r], x)
                                       ELSE Done(work[r], x)
  <2>1. Publish(x, e, "metadata", [work EXCEPT ![r] = v])
    BY <1>3 DEF FinishReconcile
  <2>2. e.phase = ext[x].phase
    BY <1>1 DEF ExtensionState
  <2>3. v = Done(work[r], x) \/ v = Requeued(work[r], x)
    OBVIOUS
  <2> HIDE DEF e, v
  <2> QED
    BY <1>2, <2>1, <2>2, <2>3
<1>4. CASE Abandon(r, x)
  <2> DEFINE e == [ext[x] EXCEPT !.change = IF @ = "seen" THEN "unseen" ELSE @]
  <2>1. Publish(x, e, "metadata", [work EXCEPT ![r] = Requeued(work[r], x)])
    BY <1>4 DEF Abandon
  <2>2. e.phase = ext[x].phase
    BY <1>1 DEF ExtensionState
  <2> HIDE DEF e
  <2> QED
    BY <1>2, <2>1, <2>2
<1> QED
  BY <1>3, <1>4

LEMMA FinishCleans ==
    ASSUME PoolInv, NEW r \in Replicas, NEW x \in Extensions,
           FinishDelete(r, x)
    PROVE  Cleans(r, x)
<1>1. /\ work[r].busy[x] = "delete" /\ ext' = [ext EXCEPT ![x] = NoExtension]
      /\ work' = [work EXCEPT ![r] = Done(work[r], x)]
      /\ ext \in [Extensions -> ExtensionState]
  BY DEF FinishDelete, PoolInv, TypeOK
<1>2. OpsBut(work', r, x, "no")
  <2>1. OpsBut([work EXCEPT ![r] = Done(work[r], x)], r, x, "no")
    BY <1>1, EndStops
  <2> QED
    BY <1>1, <2>1
<1>3. PhasesBut(x, "absent")
  BY <1>1 DEF PhasesBut, NoExtension
<1> QED
  BY <1>1, <1>2, <1>3 DEF Cleans, OpOf

(* The rest of the queue's steps start nothing.                             *)
LEMMA QueueStops ==
    ASSUME PoolInv, NEW r \in Replicas, NEW x \in Extensions,
           Take(r, x) \/ NothingToDo(r, x) \/ Due(r, x)
    PROVE  Stops
<1>0. work \in [Replicas -> WorkState] /\ work[r] \in WorkState
      /\ ext[x] \in ExtensionState
  BY DEF PoolInv, TypeOK
<1>1. CASE Take(r, x)
  <2> DEFINE popped == [work[r] EXCEPT !.queue = Tail(@)]
             taken == [popped EXCEPT !.busy[x] = "taken"]
  <2>1. popped \in WorkState /\ popped.busy = work[r].busy
    <3>1. Tail(work[r].queue) \in Seq(Extensions)
      BY <1>0, <1>1, TailRange DEF WorkState, Take
    <3> QED
      BY <1>0, <3>1 DEF WorkState
  <2>2. Popped(r) = [work EXCEPT ![r] = popped]
    BY DEF Popped
  <2> HIDE DEF popped
  <2>3. /\ taken \in WorkState /\ taken.busy[x] = "taken"
        /\ \A y \in Extensions : y # x => taken.busy[y] = work[r].busy[y]
    BY <2>1 DEF WorkState
  <2>4. [Popped(r) EXCEPT ![r].busy[x] = "taken"] = [work EXCEPT ![r] = taken]
    BY <1>0, <2>2
  <2> HIDE DEF taken
  <2>5. work[r].busy[x] = "no"
    BY <1>1, BusyLeads DEF PoolInv, TypeOK, WellFormed, Take, Busy, Range, WorkState
  <2>6. /\ [work EXCEPT ![r] = popped] \in [Replicas -> WorkState]
        /\ \A s \in Replicas, y \in Extensions :
             OpOf([work EXCEPT ![r] = popped], s, y) = OpOf(work, s, y)
    BY <1>0, <2>1 DEF OpOf
  <2>7. /\ [work EXCEPT ![r] = taken] \in [Replicas -> WorkState]
        /\ \A s \in Replicas, y \in Extensions :
             OpOf([work EXCEPT ![r] = taken], s, y) = OpOf(work, s, y)
    <3> DEFINE w == [work EXCEPT ![r] = taken]
    <3>1. Becomes(w, r, taken)
      BY <2>3, Becoming
    <3> HIDE DEF w
    <3>2. OpsBut(w, r, x, OpOf(w, r, x))
      BY <2>3, <3>1, OpSet
    <3>3. OpOf(w, r, x) = OpOf(work, r, x)
      BY <2>3, <2>5, <3>1 DEF OpOf, Becomes
    <3>4. \A s \in Replicas, y \in Extensions : OpOf(w, s, y) = OpOf(work, s, y)
      BY <3>2, <3>3 DEF OpsBut
    <3> QED
      BY <3>1, <3>4 DEF w, Becomes
  <2>8. \/ ext' = ext /\ work' = Popped(r)
        \/ ext' = ext /\ work' = [work EXCEPT ![r] = taken]
        \/ \E e : /\ e.phase = ext[x].phase
                  /\ Publish(x, e, "metadata", [work EXCEPT ![r] = taken])
    BY <1>0, <1>1, <2>4 DEF Take, ExtensionState
  <2>9. CASE ext' = ext /\ work' = Popped(r)
    BY <2>2, <2>6, <2>9 DEF Stops, SamePhases
  <2>10. CASE ext' = ext /\ work' = [work EXCEPT ![r] = taken]
    BY <2>7, <2>10 DEF Stops, SamePhases
  <2>11. ASSUME NEW e, e.phase = ext[x].phase,
                Publish(x, e, "metadata", [work EXCEPT ![r] = taken])
         PROVE  Stops
    BY <2>7, <2>11, PublishedOps DEF Stops, SamePhases, PhasesBut
  <2> QED
    BY <2>8, <2>9, <2>10, <2>11
<1>2. CASE NothingToDo(r, x)
  <2>1. /\ work[r].busy[x] # "no" /\ ext' = ext
        /\ work' = [work EXCEPT ![r] = Done(work[r], x)]
    BY <1>2 DEF NothingToDo
  <2>2. OpsBut([work EXCEPT ![r] = Done(work[r], x)], r, x, "no")
    BY <2>1, EndStops
  <2>3. OpsBut(work', r, x, "no")
    BY <2>1, <2>2
  <2> QED
    BY <2>1, <2>3 DEF Stops, SamePhases, OpsBut
<1>3. CASE Due(r, x)
  <2>1. ext' = ext /\ work' = [work EXCEPT ![r] = Resumed(work[r], x)]
    BY <1>3 DEF Due
  <2>2. Resumed(work[r], x).busy = work[r].busy
    <3>1. Enqueue(work[r], x) \in WorkState
      BY <1>0, EnqueueKeeps DEF PoolInv, TypeOK
    <3> QED
      BY <1>0, <3>1, EnqueueOps DEF Resumed, WorkState
  <2>3. \A s \in Replicas : work'[s].busy = work[s].busy
    BY <1>0, <2>1, <2>2
  <2> QED
    BY <2>1, <2>3 DEF Stops, SamePhases, OpOf
<1> QED
  BY <1>1, <1>2, <1>3

LEMMA RestStops ==
    ASSUME PoolInv,
           \/ \E r \in Replicas : Boot(r) \/ SetUpFails(r) \/ Crash(r)
           \/ Settle \/ UNCHANGED vars
    PROVE  Stops
<1>0. work \in [Replicas -> WorkState] /\ ext \in [Extensions -> ExtensionState]
  BY DEF PoolInv, TypeOK
<1>1. CASE UNCHANGED <<work, ext>>
  BY <1>1 DEF Stops, SamePhases, OpOf
<1>2. ASSUME NEW r \in Replicas, Lead(r)
      PROVE  Stops
  <2>1. ext' = ext /\ \A s \in Replicas : work'[s].busy = work[s].busy
    BY <1>0, <1>2 DEF Lead, WorkState
  <2> QED
    BY <2>1 DEF Stops, SamePhases, OpOf
<1>3. ASSUME NEW r \in Replicas, Crash(r)
      PROVE  Stops
  <2>1. /\ \A y \in Extensions : ext'[y].phase = ext[y].phase
        /\ work'[r] = NoWork /\ \A s \in Replicas : s # r => work'[s] = work[s]
    BY <1>0, <1>3 DEF Crash, ExtensionState
  <2> QED
    BY <2>1 DEF Stops, SamePhases, OpOf, NoWork
<1> QED
  BY <1>1, <1>2, <1>3
     DEF Boot, CreateManager, SetUpController, SetUpFails, Settle, vars

(* Every step is one of the four.                                           *)
LEMMA Footprint ==
    ASSUME PoolInv, [Next]_vars
    PROVE  \/ Stops
           \/ \E x \in Extensions : Asks(x)
           \/ \E r \in Replicas, x \in Extensions : Begins(r, x) \/ Cleans(r, x)
<1>1. CASE \/ \E r \in Replicas : Boot(r) \/ SetUpFails(r) \/ Crash(r)
           \/ Settle \/ UNCHANGED vars
  BY <1>1, RestStops
<1>2. CASE \E x \in Extensions : Change(x) \/ Annotate(x) \/ Delete(x)
  BY <1>2, RequestsAsk
<1>3. ASSUME NEW r \in Replicas, NEW x \in Extensions,
             Take(r, x) \/ Pass(r, x) \/ Fail(r, x) \/ Due(r, x)
      PROVE  Stops \/ Begins(r, x) \/ Cleans(r, x)
  <2>1. CASE Take(r, x) \/ NothingToDo(r, x) \/ Due(r, x)
    BY <2>1, QueueStops
  <2>2. CASE FinishReconcile(r, x) \/ Fail(r, x) \/ TimeOut(r, x)
    BY <2>2, FinishStops DEF Fail, TimeOut
  <2>3. CASE BeginReconcile(r, x) \/ BeginDelete(r, x)
    BY <2>3, BeginBegins
  <2>4. CASE FinishDelete(r, x)
    BY <2>4, FinishCleans
  <2> QED
    BY <1>3, <2>1, <2>2, <2>3, <2>4 DEF Pass
<1> QED
  BY <1>1, <1>2, <1>3 DEF Next

(* Only one replica has an operation for x.                                 *)
LEMMA Alone ==
    ASSUME PoolInv, NEW r \in Replicas, NEW x \in Extensions,
           OpOf(work, r, x) # "no"
    PROVE  \A s \in Replicas : s # r => OpOf(work, s, x) = "no"
<1>1. work[r].busy[x] # "no"
  BY DEF OpOf
<1>2. \A s \in Replicas : s # r => work[s].busy[x] = "no"
  BY <1>1, BusyLeads DEF PoolInv, OneLeader
<1> QED
  BY <1>2 DEF OpOf

LEMMA NextAttached == PoolInv /\ Attached /\ [Next]_vars => Attached'
<1> SUFFICES ASSUME PoolInv, Attached, [Next]_vars,
                    NEW s \in Replicas, NEW y \in Extensions
             PROVE  /\ OpOf(work', s, y) = "delete" => ext'[y].phase = "deleting"
                    /\ OpOf(work', s, y) = "reconcile"
                         => ext'[y].phase \in {"live", "deleting"}
  BY DEF Attached, OpOf
<1>1. /\ OpOf(work, s, y) = "delete" => ext[y].phase = "deleting"
      /\ OpOf(work, s, y) = "reconcile" => ext[y].phase \in {"live", "deleting"}
      /\ OpOf(work, s, y) \in {"no", "reconcile", "delete"}
  BY DEF Attached, OpOf
<1>2. CASE Stops
  BY <1>1, <1>2 DEF Stops, SamePhases
<1>3. ASSUME NEW x \in Extensions, Asks(x)
      PROVE  /\ OpOf(work', s, y) = "delete" => ext'[y].phase = "deleting"
             /\ OpOf(work', s, y) = "reconcile"
                  => ext'[y].phase \in {"live", "deleting"}
  BY <1>1, <1>3 DEF Asks, SameOps, PhasesBut
<1>4. ASSUME NEW r \in Replicas, NEW x \in Extensions, Begins(r, x)
      PROVE  /\ OpOf(work', s, y) = "delete" => ext'[y].phase = "deleting"
             /\ OpOf(work', s, y) = "reconcile"
                  => ext'[y].phase \in {"live", "deleting"}
  BY <1>1, <1>4 DEF Begins, Nobody, OpsBut, PhasesBut, SamePhases
<1>5. ASSUME NEW r \in Replicas, NEW x \in Extensions, Cleans(r, x)
      PROVE  /\ OpOf(work', s, y) = "delete" => ext'[y].phase = "deleting"
             /\ OpOf(work', s, y) = "reconcile"
                  => ext'[y].phase \in {"live", "deleting"}
  BY <1>1, <1>5, Alone DEF Cleans, OpsBut, PhasesBut
<1> QED
  BY <1>2, <1>3, <1>4, <1>5, Footprint

(* Every such step is one of Dispatch.                                      *)
LEMMA NextDispatched ==
    PoolInv /\ Attached /\ [Next]_vars => [Dispatched!Next]_(Dispatched!vars)
<1> SUFFICES ASSUME PoolInv, Attached, [Next]_vars
             PROVE  Dispatched!Next
  OBVIOUS
<1> DEFINE life == [x \in Extensions |-> LifeOf(ext[x])]
           running == [x \in Extensions |-> RunningFor(work, x)]
<1>1. CASE Stops
  <2>1. \A x \in Extensions : LifeOf(ext'[x]) = LifeOf(ext[x])
    BY <1>1 DEF Stops, SamePhases, LifeOf
  <2>2. ASSUME NEW x \in Extensions
        PROVE  /\ RunningFor(work', x) \in {"none", "reconcile", "cleanup"}
               /\ RunningFor(work', x) \in {RunningFor(work, x), "none"}
    <3>1. CASE Nobody(x)
      <4>1. \A s \in Replicas : OpOf(work', s, x) = "no"
        BY <1>1, <3>1 DEF Stops, Nobody
      <4> QED
        BY <4>1, RunningIs
    <3>2. ASSUME NEW r \in Replicas, OpOf(work, r, x) # "no"
          PROVE  /\ RunningFor(work', x) \in {"none", "reconcile", "cleanup"}
                 /\ RunningFor(work', x) \in {RunningFor(work, x), "none"}
      <4>1. \A s \in Replicas : s # r => OpOf(work, s, x) = "no"
        BY <3>2, Alone
      <4>2. /\ \A s \in Replicas : s # r => OpOf(work', s, x) = "no"
            /\ OpOf(work', r, x) \in {"no", OpOf(work, r, x)}
        BY <1>1, <4>1 DEF Stops
      <4>3. OpOf(work, r, x) \in {"reconcile", "delete"}
        BY <3>2 DEF OpOf
      <4> QED
        BY <4>1, <4>2, <4>3, RunningIs
    <3> QED
      BY <3>1, <3>2 DEF Nobody
  <2>3. Dispatched!Stop
    BY <2>1, <2>2 DEF Dispatched!Stop
  <2> QED
    BY <2>3 DEF Dispatched!Next
<1>2. ASSUME NEW x \in Extensions, Asks(x)
      PROVE  Dispatched!Next
  <2>1. running' = running
    BY <1>2, RunningSame DEF Asks, SameOps
  <2>2. ext[x].phase \in {"absent", "new"} => running[x] = "none"
    <3>1. ext[x].phase \in {"absent", "new"} => Nobody(x)
      BY DEF Attached, Nobody, OpOf
    <3> QED
      BY <3>1, RunningIs DEF Nobody
  <2>3. /\ \A y \in Extensions : y # x => life'[y] = life[y]
        /\ \/ life[x] = "absent" /\ life'[x] = "new"
           \/ life[x] = "new" /\ life'[x] = "absent"
           \/ life[x] = "live" /\ life'[x] = "leaving"
    BY <1>2 DEF Asks, PhasesBut, LifeOf
  <2>4. life' = [life EXCEPT ![x] = life'[x]]
    BY <2>3
  <2>5. \/ Dispatched!Appear(x) \/ Dispatched!Withdraw(x) \/ Dispatched!Leave(x)
    BY <1>2, <2>1, <2>2, <2>3, <2>4
       DEF Asks, LifeOf, Dispatched!Appear, Dispatched!Withdraw,
           Dispatched!Leave, Dispatched!Become
  <2> QED
    BY <2>5 DEF Dispatched!Next
<1>3. ASSUME NEW r \in Replicas, NEW x \in Extensions, Begins(r, x)
      PROVE  Dispatched!Next
  <2>1. running[x] = "none"
    BY <1>3, RunningIs DEF Begins, Nobody
  <2>2. \A y \in Extensions : y # x => running'[y] = running[y]
    BY <1>3, RunningSame DEF Begins, OpsBut
  <2>3. running'[x] = IF OpOf(work', r, x) = "reconcile" THEN "reconcile"
                                                        ELSE "cleanup"
    BY <1>3, RunningIs DEF Begins, Nobody, OpsBut
  <2>4. running' = [running EXCEPT ![x] = running'[x]]
    BY <2>2
  <2>5. CASE ext[x].phase \in {"new", "live"}
    <3>1. /\ life[x] \in {"new", "live"} /\ running'[x] = "reconcile"
          /\ life' = [life EXCEPT ![x] = "live"]
      BY <1>3, <2>3, <2>5 DEF Begins, PhasesBut, OpsBut, LifeOf
    <3>2. Dispatched!StartReconcile(x)
      BY <2>1, <2>4, <3>1 DEF Dispatched!StartReconcile, Dispatched!Become
    <3> QED
      BY <3>2 DEF Dispatched!Next
  <2>6. CASE ext[x].phase = "deleting"
    <3>1. /\ life[x] = "leaving" /\ running'[x] = "cleanup"
          /\ life' = life
      BY <1>3, <2>3, <2>6 DEF Begins, SamePhases, OpsBut, LifeOf
    <3>2. Dispatched!StartCleanup(x)
      BY <2>1, <2>4, <3>1 DEF Dispatched!StartCleanup
    <3> QED
      BY <3>2 DEF Dispatched!Next
  <2> QED
    BY <1>3, <2>5, <2>6 DEF Begins
<1>4. ASSUME NEW r \in Replicas, NEW x \in Extensions, Cleans(r, x)
      PROVE  Dispatched!Next
  <2>1. /\ OpOf(work, r, x) = "delete" /\ ext[x].phase = "deleting"
        /\ \A s \in Replicas : s # r => OpOf(work, s, x) = "no"
    BY <1>4, Alone DEF Cleans, Attached
  <2>2. /\ running[x] = "cleanup" /\ running'[x] = "none"
        /\ \A y \in Extensions : y # x => running'[y] = running[y]
    BY <1>4, <2>1, RunningIs, RunningSame DEF Cleans, OpsBut
  <2>3. /\ life[x] = "leaving" /\ life' = [life EXCEPT ![x] = "absent"]
    BY <1>4, <2>1 DEF Cleans, PhasesBut, LifeOf
  <2>4. running' = [running EXCEPT ![x] = "none"]
    BY <2>2
  <2>5. Dispatched!FinishCleanup(x)
    BY <2>2, <2>3, <2>4 DEF Dispatched!FinishCleanup, Dispatched!Become
  <2> QED
    BY <2>5 DEF Dispatched!Next
<1> QED
  BY <1>1, <1>2, <1>3, <1>4, Footprint

LEMMA InitDispatched == Init => Attached /\ Dispatched!Init
<1> SUFFICES ASSUME Init
             PROVE  Attached /\ Dispatched!Init
  OBVIOUS
<1>1. \A x \in Extensions : Nobody(x) /\ ext[x] = NoExtension
  BY DEF Init, Nobody, OpOf, NoWork
<1>2. \A x \in Extensions : RunningFor(work, x) = "none"
  BY <1>1, RunningIs DEF Nobody
<1> QED
  BY <1>1, <1>2 DEF Attached, Nobody, Dispatched!Init, LifeOf, NoExtension

(* No operation outlives its Extension, and a deletion is only worked on    *)
(* while the Extension waits for it, in whichever replica.                  *)
THEOREM NeverDetached == Spec => []Attached
BY InitDispatched, NextAttached, PoolInvHolds, PTL DEF Spec

(* The replicas implement Dispatch: for every Extension one operation at a  *)
(* time, no Reconcile once its end was requested, and no end or new         *)
(* beginning of the Extension under an operation (controller.go, the        *)
(* library's reconciler, and the command line's leader election).           *)
THEOREM DispatchKept == Spec => KeepsToDispatch
BY InitDispatched, NextAttached, NextDispatched, PoolInvHolds, PTL
   DEF Spec, KeepsToDispatch, Dispatched!Spec
===============================================================================
