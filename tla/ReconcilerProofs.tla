-------------------------- MODULE ReconcilerProofs --------------------------
(***************************************************************************)
(* Proofs about Reconciler for every value of its constants.               *)
(* ReconcilerInv is shown to be inductive; the safety properties follow.   *)
(***************************************************************************)
EXTENDS ReconcilerInvariant, TLAPS

USE ReconcilerAssumption DEF ReconcilerAssumption, Object, Fresh

RowsOf == [terms : Terms \cup {None}, parts : SUBSET Part]

\* Idle, with nothing in hand.
LEMMA NoTaskFacts ==
    /\ NoTask \in Task /\ NoTask.pc = "idle" /\ NoTask.version = "old"
    /\ \A o \in Object : Legal(o, NoTask.obj)
  BY DEF NoTask, Task, PC, Resource, Absent, Version, Legal

\* What is said of one object; and that a step leaves the others alone.
Fits(o) ==
    /\ CopiesFit(o)
    /\ o = Game => GameStepsFit
    /\ o \in Child => ChildFits(o)

OnlyTouches(o) ==
    /\ \A p \in Object \ {o} : res'[p] = res[p] /\ cache'[p] = cache[p] /\ task'[p] = task[p]
    /\ \A k \in Child \ {o} : rows'[k] = rows[k]
    /\ synced' \ {o} = synced \ {o} /\ queue' \ {o} = queue \ {o}
    /\ unattended' \ {o} = unattended \ {o} /\ abandoned' \ {o} = abandoned \ {o}

\* A step that leaves all objects but one alone keeps the invariant if what is
\* said of that one stays true.
LEMMA StepKeeps ==
    ASSUME ReconcilerInv, NEW o \in Object, OnlyTouches(o), ReconcilerTypeOK', Fits(o)'
    PROVE  ReconcilerInv'
  <1>1. ASSUME NEW p \in Object \ {o}
        PROVE  /\ res'[p] = res[p] /\ cache'[p] = cache[p] /\ task'[p] = task[p]
               /\ (p \in synced') = (p \in synced) /\ (p \in queue') = (p \in queue)
               /\ (p \in unattended') = (p \in unattended)
               /\ (p \in abandoned') = (p \in abandoned)
    BY DEF OnlyTouches
  <1>2. ASSUME NEW p \in Object
        PROVE  CopiesFit(p)'
    BY <1>1 DEF ReconcilerInv, CopiesFit, Fits
  <1>3. GameStepsFit'
    <2>1. CASE o = Game
      BY <2>1 DEF Fits
    <2>2. CASE o # Game
      BY <1>1, <2>2 DEF ReconcilerInv, GameStepsFit
    <2> QED  BY <2>1, <2>2
  <1>4. ASSUME NEW k \in Child
        PROVE  ChildFits(k)'
    <2>1. CASE k = o
      BY <2>1 DEF Fits
    <2>2. CASE k # o
      <3>1. rows'[k] = rows[k] /\ ChildFits(k)
        BY <2>2 DEF OnlyTouches, ReconcilerInv
      <3>2. k \in Object \ {o}
        BY <2>2
      <3>3. ChildStepsFit(k)' /\ FinalizerStays(k)' /\ ReleasedHasNone(k)'
        BY <1>1, <3>1, <3>2 DEF ChildFits, ChildStepsFit, FinalizerStays, ReleasedHasNone, At
      <3>4. WorkFits(k)'
        BY <1>1, <3>1, <3>2 DEF ChildFits, WorkFits, At
      <3>5. HasFinalizer(k)' /\ ReflectedAtRest(k)'
        BY <1>1, <3>1, <3>2
        DEF ChildFits, HasFinalizer, ReflectedAtRest, Settled, Reflected, At
      <3> QED  BY <3>3, <3>4, <3>5 DEF ChildFits
    <2> QED  BY <2>1, <2>2
  <1> QED  BY <1>2, <1>3, <1>4 DEF ReconcilerInv

\* What an Update can do: it is made and the reconciliation goes on with t, or
\* the object comes back, the Update being made or not.
LEMMA UpdateFacts ==
    ASSUME ReconcilerTypeOK, NEW o \in Object, NEW r \in Resource, NEW t \in Task,
           Legal(o, r), Legal(o, t.obj), Update(o, r, t)
    PROVE  /\ res' \in [Object -> Resource] /\ task' \in [Object -> Task]
           /\ \A p \in Object : Legal(p, res'[p]) /\ Legal(p, task'[p].obj)
           /\ \A p \in Object \ {o} : res'[p] = res[p] /\ task'[p] = task[p]
           /\ synced' \ {o} = synced \ {o} /\ queue' \ {o} = queue \ {o}
           /\ synced' \subseteq Object /\ queue' \subseteq Object
           /\ faults' \in 0 .. MaxFaults
           /\ o \in synced' => o \in synced /\ res'[o] = res[o]
           /\ \/ Fresh(o) /\ res'[o] = r /\ task'[o] = t /\ queue' = queue
              \/ Fresh(o) /\ res'[o] = r /\ task'[o] = NoTask /\ o \in queue'
              \/ res'[o] = res[o] /\ task'[o] = NoTask /\ o \in queue'
  <1>1. NoTask \in Task /\ Legal(o, NoTask.obj)
    BY NoTaskFacts
  <1>2. CASE /\ Fresh(o) /\ Put(o, r)
             /\ Goto(o, t) /\ UNCHANGED faults
    BY <1>2 DEF Put, Goto, ReconcilerTypeOK
  <1>3. CASE /\ Fresh(o) /\ Put(o, r)
             /\ Retry(o) /\ Fault
    BY <1>1, <1>3 DEF Put, Retry, Fault, ReconcilerTypeOK
  <1>4. CASE /\ IF Fresh(o) THEN Fault ELSE UNCHANGED faults
             /\ Retry(o) /\ UNCHANGED <<res, synced>>
    BY <1>1, <1>4 DEF Retry, Fault, ReconcilerTypeOK
  <1> QED  BY <1>2, <1>3, <1>4 DEF Update

-----------------------------------------------------------------------------
(* controller-runtime.                                                     *)

LEMMA SyncKeeps ==
    ASSUME ReconcilerInv, NEW o \in Object, Sync(o)
    PROVE  ReconcilerInv'
  <1>1. ReconcilerTypeOK'
    BY DEF ReconcilerInv, ReconcilerTypeOK, Sync, cluster, history
  <1>2. OnlyTouches(o)
    BY DEF ReconcilerInv, ReconcilerTypeOK, OnlyTouches, Sync, history
  <1>3. CopiesFit(o)'
    BY DEF ReconcilerInv, ReconcilerTypeOK, CopiesFit, Sync
  <1>4. o = Game => GameStepsFit'
    BY DEF ReconcilerInv, GameStepsFit, Sync
  <1>5. ASSUME o \in Child
        PROVE  ChildFits(o)'
    <2>1. ChildFits(o) /\ CopiesFit(o) /\ cache'[o] = res[o] /\ o \in queue'
      BY <1>5 DEF ReconcilerInv, ReconcilerTypeOK, Sync
    <2>2. ChildStepsFit(o)' /\ ReleasedHasNone(o)' /\ HasFinalizer(o)'
      BY <2>1 DEF ChildFits, ChildStepsFit, ReleasedHasNone, HasFinalizer, At, Sync, history
    <2>3. FinalizerStays(o)'
      BY <2>1 DEF ChildFits, ChildStepsFit, CopiesFit, FinalizerStays, LiveFin, Sync
    <2>4. WorkFits(o)' /\ ReflectedAtRest(o)'
      BY <2>1 DEF ChildFits, WorkFits, ReflectedAtRest, Settled, At, Sync, history
    <2> QED  BY <2>2, <2>3, <2>4 DEF ChildFits
  <1> QED  BY <1>1, <1>2, <1>3, <1>4, <1>5, StepKeeps DEF Fits

LEMMA TakeKeeps ==
    ASSUME ReconcilerInv, NEW o \in Object, Take(o)
    PROVE  ReconcilerInv'
  <1> DEFINE live == Begin(o, IF o = Game THEN "finalizer" ELSE "game")
             gone == Begin(o, IF o = Game THEN "release" ELSE "purge")
  <1>1. /\ task \in [Object -> Task] /\ cache \in [Object -> Resource]
        /\ Legal(o, cache[o]) /\ CopiesFit(o)
    BY DEF ReconcilerInv, ReconcilerTypeOK
  <1>2. \/ cache[o].at = "live" /\ task' = [task EXCEPT ![o] = live]
        \/ cache[o].at = "deleted" /\ cache[o].fin /\ task' = [task EXCEPT ![o] = gone]
        \/ cache[o].at # "live" /\ task' = task
    BY DEF Take
  <1>3. live \in Task /\ gone \in Task /\ live.obj = cache[o] /\ gone.obj = cache[o]
    BY <1>1 DEF Task, PC, Begin
  <1>4. ReconcilerTypeOK'
    BY <1>1, <1>2, <1>3 DEF ReconcilerInv, ReconcilerTypeOK, Take, cluster
  <1>5. OnlyTouches(o)
    BY <1>1, <1>2 DEF ReconcilerInv, ReconcilerTypeOK, OnlyTouches, Take
  <1>6. \/ cache[o].at = "live" /\ task'[o] = live
        \/ cache[o].at = "deleted" /\ cache[o].fin /\ task'[o] = gone
        \/ cache[o].at # "live" /\ task'[o] = task[o] /\ At(o, "idle")
    BY <1>1, <1>2 DEF Take
  <1>7. CopiesFit(o)'
    BY <1>1, <1>6 DEF CopiesFit, Take, Begin
  <1>8. o = Game => GameStepsFit'
    BY <1>6 DEF ReconcilerInv, GameStepsFit, GamePC, Begin
  <1>9. ASSUME o \in Child
        PROVE  ChildFits(o)'
    <2>1. ChildFits(o) /\ o # Game /\ UNCHANGED <<res, cache, rows, synced, abandoned>>
      BY <1>9 DEF ReconcilerInv, Take
    <2>0. \/ /\ task'[o].pc = "game" /\ cache[o].at = "live"
             /\ task'[o].obj = cache[o] /\ (Fresh(o)' => o \in synced)
          \/ task'[o].pc = "purge" /\ cache[o].at = "deleted"
          \/ task'[o] = task[o] /\ task[o].pc = "idle"
      BY <1>6, <2>1 DEF Begin, At
    <2>2. ChildStepsFit(o)' /\ ReleasedHasNone(o)' /\ HasFinalizer(o)'
      BY <2>1, <2>0
      DEF ChildFits, ChildStepsFit, ReleasedHasNone, HasFinalizer, At, Writing, Finalizing
    <2>3. FinalizerStays(o)'
      BY <1>1, <2>1, <2>0
      DEF ChildFits, CopiesFit, FinalizerStays, LiveFin, Writing, Finalizing
    <2>4. WorkFits(o)'
      BY <1>6, <2>1 DEF WorkFits, At, Writing, Begin
    <2>5. ReflectedAtRest(o)'
      BY <1>1, <1>6, <2>1 DEF ReflectedAtRest, Settled, CopiesFit, At, Begin
    <2> QED  BY <2>2, <2>3, <2>4, <2>5 DEF ChildFits
  <1> QED  BY <1>4, <1>5, <1>7, <1>8, <1>9, StepKeeps DEF Fits

\* The process starts again with fresh copies of everything and no work.
LEMMA RestartKeeps ==
    ASSUME ReconcilerInv, Restart
    PROVE  ReconcilerInv'
  <1>1. /\ NoTask \in Task /\ NoTask.pc = "idle" /\ NoTask.version = "old"
        /\ \A o \in Object : Legal(o, NoTask.obj)
    BY NoTaskFacts
  <1>2. ReconcilerTypeOK'
    BY <1>1 DEF ReconcilerInv, ReconcilerTypeOK, Restart, Fault, cluster, history
  <1>3. \A o \in Object : task'[o] = NoTask /\ cache'[o] = res[o] /\ res'[o] = res[o]
    BY DEF Restart
  <1>4. ASSUME NEW o \in Object
        PROVE  CopiesFit(o)'
    BY <1>1, <1>3 DEF CopiesFit
  <1>5. GameStepsFit'
    BY <1>1, <1>3 DEF GameStepsFit, GamePC
  <1>6. ASSUME NEW k \in Child
        PROVE  ChildFits(k)'
    <2>1. /\ ChildFits(k) /\ Legal(k, res[k]) /\ task'[k].pc = "idle"
          /\ UNCHANGED <<rows, abandoned>> /\ cache'[k] = res[k] /\ res'[k] = res[k]
      BY <1>1, <1>3 DEF ReconcilerInv, ReconcilerTypeOK, Restart, history
    <2>2. ChildStepsFit(k)' /\ ReleasedHasNone(k)' /\ HasFinalizer(k)' /\ WorkFits(k)'
      BY <2>1 DEF ChildFits, ChildStepsFit, ReleasedHasNone, HasFinalizer, WorkFits, At,
                  Writing, Finalizing
    <2>3. FinalizerStays(k)'
      BY <2>1 DEF FinalizerStays, LiveFin, Writing, Finalizing
    <2>4. ReflectedAtRest(k)'
      BY <2>1 DEF ReflectedAtRest, Settled, Restart
    <2> QED  BY <2>2, <2>3, <2>4 DEF ChildFits
  <1> QED  BY <1>2, <1>4, <1>5, <1>6 DEF ReconcilerInv

-----------------------------------------------------------------------------
(* Reconciliation of a child.                                              *)

\* The end of a reconciliation, whether the child comes back or not.
LEMMA EndKeeps ==
    ASSUME ReconcilerInv, NEW k \in Child, task' = [task EXCEPT ![k] = NoTask],
           queue' \subseteq Object, queue' \ {k} = queue \ {k},
           unattended' \subseteq Object, unattended' \ {k} = unattended \ {k},
           rows' \in [Child -> RowsOf], \A j \in Child \ {k} : rows'[j] = rows[j],
           faults' \in 0 .. MaxFaults,
           UNCHANGED <<res, cache, synced, cluster, abandoned, changes>>,
           HasFinalizer(k)', ReflectedAtRest(k)'
    PROVE  ReconcilerInv'
  <1>1. NoTask \in Task /\ \A o \in Object : Legal(o, NoTask.obj)
    BY NoTaskFacts
  <1>2. ReconcilerTypeOK'
    BY <1>1 DEF ReconcilerInv, ReconcilerTypeOK, RowsOf, cluster
  <1>3. OnlyTouches(k)
    BY DEF ReconcilerInv, ReconcilerTypeOK, OnlyTouches
  <1>4. /\ k # Game /\ CopiesFit(k) /\ ChildFits(k)
        /\ task'[k].pc = "idle" /\ task'[k].version = "old"
        /\ res'[k] = res[k] /\ cache'[k] = cache[k] /\ synced' = synced
    BY NoTaskFacts DEF ReconcilerInv, ReconcilerTypeOK
  <1>5. CopiesFit(k)' /\ ChildStepsFit(k)' /\ ReleasedHasNone(k)' /\ WorkFits(k)'
    BY <1>4 DEF CopiesFit, ChildStepsFit, ReleasedHasNone, WorkFits, At, Writing, Finalizing
  <1>6. FinalizerStays(k)'
    BY <1>4 DEF ChildFits, FinalizerStays, LiveFin, Writing, Finalizing
  <1> QED  BY <1>2, <1>3, <1>4, <1>5, <1>6, StepKeeps DEF Fits, ChildFits

\* A child that comes back, with rows that have its finalizer.
LEMMA RetryKeeps ==
    ASSUME ReconcilerInv, NEW k \in Child, Retry(k), faults' \in 0 .. MaxFaults,
           rows' \in [Child -> RowsOf], \A j \in Child \ {k} : rows'[j] = rows[j],
           UNCHANGED <<res, cache, synced, cluster, history, changes>>, HasFinalizer(k)'
    PROVE  ReconcilerInv'
  <1>1. queue' \subseteq Object /\ queue' \ {k} = queue \ {k} /\ k \in queue'
    BY DEF ReconcilerInv, ReconcilerTypeOK, Retry
  <1>2. unattended' \subseteq Object /\ unattended' = unattended /\ abandoned' = abandoned
    BY DEF ReconcilerInv, ReconcilerTypeOK, history
  <1>3. ReflectedAtRest(k)'
    BY <1>1 DEF ReflectedAtRest, Settled
  <1> QED  BY <1>1, <1>2, <1>3, EndKeeps DEF Retry

\* The same when the rows are what they were.
LEMMA RetrySameRows ==
    ASSUME ReconcilerInv, NEW k \in Child, Retry(k), faults' \in 0 .. MaxFaults,
           UNCHANGED <<res, cache, synced, cluster, rows, history, changes>>
    PROVE  ReconcilerInv'
  <1>1. rows \in [Child -> RowsOf] /\ HasFinalizer(k)
    BY DEF ReconcilerInv, ReconcilerTypeOK, RowsOf, ChildFits
  <1>2. HasFinalizer(k)'
    BY <1>1 DEF HasFinalizer, history
  <1> QED  BY <1>1, <1>2, RetryKeeps

\* A reconciliation that goes on with the same copy, before it writes rows.
LEMMA GoOnKeeps ==
    ASSUME ReconcilerInv, NEW k \in Child, NEW t \in Task, Goto(k, t),
           task[k].pc \in Writing, t.pc \in Writing \ {"parts"},
           t.obj = task[k].obj, t.version = task[k].version,
           t.pc \notin {"game", "finalizer"} => t.obj.fin,
           UNCHANGED <<res, cache, synced, cluster, rows, history, changes, faults>>
    PROVE  ReconcilerInv'
  <1>1. /\ k # Game /\ CopiesFit(k) /\ ChildFits(k)
        /\ task'[k] = t /\ queue' = queue
        /\ res'[k] = res[k] /\ cache'[k] = cache[k] /\ rows'[k] = rows[k]
        /\ synced' = synced /\ abandoned' = abandoned
    BY DEF ReconcilerInv, ReconcilerTypeOK, Goto, history
  <1>2. ReconcilerTypeOK'
    <2>1. Legal(k, t.obj)
      BY DEF ReconcilerInv, ReconcilerTypeOK
    <2> QED  BY <2>1 DEF ReconcilerInv, ReconcilerTypeOK, Goto, cluster, history
  <1>3. OnlyTouches(k)
    BY DEF ReconcilerInv, ReconcilerTypeOK, OnlyTouches, Goto, history
  <1>4. CopiesFit(k)' /\ ChildStepsFit(k)'
    BY <1>1 DEF CopiesFit, ChildFits, ChildStepsFit
  <1>5. ReleasedHasNone(k)' /\ ReflectedAtRest(k)'
    BY <1>1 DEF ReleasedHasNone, ReflectedAtRest, Settled, At, Writing
  <1>6. HasFinalizer(k)'
    BY <1>1 DEF ChildFits, HasFinalizer
  <1>7. FinalizerStays(k)'
    BY <1>1 DEF ChildFits, FinalizerStays, LiveFin, Writing, Finalizing
  <1>8. WorkFits(k)'
    BY <1>1 DEF ChildFits, WorkFits, At
  <1> QED  BY <1>1, <1>2, <1>3, <1>4, <1>5, <1>6, <1>7, <1>8, StepKeeps DEF Fits, ChildFits

\* An update that leaves the finalizer on, and goes on with the answer or ends.
LEMMA UpdateKeeps ==
    ASSUME ReconcilerInv, NEW k \in Child, NEW r \in Resource, NEW t \in Task,
           Update(k, r, t), task[k].pc \in {"finalizer", "label"},
           Legal(k, r), Legal(k, t.obj), LiveFin(r), r.spec = task[k].obj.spec,
           \/ t = NoTask /\ r # task[k].obj
           \/ t.pc = "label" /\ t.obj = r,
           UNCHANGED <<cache, cluster, rows, history, changes>>
    PROVE  ReconcilerInv'
  <1>1. /\ k # Game /\ ReconcilerTypeOK /\ CopiesFit(k) /\ ChildFits(k)
        /\ cache'[k] = cache[k] /\ rows'[k] = rows[k] /\ abandoned' = abandoned
    BY DEF ReconcilerInv, history
  <1>2. /\ \A o \in Object \ {k} : res'[o] = res[o] /\ task'[o] = task[o]
        /\ synced' \ {k} = synced \ {k} /\ queue' \ {k} = queue \ {k}
        /\ k \in synced' => k \in synced /\ res'[k] = res[k]
        /\ \/ Fresh(k) /\ res'[k] = r /\ task'[k] = t /\ queue' = queue
           \/ Fresh(k) /\ res'[k] = r /\ task'[k] = NoTask /\ k \in queue'
           \/ res'[k] = res[k] /\ task'[k] = NoTask /\ k \in queue'
    BY <1>1, UpdateFacts
  <1>3. ReconcilerTypeOK'
    BY <1>1, UpdateFacts DEF ReconcilerTypeOK, cluster, history
  <1>4. OnlyTouches(k)
    BY <1>2 DEF OnlyTouches, history
  <1>5. Fresh(k) => res[k] = task[k].obj /\ cache[k].at # "deleted"
    BY <1>1 DEF CopiesFit, ChildFits, FinalizerStays, Writing
  <1>6. \/ Fresh(k) /\ res'[k] = r /\ task'[k].pc = "label" /\ task'[k].obj = r /\ queue' = queue
        \/ /\ task'[k].pc = "idle" /\ task'[k].version = "old"
           /\ res'[k] \in {res[k], r} /\ (res'[k] = r => Fresh(k) \/ res'[k] = res[k])
           /\ k \in queue' \/ k \notin synced'
    BY <1>1, <1>2, <1>5, NoTaskFacts
  <1>7. CopiesFit(k)'
    BY <1>1, <1>2, <1>6 DEF CopiesFit
  <1>8. ChildStepsFit(k)' /\ ReleasedHasNone(k)'
    BY <1>6 DEF ChildStepsFit, ReleasedHasNone, LiveFin, At, Writing, Finalizing
  <1>9. HasFinalizer(k)'
    BY <1>1, <1>6 DEF ChildFits, HasFinalizer, LiveFin
  <1>10. FinalizerStays(k)'
    BY <1>1, <1>5, <1>6 DEF ChildFits, FinalizerStays, LiveFin, Writing, Finalizing
  <1>11. WorkFits(k)' /\ ReflectedAtRest(k)'
    BY <1>1, <1>6 DEF ChildFits, WorkFits, ReflectedAtRest, Settled, At, Writing
  <1> QED
    BY <1>1, <1>3, <1>4, <1>7, <1>8, <1>9, <1>10, <1>11, StepKeeps DEF Fits, ChildFits

LEMMA FindGameKeeps ==
    ASSUME ReconcilerInv, NEW k \in Child, FindGame(k)
    PROVE  ReconcilerInv'
  <1> DEFINE found == Work(k, "finalizer", task[k].obj, cache[Game].status, {})
  <1>1. task[k] \in Task /\ cache[Game] \in Resource
    BY DEF ReconcilerInv, ReconcilerTypeOK
  <1>2. CASE Stop(k) /\ unattended' = unattended \cup {k}
    <2>1. HasFinalizer(k)' /\ rows \in [Child -> RowsOf]
      BY DEF FindGame, ReconcilerInv, ReconcilerTypeOK, RowsOf, ChildFits, HasFinalizer
    <2>2. ReflectedAtRest(k)'
      BY <1>2 DEF ReflectedAtRest
    <2>3. /\ queue' \subseteq Object /\ unattended' \subseteq Object
          /\ unattended' \ {k} = unattended \ {k} /\ faults' \in 0 .. MaxFaults
      BY <1>2 DEF FindGame, ReconcilerInv, ReconcilerTypeOK, Stop, Goto
    <2> QED  BY <1>2, <2>1, <2>2, <2>3, EndKeeps DEF FindGame, Stop, Goto
  <1>3. CASE Goto(k, found) /\ UNCHANGED unattended
    <2>1. /\ found \in Task /\ found.pc = "finalizer" /\ found.obj = task[k].obj
          /\ found.version = task[k].version
      <3>1. cache[Game].status \in {"none", "failed", "ready"}
        BY <1>1 DEF Resource
      <3> QED  BY <1>1, <3>1 DEF Task, PC, Work
    <2> QED
      BY <1>3, <2>1, GoOnKeeps DEF FindGame, At, Writing, history
  <1> QED  BY <1>2, <1>3 DEF FindGame

LEMMA AddFinalizerChildKeeps ==
    ASSUME ReconcilerInv, NEW k \in Child, AddFinalizer(k)
    PROVE  ReconcilerInv'
  <1> DEFINE r == WithFinalizer(task[k].obj)
             t == Work(k, "label", r, task[k].game, {})
  <1>1. /\ k # Game /\ task[k].pc = "finalizer" /\ task[k] \in Task
        /\ Legal(k, task[k].obj) /\ task[k].obj.at = "live"
        /\ UNCHANGED <<cache, cluster, rows, history, changes>>
    BY DEF ReconcilerInv, ReconcilerTypeOK, AddFinalizer, At, ChildFits, ChildStepsFit, Writing
  <1>2. task[k].obj \in Resource
    BY <1>1 DEF Task
  <1>3. /\ r \in Resource /\ Legal(k, r) /\ r.at = "live" /\ r.fin
        /\ r.spec = task[k].obj.spec
    BY <1>1, <1>2 DEF Resource, Legal, WithFinalizer, Version
  <1>4. t \in Task /\ t.pc = "label" /\ t.obj = r /\ t.version = task[k].version
    BY <1>1, <1>3 DEF Task, PC, Work
  <1>5. CASE task[k].obj.fin /\ Goto(k, t) /\ UNCHANGED <<res, synced, faults>>
    <2>1. r = task[k].obj
      BY <1>2, <1>5 DEF Resource, WithFinalizer, Version
    <2> QED  BY <1>1, <1>3, <1>4, <1>5, <2>1, GoOnKeeps DEF Writing
  <1>6. CASE Update(k, r, t)
    BY <1>1, <1>3, <1>4, <1>6, UpdateKeeps DEF LiveFin
  <1> QED  BY <1>1, <1>5, <1>6 DEF AddFinalizer

LEMMA EnsureLabelsKeeps ==
    ASSUME ReconcilerInv, NEW k \in Child, EnsureLabels(k)
    PROVE  ReconcilerInv'
  <1> DEFINE r == WithLabels(task[k].obj)
             t == [task[k] EXCEPT !.pc = "connect"]
  <1>1. /\ k # Game /\ task[k].pc = "label" /\ task[k] \in Task
        /\ Legal(k, task[k].obj) /\ task[k].obj.at = "live" /\ task[k].obj.fin
        /\ faults \in 0 .. MaxFaults
        /\ UNCHANGED <<cache, cluster, rows, history, changes>>
    BY DEF ReconcilerInv, ReconcilerTypeOK, EnsureLabels, At, ChildFits, ChildStepsFit,
           FinalizerStays, Writing
  <1>2. task[k].obj \in Resource
    BY <1>1 DEF Task
  <1>3. CASE ~task[k].obj.labels /\ Update(k, r, NoTask)
    <2>1. /\ r \in Resource /\ Legal(k, r) /\ r.at = "live" /\ r.fin
          /\ r.spec = task[k].obj.spec /\ r.labels
      BY <1>1, <1>2 DEF Resource, Legal, WithLabels, Version
    <2>2. r # task[k].obj
      BY <1>3, <2>1
    <2> QED  BY <1>1, <1>3, <2>1, <2>2, NoTaskFacts, UpdateKeeps DEF LiveFin
  <1>4. CASE Goto(k, t) /\ UNCHANGED <<res, synced, faults>>
    <2>1. t \in Task /\ t.pc = "connect" /\ t.obj = task[k].obj /\ t.version = task[k].version
      BY <1>1 DEF Task, PC
    <2> QED  BY <1>1, <1>4, <2>1, GoOnKeeps DEF Writing
  <1>5. CASE Retry(k) /\ UNCHANGED <<res, synced, faults>>
    BY <1>1, <1>5, RetrySameRows
  <1> QED  BY <1>3, <1>4, <1>5 DEF EnsureLabels

LEMMA ConnectKeeps ==
    ASSUME ReconcilerInv, NEW k \in Child, Connect(k)
    PROVE  ReconcilerInv'
  <1> DEFINE t == [task[k] EXCEPT !.pc = "record"]
  <1>1. /\ task[k].pc = "connect" /\ task[k] \in Task /\ task[k].obj.fin
        /\ faults \in 0 .. MaxFaults
    BY DEF ReconcilerInv, ReconcilerTypeOK, Connect, At, ChildFits, FinalizerStays, Writing
  <1>2. CASE Goto(k, t)
    <2>1. t \in Task /\ t.pc = "record" /\ t.obj = task[k].obj /\ t.version = task[k].version
      BY <1>1 DEF Task, PC
    <2> QED  BY <1>1, <1>2, <2>1, GoOnKeeps DEF Connect, Writing
  <1>3. CASE Retry(k)
    BY <1>1, <1>3, RetrySameRows DEF Connect
  <1> QED  BY <1>2, <1>3 DEF Connect

\* One insert of a child whose finalizer is stored: what holds of the rows it
\* makes, and of the task that goes on, is all that is left to show.
LEMMA InsertKeeps ==
    ASSUME ReconcilerInv, NEW k \in Child, NEW r \in RowsOf, NEW t \in Task, Insert(k, r, t),
           task[k].pc \in {"record", "parts"}, t.pc = "parts",
           t.obj = task[k].obj, t.version = task[k].version,
           k \notin unattended =>
             /\ r.terms # None
             /\ k \in Overwrites => r.terms = t.obj.spec.terms
             /\ t.obj.spec.parts \subseteq r.parts \cup t.todo
    PROVE  ReconcilerInv'
  <1>1. /\ k # Game /\ ReconcilerTypeOK /\ CopiesFit(k) /\ ChildFits(k)
        /\ res[k].fin /\ task[k].obj.fin
        /\ res'[k] = res[k] /\ cache'[k] = cache[k] /\ synced' = synced
        /\ abandoned' = abandoned /\ unattended' = unattended
    BY DEF ReconcilerInv, Insert, history, ChildFits, FinalizerStays, Writing
  <1>2. rows' \in [Child -> RowsOf] /\ \A j \in Child \ {k} : rows'[j] = rows[j]
    BY <1>1 DEF Insert, ReconcilerTypeOK, RowsOf
  <1>3. faults' \in 0 .. MaxFaults
    BY <1>1 DEF Insert, ReconcilerTypeOK, Fault
  <1>4. HasFinalizer(k)'
    BY <1>1 DEF HasFinalizer
  <1>5. CASE Retry(k)
    BY <1>2, <1>3, <1>4, <1>5, RetryKeeps DEF Insert
  <1>6. CASE rows' = [rows EXCEPT ![k] = r] /\ Goto(k, t) /\ UNCHANGED faults
    <2>1. task'[k] = t /\ queue' = queue /\ rows'[k] = r
      BY <1>1, <1>6 DEF ReconcilerTypeOK, Goto
    <2>2. ReconcilerTypeOK'
      <3>1. Legal(k, t.obj)
        BY <1>1 DEF ReconcilerTypeOK
      <3> QED
        BY <1>1, <1>2, <1>6, <3>1 DEF ReconcilerTypeOK, Insert, Goto, RowsOf, cluster, history
    <2>3. OnlyTouches(k)
      BY <1>1, <1>2, <1>6 DEF ReconcilerTypeOK, OnlyTouches, Insert, Goto
    <2>4. CopiesFit(k)' /\ ChildStepsFit(k)'
      BY <1>1, <2>1 DEF CopiesFit, ChildFits, ChildStepsFit, Writing
    <2>5. ReleasedHasNone(k)' /\ ReflectedAtRest(k)'
      BY <2>1 DEF ReleasedHasNone, ReflectedAtRest, Settled, At
    <2>6. FinalizerStays(k)'
      BY <1>1, <2>1 DEF ChildFits, FinalizerStays, LiveFin, Writing, Finalizing
    <2>7. WorkFits(k)'
      BY <1>1, <2>1 DEF ChildFits, WorkFits, At, Writing
    <2> QED
      BY <1>1, <1>4, <2>2, <2>3, <2>4, <2>5, <2>6, <2>7, StepKeeps DEF Fits, ChildFits
  <1> QED  BY <1>5, <1>6 DEF Insert

LEMMA WriteRecordKeeps ==
    ASSUME ReconcilerInv, NEW k \in Child, WriteRecord(k)
    PROVE  ReconcilerInv'
  <1> DEFINE spec == task[k].obj.spec
             terms == RecordOver(k, rows[k].terms)
             r == [rows[k] EXCEPT !.terms = terms]
             t == Work(k, "parts", task[k].obj, task[k].game, spec.parts)
  <1>1. /\ task[k].pc = "record" /\ task[k] \in Task /\ task[k].obj.at = "live"
        /\ Legal(k, task[k].obj) /\ rows[k] \in RowsOf
    BY DEF WriteRecord, ReconcilerInv, ReconcilerTypeOK, RowsOf, At, ChildFits, ChildStepsFit,
           Writing
  <1>2. spec \in [terms : Terms, parts : SUBSET Part]
    BY <1>1 DEF Legal, Specification
  <1>3. /\ terms \in Terms /\ (k \in Overwrites => terms = spec.terms)
    BY <1>1, <1>2 DEF RecordOver, RowsOf
  <1>4. r \in RowsOf /\ r.terms = terms
    BY <1>1, <1>3 DEF RowsOf
  <1>5. /\ t \in Task /\ t.pc = "parts" /\ t.obj = task[k].obj
        /\ t.version = task[k].version /\ t.todo = spec.parts
    BY <1>1, <1>2 DEF Task, PC, Work
  <1> QED  BY <1>1, <1>3, <1>4, <1>5, InsertKeeps DEF WriteRecord

LEMMA WritePartKeeps ==
    ASSUME ReconcilerInv, NEW k \in Child, WritePart(k)
    PROVE  ReconcilerInv'
  <1>1. PICK p \in task[k].todo :
          Insert(k, [rows[k] EXCEPT !.parts = @ \cup {p}], [task[k] EXCEPT !.todo = @ \ {p}])
    BY DEF WritePart
  <1> DEFINE r == [rows[k] EXCEPT !.parts = @ \cup {p}]
             t == [task[k] EXCEPT !.todo = @ \ {p}]
  <1>2. task[k].pc = "parts" /\ task[k] \in Task /\ rows[k] \in RowsOf /\ WorkFits(k)
    BY DEF WritePart, ReconcilerInv, ReconcilerTypeOK, RowsOf, At, ChildFits
  <1>3. /\ r \in RowsOf /\ r.terms = rows[k].terms /\ r.parts = rows[k].parts \cup {p}
    BY <1>1, <1>2 DEF RowsOf, Task
  <1>4. /\ t \in Task /\ t.pc = "parts" /\ t.obj = task[k].obj
        /\ t.version = task[k].version /\ t.todo = task[k].todo \ {p}
    BY <1>1, <1>2 DEF Task
  <1>5. k \notin unattended =>
          /\ r.terms # None
          /\ k \in Overwrites => r.terms = t.obj.spec.terms
          /\ t.obj.spec.parts \subseteq r.parts \cup t.todo
    BY <1>2, <1>3, <1>4 DEF WorkFits, At
  <1> QED  BY <1>1, <1>2, <1>3, <1>4, <1>5, InsertKeeps

\* The rows written are those of the copy at work, which is the cached one
\* when no event has come, and the server's when that is up to date.
LEMMA WrittenKeeps ==
    ASSUME ReconcilerInv, NEW k \in Child, Written(k)
    PROVE  ReconcilerInv'
  <1>1. /\ ChildFits(k) /\ CopiesFit(k) /\ rows \in [Child -> RowsOf]
        /\ task[k].pc = "parts" /\ task[k].todo = {}
        /\ res'[k] = res[k] /\ rows'[k] = rows[k] /\ synced' = synced /\ queue' = queue
        /\ unattended' = unattended /\ abandoned' = abandoned
        /\ faults' \in 0 .. MaxFaults /\ queue \subseteq Object /\ unattended \subseteq Object
    BY DEF Written, Stop, Goto, ReconcilerInv, ReconcilerTypeOK, RowsOf, At, history
  <1>2. HasFinalizer(k)'
    BY <1>1 DEF ChildFits, HasFinalizer
  <1>3. ReflectedAtRest(k)'
    BY <1>1 DEF ChildFits, CopiesFit, WorkFits, ReflectedAtRest, Settled, Reflected, At, Writing
  <1> QED  BY <1>1, <1>2, <1>3, EndKeeps DEF Written, Stop, Goto

-----------------------------------------------------------------------------
(* Finalization of a child.                                                *)

\* A step of a finalization that goes on.
LEMMA FinalizeKeeps ==
    ASSUME ReconcilerInv, NEW k \in Child, NEW pc \in {"parts gone", "record gone", "release"},
           Goto(k, [task[k] EXCEPT !.pc = pc]), task[k].pc \in Finalizing,
           rows' \in [Child -> RowsOf], \A j \in Child \ {k} : rows'[j] = rows[j],
           abandoned' \subseteq Object, abandoned' \ {k} = abandoned \ {k},
           faults' \in 0 .. MaxFaults,
           UNCHANGED <<res, cache, synced, cluster, unattended, changes>>,
           rows'[k] # NoRows => rows[k] # NoRows,
           rows'[k] # NoRows /\ k \in abandoned => k \in abandoned',
           pc = "release" => rows'[k] = NoRows \/ k \in abandoned'
    PROVE  ReconcilerInv'
  <1> DEFINE t == [task[k] EXCEPT !.pc = pc]
  <1>1. /\ k # Game /\ ReconcilerTypeOK /\ CopiesFit(k) /\ ChildFits(k)
        /\ task[k] \in Task /\ Legal(k, task[k].obj)
        /\ res'[k] = res[k] /\ cache'[k] = cache[k] /\ synced' = synced
    BY DEF ReconcilerInv, ReconcilerTypeOK
  <1>2. t \in Task /\ t.pc = pc /\ t.obj = task[k].obj /\ t.version = task[k].version
    BY <1>1 DEF Task, PC
  <1>3. task'[k] = t /\ queue' = queue
    BY <1>1 DEF Goto, ReconcilerTypeOK
  <1>4. ReconcilerTypeOK'
    BY <1>1, <1>2 DEF ReconcilerTypeOK, Goto, RowsOf, cluster
  <1>5. OnlyTouches(k)
    BY <1>1 DEF ReconcilerTypeOK, OnlyTouches, Goto
  <1>6. CopiesFit(k)' /\ ChildStepsFit(k)'
    BY <1>1, <1>2, <1>3 DEF CopiesFit, ChildStepsFit, Writing, Finalizing
  <1>7. ReleasedHasNone(k)' /\ ReflectedAtRest(k)' /\ WorkFits(k)'
    BY <1>2, <1>3 DEF ReleasedHasNone, ReflectedAtRest, Settled, WorkFits, At, Writing
  <1>8. HasFinalizer(k)'
    BY <1>1 DEF ChildFits, HasFinalizer
  <1>9. FinalizerStays(k)'
    BY <1>1, <1>2, <1>3 DEF ChildFits, FinalizerStays, LiveFin, Writing, Finalizing
  <1> QED
    BY <1>1, <1>4, <1>5, <1>6, <1>7, <1>8, <1>9, StepKeeps DEF Fits, ChildFits

LEMMA FindRowsKeeps ==
    ASSUME ReconcilerInv, NEW k \in Child, FindRows(k)
    PROVE  ReconcilerInv'
  <1>1. /\ rows \in [Child -> RowsOf] /\ task[k].pc \in Finalizing
        /\ abandoned' \subseteq Object /\ abandoned' \ {k} = abandoned \ {k}
        /\ abandoned \subseteq abandoned' /\ faults' \in 0 .. MaxFaults
    BY DEF ReconcilerInv, ReconcilerTypeOK, RowsOf, FindRows, At, Finalizing
  <1>2. CASE Goto(k, [task[k] EXCEPT !.pc = "parts gone"])
    BY <1>1, <1>2, FinalizeKeeps DEF FindRows
  <1>3. CASE Goto(k, [task[k] EXCEPT !.pc = "release"]) /\ k \in abandoned'
    BY <1>1, <1>3, FinalizeKeeps DEF FindRows
  <1> QED  BY <1>2, <1>3 DEF FindRows

\* A DELETE changes the rows of its child only, or fails.
LEMMA DeleteRowsFacts ==
    ASSUME ReconcilerInv, NEW k \in Child, NEW r \in RowsOf, DeleteRows(k, r)
    PROVE  /\ rows' \in [Child -> RowsOf] /\ \A j \in Child \ {k} : rows'[j] = rows[j]
           /\ rows'[k] \in {rows[k], r} /\ faults' \in 0 .. MaxFaults
  <1>1. rows \in [Child -> RowsOf] /\ faults \in 0 .. MaxFaults
    BY DEF ReconcilerInv, ReconcilerTypeOK, RowsOf
  <1>2. faults' \in 0 .. MaxFaults
    BY <1>1 DEF DeleteRows, Fault
  <1>3. CASE rows' = [rows EXCEPT ![k] = r]
    BY <1>1, <1>2, <1>3
  <1>4. CASE UNCHANGED rows
    BY <1>1, <1>2, <1>4
  <1> QED  BY <1>3, <1>4 DEF DeleteRows

LEMMA DeletePartsKeeps ==
    ASSUME ReconcilerInv, NEW k \in Child, DeleteParts(k)
    PROVE  ReconcilerInv'
  <1> DEFINE r == [rows[k] EXCEPT !.parts = {}]
  <1>1. /\ rows \in [Child -> RowsOf] /\ rows[k] \in RowsOf /\ task[k].pc \in Finalizing
        /\ abandoned' = abandoned /\ abandoned \subseteq Object
    BY DEF ReconcilerInv, ReconcilerTypeOK, RowsOf, DeleteParts, At, Finalizing, history
  <1>2. r \in RowsOf /\ (rows[k] = NoRows => r = NoRows)
    BY <1>1 DEF RowsOf, NoRows
  <1>3. /\ rows' \in [Child -> RowsOf] /\ \A j \in Child \ {k} : rows'[j] = rows[j]
        /\ rows'[k] \in {rows[k], r} /\ faults' \in 0 .. MaxFaults
    BY <1>2, DeleteRowsFacts DEF DeleteParts
  <1> QED  BY <1>1, <1>2, <1>3, FinalizeKeeps DEF DeleteParts, history

LEMMA DeleteRecordKeeps ==
    ASSUME ReconcilerInv, NEW k \in Child, DeleteRecord(k)
    PROVE  ReconcilerInv'
  <1> DEFINE r == [rows[k] EXCEPT !.terms = None]
  <1>1. /\ rows \in [Child -> RowsOf] /\ rows[k] \in RowsOf /\ task[k].pc \in Finalizing
        /\ abandoned' \subseteq Object /\ abandoned' \ {k} = abandoned \ {k}
        /\ rows'[k] # NoRows => k \in abandoned'
    BY DEF ReconcilerInv, ReconcilerTypeOK, RowsOf, DeleteRecord, At, Finalizing
  <1>2. r \in RowsOf /\ (rows[k] = NoRows => r = NoRows)
    <2>1. r = [terms |-> None, parts |-> rows[k].parts] /\ rows[k].parts \in SUBSET Part
      BY <1>1 DEF RowsOf
    <2> HIDE DEF r
    <2>2. r \in RowsOf
      BY <2>1 DEF RowsOf
    <2>3. rows[k] = NoRows => r = NoRows
      BY <2>1 DEF NoRows
    <2> QED  BY <2>2, <2>3
  <1>3. /\ rows' \in [Child -> RowsOf] /\ \A j \in Child \ {k} : rows'[j] = rows[j]
        /\ rows'[k] \in {rows[k], r} /\ faults' \in 0 .. MaxFaults
    BY <1>2, DeleteRowsFacts DEF DeleteRecord
  <1> QED  BY <1>1, <1>2, <1>3, FinalizeKeeps DEF DeleteRecord

LEMMA RemoveFinalizerChildKeeps ==
    ASSUME ReconcilerInv, NEW k \in Child, RemoveFinalizer(k)
    PROVE  ReconcilerInv'
  <1>1. /\ k # Game /\ ReconcilerTypeOK /\ CopiesFit(k) /\ ChildFits(k)
        /\ cache'[k] = cache[k] /\ rows'[k] = rows[k] /\ abandoned' = abandoned
        /\ task[k].pc = "release" /\ UNCHANGED <<cache, cluster, rows, history, changes>>
    BY DEF ReconcilerInv, RemoveFinalizer, At, history, cluster
  <1>2. /\ Absent \in Resource /\ Absent.at = "absent" /\ Legal(k, Absent)
        /\ NoTask \in Task /\ Legal(k, NoTask.obj)
        /\ NoTask.pc = "idle" /\ NoTask.version = "old"
    BY NoTaskFacts DEF Resource, Absent, Version, Legal
  <1>3. Update(k, Absent, NoTask)
    BY DEF RemoveFinalizer
  <1>4. /\ \A o \in Object \ {k} : res'[o] = res[o] /\ task'[o] = task[o]
        /\ synced' \ {k} = synced \ {k} /\ queue' \ {k} = queue \ {k}
        /\ k \in synced' => k \in synced /\ res'[k] = res[k]
        /\ task'[k].pc = "idle" /\ task'[k].version = "old"
        /\ res'[k].at = "absent" \/ (res'[k] = res[k] /\ k \in queue')
    BY <1>1, <1>2, <1>3, UpdateFacts
  <1>5. ReconcilerTypeOK'
    BY <1>1, <1>2, <1>3, UpdateFacts DEF ReconcilerTypeOK, cluster, history
  <1>6. OnlyTouches(k)
    BY <1>1, <1>4 DEF OnlyTouches, history
  <1>7. CopiesFit(k)' /\ ChildStepsFit(k)' /\ ReleasedHasNone(k)' /\ WorkFits(k)'
    BY <1>1, <1>4
    DEF CopiesFit, ChildStepsFit, ReleasedHasNone, WorkFits, At, Writing, Finalizing
  <1>8. HasFinalizer(k)'
    BY <1>1 DEF ChildFits, ReleasedHasNone, HasFinalizer, At
  <1>9. FinalizerStays(k)'
    BY <1>1, <1>4 DEF ChildFits, FinalizerStays, LiveFin, Writing, Finalizing
  <1>10. ReflectedAtRest(k)'
    BY <1>4 DEF ReflectedAtRest, Settled
  <1> QED
    BY <1>1, <1>5, <1>6, <1>7, <1>8, <1>9, <1>10, StepKeeps DEF Fits, ChildFits

-----------------------------------------------------------------------------
(* Reconciliation of the Game.                                             *)

\* A step of the Game's reconciliation says nothing new of a child.
LEMMA GameKeeps ==
    ASSUME ReconcilerInv, ReconcilerTypeOK', UNCHANGED <<cache, rows, history>>,
           \A k \in Child : res'[k] = res[k] /\ task'[k] = task[k],
           synced' \ {Game} = synced \ {Game}, queue' \ {Game} = queue \ {Game},
           Game \in synced' => Game \in synced /\ res'[Game] = res[Game],
           \/ task'[Game].pc = "idle" /\ task'[Game].version = "old"
           \/ /\ task'[Game].pc \in GamePC /\ task'[Game].obj.at = "live"
              /\ Fresh(Game)' => task'[Game].obj = res'[Game]
    PROVE  ReconcilerInv'
  <1>1. OnlyTouches(Game)
    BY DEF OnlyTouches, history
  <1>2. CopiesFit(Game)'
    BY DEF ReconcilerInv, CopiesFit
  <1>3. GameStepsFit'
    BY DEF GameStepsFit, GamePC
  <1> QED  BY <1>1, <1>2, <1>3, StepKeeps DEF Fits

\* It goes on with the same copy.
LEMMA GameGoesOn ==
    ASSUME ReconcilerInv, NEW pc \in {"deployment", "service", "status"},
           task[Game].pc \in GamePC \ {"idle", "release"},
           Goto(Game, [task[Game] EXCEPT !.pc = pc]),
           UNCHANGED <<res, cache, synced, rows, history, changes, secret, doomed, faults>>,
           service' \in BOOLEAN, database' \in {"none", "down", "up"}
    PROVE  ReconcilerInv'
  <1> DEFINE t == [task[Game] EXCEPT !.pc = pc]
  <1>1. /\ ReconcilerTypeOK /\ task[Game] \in Task /\ Legal(Game, task[Game].obj)
        /\ task[Game].obj.at = "live" /\ CopiesFit(Game)
    BY DEF ReconcilerInv, ReconcilerTypeOK, GameStepsFit
  <1>2. t \in Task /\ t.pc = pc /\ t.obj = task[Game].obj /\ t.version = task[Game].version
    BY <1>1 DEF Task, PC
  <1>3. task'[Game] = t /\ \A k \in Child : task'[k] = task[k]
    BY <1>1 DEF ReconcilerTypeOK, Goto
  <1>4. ReconcilerTypeOK'
    BY <1>1, <1>2 DEF ReconcilerTypeOK, Goto, history
  <1>5. Fresh(Game)' => task'[Game].obj = res'[Game]
    BY <1>1, <1>2, <1>3 DEF CopiesFit
  <1> QED  BY <1>1, <1>2, <1>3, <1>4, <1>5, GameKeeps DEF Goto, GamePC

\* It ends with an error.
LEMMA GameComesBack ==
    ASSUME ReconcilerInv, Retry(Game), faults' \in 0 .. MaxFaults,
           UNCHANGED <<cache, rows, history, changes, secret, doomed>>,
           res' \in [Object -> Resource], Legal(Game, res'[Game]),
           \A k \in Child : res'[k] = res[k],
           synced' \subseteq Object, synced' \ {Game} = synced \ {Game},
           Game \in synced' => Game \in synced /\ res'[Game] = res[Game],
           service' \in BOOLEAN, database' \in {"none", "down", "up"}
    PROVE  ReconcilerInv'
  <1>1. /\ NoTask \in Task /\ \A o \in Object : Legal(o, NoTask.obj)
        /\ NoTask.pc = "idle" /\ NoTask.version = "old"
    BY NoTaskFacts
  <1>2. /\ task'[Game] = NoTask /\ \A k \in Child : task'[k] = task[k]
        /\ queue' \ {Game} = queue \ {Game}
    BY DEF ReconcilerInv, ReconcilerTypeOK, Retry
  <1>3. ReconcilerTypeOK'
    BY <1>1, <1>2 DEF ReconcilerInv, ReconcilerTypeOK, Retry, history
  <1> QED  BY <1>1, <1>2, <1>3, GameKeeps

\* It updates the Game, and goes on with the answer or ends.
LEMMA GameUpdate ==
    ASSUME ReconcilerInv, NEW r \in Resource, NEW t \in Task, Update(Game, r, t),
           Legal(Game, r), Legal(Game, t.obj),
           \/ t = NoTask
           \/ t.pc = "secret" /\ t.obj = r /\ r.at = "live",
           UNCHANGED <<cache, secret, database, service, rows, history, changes>>,
           doomed' \subseteq {"deployment", "service"}
    PROVE  ReconcilerInv'
  <1>1. /\ ReconcilerTypeOK /\ NoTask.pc = "idle" /\ NoTask.version = "old"
    BY NoTaskFacts DEF ReconcilerInv
  <1>2. /\ \A o \in Object \ {Game} : res'[o] = res[o] /\ task'[o] = task[o]
        /\ synced' \ {Game} = synced \ {Game} /\ queue' \ {Game} = queue \ {Game}
        /\ Game \in synced' => Game \in synced /\ res'[Game] = res[Game]
        /\ task'[Game] = NoTask \/ (task'[Game] = t /\ res'[Game] = r)
    BY <1>1, UpdateFacts
  <1>3. ReconcilerTypeOK'
    BY <1>1, UpdateFacts DEF ReconcilerTypeOK, history
  <1>4. \A k \in Child : res'[k] = res[k] /\ task'[k] = task[k]
    BY <1>2
  <1> QED  BY <1>1, <1>2, <1>3, <1>4, GameKeeps DEF GamePC

LEMMA AddFinalizerGameKeeps ==
    ASSUME ReconcilerInv, AddFinalizer(Game)
    PROVE  ReconcilerInv'
  <1> DEFINE r == WithFinalizer(task[Game].obj)
             t == Work(Game, "secret", r, task[Game].game, {})
  <1>1. /\ ReconcilerTypeOK /\ task[Game].pc = "finalizer" /\ task[Game] \in Task
        /\ Legal(Game, task[Game].obj) /\ task[Game].obj.at = "live" /\ CopiesFit(Game)
        /\ UNCHANGED <<cache, cluster, rows, history, changes>>
    BY DEF ReconcilerInv, ReconcilerTypeOK, AddFinalizer, At, GameStepsFit
  <1>2. task[Game].obj \in Resource
    BY <1>1 DEF Task
  <1>3. r \in Resource /\ Legal(Game, r) /\ r.at = "live"
    BY <1>1, <1>2 DEF Resource, Legal, WithFinalizer, Version
  <1>4. t \in Task /\ t.pc = "secret" /\ t.obj = r /\ t.version = task[Game].version
    BY <1>1, <1>3 DEF Task, PC, Work
  <1>5. CASE task[Game].obj.fin /\ Goto(Game, t) /\ UNCHANGED <<res, synced, faults>>
    <2>1. r = task[Game].obj
      BY <1>2, <1>5 DEF Resource, WithFinalizer, Version
    <2>2. task'[Game] = t /\ \A k \in Child : task'[k] = task[k]
      BY <1>1, <1>5 DEF ReconcilerTypeOK, Goto
    <2>3. ReconcilerTypeOK'
      BY <1>1, <1>3, <1>4, <1>5 DEF ReconcilerTypeOK, Goto, cluster, history
    <2>4. Fresh(Game)' => task'[Game].obj = res'[Game]
      BY <1>1, <1>4, <1>5, <2>1, <2>2 DEF CopiesFit
    <2> QED  BY <1>1, <1>3, <1>4, <1>5, <2>2, <2>3, <2>4, GameKeeps DEF Goto, GamePC
  <1>6. CASE Update(Game, r, t)
    BY <1>1, <1>3, <1>4, <1>6, GameUpdate DEF cluster, ReconcilerTypeOK
  <1> QED  BY <1>1, <1>5, <1>6 DEF AddFinalizer

LEMMA CredentialsKeeps ==
    ASSUME ReconcilerInv, Credentials
    PROVE  ReconcilerInv'
  <1> DEFINE r == WithStatus(task[Game].obj, "failed")
  <1>1. /\ ReconcilerTypeOK /\ task[Game].pc = "secret" /\ task[Game] \in Task
        /\ Legal(Game, task[Game].obj)
        /\ UNCHANGED <<cache, cluster, rows, history, changes>>
        /\ UNCHANGED <<secret, database, service, doomed>>
    BY DEF ReconcilerInv, ReconcilerTypeOK, Credentials, At, cluster
  <1>2. task[Game].obj \in Resource
    BY <1>1 DEF Task
  <1>3. r \in Resource /\ Legal(Game, r)
    BY <1>1, <1>2 DEF Resource, Legal, WithStatus, Version
  <1>4. faults' \in 0 .. MaxFaults
    BY <1>1 DEF Credentials, Fault, ReconcilerTypeOK
  <1>5. service' \in BOOLEAN /\ database' \in {"none", "down", "up"}
    BY <1>1 DEF ReconcilerTypeOK
  <1>6. CASE /\ Goto(Game, [task[Game] EXCEPT !.pc = "deployment"])
             /\ UNCHANGED <<res, synced, faults>>
    BY <1>1, <1>5, <1>6, GameGoesOn DEF GamePC
  <1>7. CASE Retry(Game) /\ Put(Game, r)
    <2>1. /\ res' \in [Object -> Resource] /\ res'[Game] = r
          /\ \A k \in Child : res'[k] = res[k]
          /\ synced' \subseteq Object /\ synced' \ {Game} = synced \ {Game}
          /\ Game \in synced' => Game \in synced /\ res'[Game] = res[Game]
      BY <1>1, <1>3, <1>7 DEF ReconcilerTypeOK, Put
    <2> QED  BY <1>1, <1>3, <1>4, <1>5, <1>7, <2>1, GameComesBack
  <1>8. CASE Retry(Game) /\ UNCHANGED <<res, synced>>
    BY <1>1, <1>4, <1>5, <1>8, GameComesBack DEF ReconcilerTypeOK
  <1> QED  BY <1>6, <1>7, <1>8 DEF Credentials

LEMMA EnsureDeploymentKeeps ==
    ASSUME ReconcilerInv, EnsureDeployment
    PROVE  ReconcilerInv'
  <1>1. /\ ReconcilerTypeOK /\ task[Game].pc = "deployment"
        /\ UNCHANGED <<res, cache, synced, secret, service, doomed, rows, history, changes>>
    BY DEF ReconcilerInv, EnsureDeployment, At
  <1>2. /\ faults' \in 0 .. MaxFaults /\ service' \in BOOLEAN
        /\ database' \in {"none", "down", "up"}
    BY <1>1 DEF ReconcilerTypeOK, EnsureDeployment, Fault
  <1>3. CASE Goto(Game, [task[Game] EXCEPT !.pc = "service"]) /\ UNCHANGED faults
    BY <1>1, <1>2, <1>3, GameGoesOn DEF GamePC
  <1>4. CASE Retry(Game)
    BY <1>1, <1>2, <1>4, GameComesBack DEF ReconcilerTypeOK
  <1> QED  BY <1>3, <1>4 DEF EnsureDeployment

LEMMA EnsureServiceKeeps ==
    ASSUME ReconcilerInv, EnsureService
    PROVE  ReconcilerInv'
  <1>1. /\ ReconcilerTypeOK /\ task[Game].pc = "service"
        /\ UNCHANGED <<res, cache, synced, secret, database, doomed, rows, history, changes>>
    BY DEF ReconcilerInv, EnsureService, At
  <1>2. /\ faults' \in 0 .. MaxFaults /\ service' \in BOOLEAN
        /\ database' \in {"none", "down", "up"}
    <2>1. service' \in BOOLEAN
      BY DEF EnsureService
    <2>2. faults' \in 0 .. MaxFaults
      BY <1>1 DEF ReconcilerTypeOK, EnsureService, Fault
    <2>3. database' \in {"none", "down", "up"}
      BY <1>1 DEF ReconcilerTypeOK
    <2> QED  BY <2>1, <2>2, <2>3
  <1>3. CASE Goto(Game, [task[Game] EXCEPT !.pc = "status"]) /\ UNCHANGED faults
    BY <1>1, <1>2, <1>3, GameGoesOn DEF GamePC
  <1>4. CASE Retry(Game)
    BY <1>1, <1>2, <1>4, GameComesBack DEF ReconcilerTypeOK
  <1> QED  BY <1>3, <1>4 DEF EnsureService

LEMMA SetReadyKeeps ==
    ASSUME ReconcilerInv, SetReady
    PROVE  ReconcilerInv'
  <1> DEFINE r == WithStatus(task[Game].obj, "ready")
  <1>1. /\ ReconcilerTypeOK /\ task[Game] \in Task /\ Legal(Game, task[Game].obj)
        /\ UNCHANGED <<cache, secret, database, service, doomed, rows, history, changes>>
    BY DEF ReconcilerInv, ReconcilerTypeOK, SetReady, cluster
  <1>2. task[Game].obj \in Resource
    BY <1>1 DEF Task
  <1>3. r \in Resource /\ Legal(Game, r)
    BY <1>1, <1>2 DEF Resource, Legal, WithStatus, Version
  <1> QED  BY <1>1, <1>3, NoTaskFacts, GameUpdate DEF SetReady, ReconcilerTypeOK

LEMMA RemoveFinalizerGameKeeps ==
    ASSUME ReconcilerInv, RemoveFinalizer(Game)
    PROVE  ReconcilerInv'
  <1>1. /\ Absent \in Resource /\ Legal(Game, Absent)
        /\ NoTask \in Task /\ Legal(Game, NoTask.obj)
    BY NoTaskFacts DEF Resource, Absent, Version, Legal
  <1>2. doomed' \subseteq {"deployment", "service"}
    BY DEF RemoveFinalizer, ReconcilerInv, ReconcilerTypeOK
  <1> QED  BY <1>1, <1>2, GameUpdate DEF RemoveFinalizer

-----------------------------------------------------------------------------
(* Users and the cluster.                                                  *)

\* A step that touches no object.
LEMMA SameObjects ==
    ASSUME ReconcilerInv, ReconcilerTypeOK',
           UNCHANGED <<res, cache, synced, queue, task, rows, history>>
    PROVE  ReconcilerInv'
  <1>1. /\ \A o \in Object : CopiesFit(o) /\ GameStepsFit
        /\ \A k \in Child : ChildFits(k)
    BY DEF ReconcilerInv
  <1>2. GameStepsFit' /\ \A o \in Object : CopiesFit(o)'
    BY <1>1 DEF GameStepsFit, CopiesFit
  <1>3. ASSUME NEW k \in Child
        PROVE  ChildFits(k)'
    <2>1. /\ ChildFits(k) /\ UNCHANGED <<res[k], cache[k], task[k], rows[k]>>
          /\ UNCHANGED <<synced, queue, unattended, abandoned>>
      BY <1>1 DEF history
    <2> QED
      BY <2>1 DEF ChildFits, ChildStepsFit, FinalizerStays, ReleasedHasNone, WorkFits,
                  HasFinalizer, ReflectedAtRest, Reflected, Settled, At
  <1> QED  BY <1>2, <1>3 DEF ReconcilerInv

\* A user's write leaves finalizers alone, but on what goes away or comes anew.
LEMMA ChangeKeeps ==
    ASSUME ReconcilerInv, NEW o \in Object, NEW r \in Resource, Change(o, r), Legal(o, r),
           r # res[o], res[o].fin => r.fin, LiveFin(r) => LiveFin(res[o])
    PROVE  ReconcilerInv'
  <1> DEFINE t == [task[o] EXCEPT !.version = "old"]
  <1>1. /\ ReconcilerTypeOK /\ task[o] \in Task /\ task' = [task EXCEPT ![o] = t]
        /\ changes' \in 0 .. MaxChanges /\ Put(o, r)
        /\ UNCHANGED <<cache, queue, cluster, rows, history, faults>>
    BY DEF ReconcilerInv, ReconcilerTypeOK, Change
  <1>2. t \in Task /\ t.version = "old" /\ t.pc = task[o].pc /\ t.obj = task[o].obj
    BY <1>1 DEF Task
  <1>3. /\ task'[o] = t /\ res'[o] = r /\ o \notin synced'
        /\ res' \in [Object -> Resource] /\ synced' = synced \ {o}
        /\ \A p \in Object \ {o} : res'[p] = res[p] /\ task'[p] = task[p]
    BY <1>1 DEF ReconcilerTypeOK, Put
  <1>4. ReconcilerTypeOK'
    BY <1>1, <1>2, <1>3 DEF ReconcilerTypeOK, cluster, history
  <1>5. OnlyTouches(o)
    BY <1>1, <1>3 DEF OnlyTouches, history
  <1>6. CopiesFit(o)'
    BY <1>2, <1>3 DEF CopiesFit
  <1>7. o = Game => GameStepsFit'
    BY <1>2, <1>3 DEF ReconcilerInv, GameStepsFit
  <1>8. ASSUME o \in Child
        PROVE  ChildFits(o)'
    <2>1. /\ ChildFits(o) /\ task'[o].pc = task[o].pc /\ task'[o].obj = task[o].obj
          /\ task'[o].version = "old" /\ task'[o].todo = task[o].todo
          /\ res'[o] = r /\ cache'[o] = cache[o] /\ rows'[o] = rows[o] /\ o \notin synced'
          /\ queue' = queue /\ unattended' = unattended /\ abandoned' = abandoned
      BY <1>1, <1>2, <1>3, <1>8 DEF ReconcilerInv, history, Task
    <2>2. ChildStepsFit(o)' /\ ReleasedHasNone(o)' /\ ReflectedAtRest(o)'
      BY <2>1 DEF ChildFits, ChildStepsFit, ReleasedHasNone, ReflectedAtRest, Settled, At
    <2>3. FinalizerStays(o)'
      BY <2>1 DEF ChildFits, FinalizerStays, LiveFin
    <2>4. WorkFits(o)' /\ HasFinalizer(o)'
      BY <2>1 DEF ChildFits, WorkFits, HasFinalizer, At
    <2> QED  BY <2>2, <2>3, <2>4 DEF ChildFits
  <1> QED  BY <1>4, <1>5, <1>6, <1>7, <1>8, StepKeeps DEF Fits

LEMMA UsersKeep ==
    ASSUME ReconcilerInv, Users
    PROVE  ReconcilerInv'
  <1>1. /\ ReconcilerTypeOK /\ \A o \in Object : res[o] \in Resource /\ Legal(o, res[o])
    BY DEF ReconcilerInv, ReconcilerTypeOK
  <1>2. CASE ApplyGame
    <2>1. /\ New(None) \in Resource /\ Legal(Game, New(None))
          /\ New(None).at = "live" /\ ~New(None).fin
      BY DEF New, Version, Resource, Legal
    <2> QED  BY <1>1, <1>2, <2>1, ChangeKeeps DEF ApplyGame, Legal, LiveFin
  <1>3. ASSUME NEW k \in Child, Apply(k)
        PROVE  ReconcilerInv'
    <2>1. PICK s \in Specs : Change(k, New(s))
      BY <1>3 DEF Apply
    <2>2. New(s) \in Resource /\ Legal(k, New(s)) /\ New(s).at = "live" /\ ~New(s).fin
      BY DEF New, Version, Resource, Legal
    <2> QED  BY <1>1, <1>3, <2>1, <2>2, ChangeKeeps DEF Apply, Legal, LiveFin
  <1>4. ASSUME NEW k \in Child, Edit(k)
        PROVE  ReconcilerInv'
    <2>1. PICK s \in Specs \ {res[k].spec} : Change(k, WithSpec(res[k], s))
      BY <1>4 DEF Edit
    <2> DEFINE r == WithSpec(res[k], s)
    <2>2. /\ r \in Resource /\ r.at = res[k].at /\ r.fin = res[k].fin /\ r.spec = s
      BY <1>1 DEF WithSpec, Version, Resource
    <2>3. Legal(k, r)
      BY <1>1, <2>2 DEF Legal
    <2> QED  BY <2>1, <2>2, <2>3, ChangeKeeps DEF LiveFin
  <1>5. ASSUME NEW o \in Object, Delete(o)
        PROVE  ReconcilerInv'
    <2> DEFINE r == Deleted(res[o])
    <2>1. res[o].at = "live" /\ Change(o, r)
      BY <1>5 DEF Delete
    <2>2. /\ r \in Resource /\ r.at # "live" /\ Legal(o, r)
          /\ res[o].fin => r.fin
      <3>1. CASE res[o].fin
        <4>1. r = Version("deleted", res[o].fin, res[o].labels, res[o].status, res[o].spec)
          BY <3>1 DEF Deleted
        <4>2. /\ r \in Resource /\ r.at = "deleted" /\ r.fin /\ r.spec = res[o].spec
          BY <1>1, <3>1, <4>1 DEF Version, Resource
        <4> QED  BY <1>1, <2>1, <4>2 DEF Legal
      <3>2. CASE ~res[o].fin
        BY <3>2 DEF Deleted, Absent, Version, Resource, Legal
      <3> QED  BY <3>1, <3>2
    <2> QED  BY <2>1, <2>2, ChangeKeeps DEF LiveFin
  <1>6. CASE ChangeSecret
    <2>1. ReconcilerTypeOK'
      BY <1>1, <1>6 DEF ReconcilerTypeOK, ChangeSecret, history
    <2>2. UNCHANGED <<res, cache, synced, queue, task, rows, history>>
      BY <1>6 DEF ChangeSecret
    <2> QED  BY <2>1, <2>2, SameObjects
  <1> QED  BY <1>2, <1>3, <1>4, <1>5, <1>6 DEF Users

\* The rows of all children are lost at once.
LEMMA LostKeeps ==
    ASSUME ReconcilerInv, ReconcilerTypeOK', Lost,
           UNCHANGED <<res, cache, synced, queue, task, abandoned>>
    PROVE  ReconcilerInv'
  <1>1. /\ \A o \in Object : CopiesFit(o) /\ GameStepsFit
        /\ \A k \in Child : ChildFits(k)
    BY DEF ReconcilerInv
  <1>2. GameStepsFit' /\ \A o \in Object : CopiesFit(o)'
    BY <1>1 DEF GameStepsFit, CopiesFit
  <1>3. ASSUME NEW k \in Child
        PROVE  ChildFits(k)'
    <2>1. /\ ChildFits(k) /\ UNCHANGED <<res[k], cache[k], task[k], synced, queue, abandoned>>
          /\ rows'[k] = NoRows /\ k \in unattended'
      BY <1>1 DEF Lost
    <2> QED
      BY <2>1 DEF ChildFits, ChildStepsFit, FinalizerStays, ReleasedHasNone, WorkFits,
                  HasFinalizer, ReflectedAtRest, At
  <1> QED  BY <1>2, <1>3 DEF ReconcilerInv

\* Of the database and the cluster.
LEMMA ClusterKeeps ==
    ASSUME ReconcilerInv, Cluster \/ DatabaseStops
    PROVE  ReconcilerInv'
  <1>1. ReconcilerTypeOK
    BY DEF ReconcilerInv
  <1>2. Lost => rows' \in [Child -> RowsOf] /\ unattended' \subseteq Object
    BY DEF Lost, NoRows, RowsOf
  <1>3. CASE DatabaseStarts
    <2>1. ReconcilerTypeOK'
      BY <1>1, <1>3 DEF ReconcilerTypeOK, DatabaseStarts, history
    <2> QED  BY <1>3, <2>1, SameObjects DEF DatabaseStarts
  <1>4. CASE CollectService
    <2>1. ReconcilerTypeOK'
      BY <1>1, <1>4 DEF ReconcilerTypeOK, CollectService, history
    <2> QED  BY <1>4, <2>1, SameObjects DEF CollectService
  <1>5. CASE CollectDeployment
    <2>1. ReconcilerTypeOK'
      BY <1>1, <1>2, <1>5 DEF ReconcilerTypeOK, CollectDeployment, RowsOf
    <2> QED  BY <1>5, <2>1, LostKeeps DEF CollectDeployment
  <1>6. CASE DatabaseStops
    <2>1. ReconcilerTypeOK'
      BY <1>1, <1>2, <1>6 DEF ReconcilerTypeOK, DatabaseStops, Fault, RowsOf
    <2>2. CASE Lost
      BY <1>6, <2>1, <2>2, LostKeeps DEF DatabaseStops
    <2>3. CASE UNCHANGED <<rows, unattended>>
      BY <1>6, <2>1, <2>3, SameObjects DEF DatabaseStops, history
    <2> QED  BY <1>6, <2>2, <2>3 DEF DatabaseStops
  <1> QED  BY <1>3, <1>4, <1>5, <1>6 DEF Cluster

-----------------------------------------------------------------------------

LEMMA InitFits == Init => ReconcilerInv
  <1> SUFFICES ASSUME Init PROVE ReconcilerInv
    OBVIOUS
  <1>1. /\ NoTask \in Task /\ NoTask.pc = "idle" /\ NoTask.version = "old"
        /\ \A o \in Object : Legal(o, NoTask.obj) /\ task[o] = NoTask
    BY NoTaskFacts DEF Init
  <1>2. /\ Absent \in Resource /\ Absent.at = "absent" /\ ~Absent.fin
        /\ New(None) \in Resource /\ New(None).at = "live" /\ ~New(None).fin
    BY DEF Absent, New, Version, Resource
  <1>3. /\ cache = res /\ res \in [Object -> Resource] /\ synced = Object
        /\ \A o \in Object : Legal(o, res[o])
        /\ \A k \in Child : res[k] = Absent
    BY <1>2 DEF Init, Legal
  <1>4. rows \in [Child -> RowsOf] /\ \A k \in Child : rows[k] = NoRows
    BY DEF Init, NoRows, RowsOf
  <1>5. ReconcilerTypeOK
    <2>1. task \in [Object -> Task] /\ queue \subseteq Object
      BY <1>1 DEF Init
    <2>2. secret \in BOOLEAN /\ service \in BOOLEAN
      BY DEF Init
    <2>3. /\ database \in {"none", "down", "up"} /\ doomed \subseteq {"deployment", "service"}
          /\ unattended \subseteq Object /\ abandoned \subseteq Object
          /\ changes \in 0 .. MaxChanges /\ faults \in 0 .. MaxFaults
      BY DEF Init
    <2> QED  BY <1>1, <1>3, <1>4, <2>1, <2>2, <2>3 DEF ReconcilerTypeOK, RowsOf
  <1>6. GameStepsFit /\ \A o \in Object : CopiesFit(o)
    BY <1>1, <1>3 DEF GameStepsFit, GamePC, CopiesFit
  <1>7. ASSUME NEW k \in Child
        PROVE  ChildFits(k)
    <2>1. /\ task[k].pc = "idle" /\ task[k].version = "old" /\ rows[k] = NoRows
          /\ res[k].at = "absent" /\ cache[k].at = "absent"
      BY <1>1, <1>2, <1>3, <1>4
    <2> QED
      BY <2>1 DEF ChildFits, ChildStepsFit, FinalizerStays, ReleasedHasNone, WorkFits,
                  HasFinalizer, ReflectedAtRest, Settled, LiveFin, At, Writing, Finalizing
  <1> QED  BY <1>5, <1>6, <1>7 DEF ReconcilerInv

\* Every step keeps the invariant, action by action.
LEMMA StepFits == ReconcilerInv /\ [Next]_vars => ReconcilerInv'
  <1> SUFFICES ASSUME ReconcilerInv, [Next]_vars PROVE ReconcilerInv'
    OBVIOUS
  <1>1. ASSUME NEW k \in Child, ReconcileChild(k)
        PROVE  ReconcilerInv'
    <2>1. CASE Take(k) \/ FindGame(k) \/ AddFinalizer(k) \/ EnsureLabels(k) \/ Connect(k)
      BY <2>1, TakeKeeps, FindGameKeeps, AddFinalizerChildKeeps, EnsureLabelsKeeps, ConnectKeeps
    <2>2. CASE WriteRecord(k) \/ WritePart(k) \/ Written(k)
      BY <2>2, WriteRecordKeeps, WritePartKeeps, WrittenKeeps
    <2>3. CASE FindRows(k) \/ DeleteParts(k) \/ DeleteRecord(k) \/ RemoveFinalizer(k)
      BY <2>3, FindRowsKeeps, DeletePartsKeeps, DeleteRecordKeeps, RemoveFinalizerChildKeeps
    <2> QED  BY <1>1, <2>1, <2>2, <2>3 DEF ReconcileChild
  <1>2. CASE ReconcileGame
    BY <1>2, TakeKeeps, AddFinalizerGameKeeps, CredentialsKeeps, EnsureDeploymentKeeps,
       EnsureServiceKeeps, SetReadyKeeps, RemoveFinalizerGameKeeps DEF ReconcileGame
  <1>3. ASSUME NEW o \in Object, Sync(o)
        PROVE  ReconcilerInv'
    BY <1>3, SyncKeeps
  <1>4. CASE Users \/ Cluster \/ DatabaseStops \/ Restart
    BY <1>4, UsersKeep, ClusterKeeps, RestartKeeps
  <1>5. CASE UNCHANGED vars
    <2>1. UNCHANGED <<res, cache, synced, queue, task, rows, history>> /\ ReconcilerTypeOK'
      BY <1>5 DEF vars, history, ReconcilerInv, ReconcilerTypeOK
    <2> QED  BY <2>1, SameObjects
  <1> QED  BY <1>1, <1>2, <1>3, <1>4, <1>5 DEF Next

\* The invariant of the reconcilers, for any children, specifications and bounds.
THEOREM ReconcilerInvariantHolds == Spec => []ReconcilerInv
  <1> QED  BY InitFits, StepFits, PTL DEF Spec

\* Types; no copy of a resource is in a state the API server does not allow.
THEOREM ReconcilerTypeCorrect == Spec => []ReconcilerTypeOK
  <1>1. ReconcilerInv => ReconcilerTypeOK
    BY DEF ReconcilerInv
  <1> QED  BY <1>1, ReconcilerInvariantHolds, PTL

\* Rows exist only under a finalizer, or were given up
\* (avatar_controller.go:62-98).
THEOREM RowsUnderFinalizer == Spec => []RowsHaveFinalizer
  <1>1. ReconcilerInv => RowsHaveFinalizer
    BY DEF ReconcilerInv, RowsHaveFinalizer, ChildFits
  <1> QED  BY <1>1, ReconcilerInvariantHolds, PTL

\* A child at rest is reflected by its rows, unless no event is due that
\* would bring it back (avatar_controller.go:87).
THEOREM NoWakeupLost == Spec => []SettledIsReflected
  <1>1. ReconcilerInv => SettledIsReflected
    BY DEF ReconcilerInv, SettledIsReflected, ChildFits
  <1> QED  BY <1>1, ReconcilerInvariantHolds, PTL
=============================================================================
