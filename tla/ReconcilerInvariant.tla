------------------------ MODULE ReconcilerInvariant -------------------------
(* The inductive invariant of the reconcilers, object by object.           *)
EXTENDS ReconcilerProperties

LiveFin(r) == r.at = "live" /\ r.fin

\* Reconciliation of a child that was live when it was taken, and of one that
\* was deleted.
Writing == {"game", "finalizer", "label", "connect", "record", "parts"}
Finalizing == {"purge", "parts gone", "record gone", "release"}
GamePC == {"idle", "finalizer", "secret", "deployment", "service", "status", "release"}

\* An up-to-date copy is the server's resource.
CopiesFit(o) ==
    /\ o \in synced => cache[o] = res[o]
    /\ Fresh(o) => task[o].obj = res[o]

\* Which steps belong to the Game, which to a child.
GameStepsFit ==
    /\ task[Game].pc \in GamePC
    /\ task[Game].pc \notin {"idle", "release"} => task[Game].obj.at = "live"
ChildStepsFit(k) ==
    /\ task[k].pc \in {"idle"} \cup Writing \cup Finalizing
    /\ task[k].pc \in Writing => task[k].obj.at = "live"

\* A finalizer seen on a live child is still there: only the reconciliation
\* of the deleted child takes it away, and then no copy is left from which an
\* older reconciliation could start.
FinalizerStays(k) ==
    /\ LiveFin(cache[k]) => res[k].fin
    /\ cache[k].at = "deleted" => ~LiveFin(res[k])
    /\ task[k].pc \in Writing /\ task[k].obj.fin => res[k].fin
    /\ task[k].pc \in Writing /\ Fresh(k) => cache[k].at # "deleted"
    /\ task[k].pc \in Writing \ {"game", "finalizer"} => task[k].obj.fin
    /\ task[k].pc \in Finalizing => ~LiveFin(cache[k]) /\ ~LiveFin(res[k])

\* What is about to lose its finalizer has no rows, or was given up.
ReleasedHasNone(k) == At(k, "release") => rows[k] = NoRows \/ k \in abandoned

\* As long as no event has come, the copy at work is the cached one; and the
\* rows written so far are those of that copy.
WorkFits(k) ==
    /\ task[k].pc \in Writing /\ k \notin queue =>
         cache[k].at = "live" /\ task[k].obj.spec = cache[k].spec
    /\ At(k, "parts") /\ k \notin unattended =>
         /\ rows[k].terms # None
         /\ k \in Overwrites => rows[k].terms = task[k].obj.spec.terms
         /\ task[k].obj.spec.parts \subseteq rows[k].parts \cup task[k].todo

ChildFits(k) ==
    /\ ChildStepsFit(k) /\ FinalizerStays(k) /\ ReleasedHasNone(k) /\ WorkFits(k)
    /\ HasFinalizer(k) /\ ReflectedAtRest(k)

ReconcilerInv ==
    /\ ReconcilerTypeOK
    /\ \A o \in Object : CopiesFit(o)
    /\ GameStepsFit
    /\ \A k \in Child : ChildFits(k)
=============================================================================
