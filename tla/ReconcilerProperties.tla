------------------------ MODULE ReconcilerProperties ------------------------
(* What the reconcilers promise.                                           *)
EXTENDS Reconciler

Resource == [at : {"absent", "live", "deleted"}, fin : BOOLEAN, labels : BOOLEAN,
             status : {"none", "failed", "ready"}, spec : Specs \cup {None}]
PC == {"idle", "game", "finalizer", "label", "connect", "record", "parts", "purge",
       "parts gone", "record gone", "release", "secret", "deployment", "service", "status"}
Task == [pc : PC, obj : Resource, version : {"current", "old"},
         game : {"none", "failed", "ready"}, todo : SUBSET Part]

Legal(o, r) ==
    /\ r.at = "absent" => ~r.fin
    /\ r.at = "deleted" => r.fin
    /\ o \in Child /\ r.at # "absent" => r.spec \in Specs

\* Types; a resource that is gone keeps no finalizer, one that is deleted and
\* still there has one.
ReconcilerTypeOK ==
    /\ res \in [Object -> Resource] /\ cache \in [Object -> Resource]
    /\ \A o \in Object : Legal(o, res[o]) /\ Legal(o, cache[o]) /\ Legal(o, task[o].obj)
    /\ synced \subseteq Object /\ queue \subseteq Object
    /\ task \in [Object -> Task]
    /\ secret \in BOOLEAN /\ service \in BOOLEAN
    /\ database \in {"none", "down", "up"} /\ doomed \subseteq {"deployment", "service"}
    /\ rows \in [Child -> [terms : Terms \cup {None}, parts : SUBSET Part]]
    /\ unattended \subseteq Object /\ abandoned \subseteq Object
    /\ changes \in 0 .. MaxChanges /\ faults \in 0 .. MaxFaults

HasFinalizer(k) ==
    rows[k] # NoRows => res[k].fin \/ k \in abandoned

\* A child has rows only while it exists and carries the finalizer that will
\* remove them (avatar_controller.go:93, 65-70): no row is written before the
\* finalizer is stored, none after it was taken away, whatever conflicts,
\* retries, stale copies, re-creations and restarts do.  The exception is
\* what a finalization could not reach (avatar_controller.go:62-72).
RowsHaveFinalizer == \A k \in Child : HasFinalizer(k)

Reflected(k) ==
    /\ rows[k].terms # None
    /\ k \in Overwrites => rows[k].terms = res[k].spec.terms
    /\ res[k].spec.parts \subseteq rows[k].parts

\* Nothing is under way or in line for the child.
Settled(k) == res[k].at = "live" /\ k \in synced /\ k \notin queue /\ At(k, "idle")

ReflectedAtRest(k) == Settled(k) /\ k \notin unattended => Reflected(k)

\* No wake-up is lost: when a child is at rest, its rows reflect its present
\* specification.  Every early return of Reconcile has an event or a requeue
\* behind it (avatar_controller.go:96, 103, 105, 110, 116), except "Game resource
\* not found" (87); and nothing tells the reconcilers that a database was emptied.
SettledIsReflected == \A k \in Child : ReflectedAtRest(k)

\* "Controllers provision infrastructure and persist schema definitions to
\* PostgreSQL" (README.md:9), without the exception.  Nothing but
\* the informers' periodic resync, every ten hours by default, would bring a
\* settled child back to its reconciler.
AppliedIsReflected ==
    \A k \in Child :
        /\ Settled(k) /\ Settled(Game)
        /\ res[Game].status = "ready" /\ Reachable /\ faults = 0
        => Reflected(k)

\* A deleted child goes away, although its Game may not be ready or gone and
\* its database down (avatar_controller.go:59-80).
DeletedGoAway == \A k \in Child : res[k].at = "deleted" ~> res[k].at # "deleted"

Usable(k) ==
    /\ res[k].at = "live" /\ k \notin unattended
    /\ res[Game].status = "ready" /\ Reachable

\* As long as its Game is ready and the database answers, the rows of a child
\* come to reflect it (avatar_controller.go:100-198).
ChildrenReflected == \A k \in Child : Usable(k) ~> (~Usable(k) \/ Reflected(k))

\* A Game whose credentials are there becomes ready, also when they came
\* later (game_controller.go:91-98, 134-141).
GamesBecomeReady ==
    res[Game].at = "live" /\ secret
    ~> (res[Game].status = "ready" \/ res[Game].at # "live" \/ ~secret)
=============================================================================
