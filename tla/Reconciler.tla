----------------------------- MODULE Reconciler -----------------------------
(***************************************************************************)
(* The reconcilers of one Game and of its child resources (worlds, areas,  *)
(* avatars, items, currencies).  The child reconcilers are one program: get *)
(* the resource and its Game, add the finalizer, the labels, wait for the  *)
(* Game, write the rows; or, once it is deleted, remove the rows and the   *)
(* finalizer.  They differ in whether the main row follows the resource    *)
(* (items, currencies) or keeps its first content (worlds, areas, avatars).*)
(*                                                                         *)
(* controller-runtime is external: a resource is read from an informer     *)
(* cache that may lag behind the API server, an event that updates the     *)
(* cache enqueues the resource, an error or Requeue enqueues it again, one *)
(* resource is never reconciled twice at a time, and an Update made from   *)
(* an old version is a conflict.                                           *)
(***************************************************************************)
EXTENDS Integers

CONSTANTS
    Game,           \* the Game resource
    Child,          \* child resources of that game
    Overwrites,     \* those of kinds whose rows are upserted
    Terms,          \* contents of a main row
    Part,           \* lines of a specification that become rows of their own
    Specs,          \* specifications a child may have
    None,
    GameFirst,      \* whether the Game is there when the operator starts
    MaxChanges,     \* bound: changes users make
    MaxFaults       \* bound: failures of calls, of the process, of the database

Specification == [terms : Terms, parts : SUBSET Part]

ASSUME ReconcilerAssumption ==
    /\ Game \notin Child
    /\ Overwrites \subseteq Child
    /\ None \notin Terms
    /\ Specs \subseteq Specification
    /\ GameFirst \in BOOLEAN
    /\ MaxChanges \in Nat /\ MaxFaults \in Nat

Object == Child \cup {Game}

VARIABLES
    res,        \* the API server's resources
    cache,      \* the informers' copies
    synced,     \* objects whose cached copy is up to date
    queue,      \* the work queue
    task,       \* for each object its reconciliation, idle if there is none
    secret,     \* whether the credentials of the Game are there
    database,   \* PostgreSQL: none without a Deployment, down, or up
    service,    \* whether its Service exists
    doomed,     \* of Deployment and Service, those whose owner is gone
    rows,       \* for each child its rows in the database
    unattended, \* history: children nobody will look at again of their own
    abandoned,  \* history: children whose finalization left rows behind
    changes, faults

vars == <<res, cache, synced, queue, task, secret, database, service, doomed, rows,
          unattended, abandoned, changes, faults>>
cluster == <<secret, database, service, doomed>>
history == <<unattended, abandoned>>

\* A version of a resource, and what a write makes of it.
Version(at, fin, labels, status, spec) ==
    [at |-> at, fin |-> fin, labels |-> labels, status |-> status, spec |-> spec]
Absent == Version("absent", FALSE, FALSE, "none", None)
New(spec) == Version("live", FALSE, FALSE, "none", spec)
WithFinalizer(r) == Version(r.at, TRUE, r.labels, r.status, r.spec)
WithLabels(r) == Version(r.at, r.fin, TRUE, r.status, r.spec)
WithStatus(r, s) == Version(r.at, r.fin, r.labels, s, r.spec)
WithSpec(r, s) == Version(r.at, r.fin, r.labels, r.status, s)
Deleted(r) == IF r.fin THEN Version("deleted", r.fin, r.labels, r.status, r.spec) ELSE Absent

NoRows == [terms |-> None, parts |-> {}]
NoTask == [pc |-> "idle", obj |-> Absent, version |-> "old", game |-> "none", todo |-> {}]

Init ==
    /\ res = [o \in Object |-> IF o = Game /\ GameFirst THEN New(None) ELSE Absent]
    /\ cache = res /\ synced = Object
    /\ queue = IF GameFirst THEN {Game} ELSE {}
    /\ task = [o \in Object |-> NoTask]
    /\ secret = TRUE /\ database = "none" /\ service = FALSE /\ doomed = {}
    /\ rows = [k \in Child |-> NoRows]
    /\ unattended = {} /\ abandoned = {}
    /\ changes = 0 /\ faults = 0

At(o, pc) == task[o].pc = pc
Fresh(o) == task[o].version = "current"
Fault == faults < MaxFaults /\ faults' = faults + 1
Goto(o, t) == task' = [task EXCEPT ![o] = t] /\ UNCHANGED queue
Stop(o) == Goto(o, NoTask)

\* The reconciliation goes on at pc, with what it knows by then.
Work(o, pc, obj, game, todo) ==
    [pc |-> pc, obj |-> obj, version |-> task[o].version, game |-> game, todo |-> todo]

\* An error, or Result{Requeue: true}: the object comes back.
Retry(o) == task' = [task EXCEPT ![o] = NoTask] /\ queue' = queue \cup {o}

\* The API server stores r, and the informers will hear of it; what changes
\* nothing makes no new version.
Put(o, r) ==
    /\ res' = [res EXCEPT ![o] = r]
    /\ synced' = IF r = res[o] THEN synced ELSE synced \ {o}

\* client.Update: refused when the copy is not the server's version any more;
\* the answer to one that was made may be lost.
Update(o, r, t) ==
    \/ /\ Fresh(o)
       /\ Put(o, r)
       /\ \/ Goto(o, t) /\ UNCHANGED faults
          \/ Retry(o) /\ Fault
    \/ /\ IF Fresh(o) THEN Fault ELSE UNCHANGED faults
       /\ Retry(o)
       /\ UNCHANGED <<res, synced>>

-----------------------------------------------------------------------------
(* controller-runtime.                                                     *)

\* A watch event: the cached copy is replaced, the object is enqueued.
Sync(o) ==
    /\ o \notin synced
    /\ cache' = [cache EXCEPT ![o] = res[o]]
    /\ synced' = synced \cup {o}
    /\ queue' = queue \cup {o}
    /\ UNCHANGED <<res, task, cluster, rows, history, changes, faults>>

\* Reconcile starts with the cached copy.
Begin(o, pc) ==
    [pc |-> pc, obj |-> cache[o], version |-> IF o \in synced THEN "current" ELSE "old",
     game |-> "none", todo |-> {}]

\* Faulty variant of Take: a resource that is not found is reconciled, too.
Take_NotFound(o) ==
    /\ o \in queue /\ At(o, "idle")
    /\ queue' = queue \ {o}
    /\ unattended' = unattended \ {o}
    /\ LET pc == IF cache[o].at = "deleted"
                 THEN IF o = Game THEN "release" ELSE "purge"
                 ELSE IF o = Game THEN "finalizer" ELSE "game"
       IN  task' = [task EXCEPT ![o] = Begin(o, pc)]
    /\ UNCHANGED <<res, cache, synced, cluster, rows, abandoned, changes, faults>>

\* A resource that is gone, or deleted and finalized, is left alone.
Take(o) ==
    /\ o \in queue /\ At(o, "idle")
    /\ queue' = queue \ {o}
    /\ unattended' = unattended \ {o}
    /\ \/ /\ cache[o].at = "live"
          /\ task' = [task EXCEPT ![o] = Begin(o, IF o = Game THEN "finalizer" ELSE "game")]
       \/ /\ cache[o].at = "deleted" /\ cache[o].fin
          /\ task' = [task EXCEPT ![o] = Begin(o, IF o = Game THEN "release" ELSE "purge")]
       \/ /\ cache[o].at # "live" /\ ~cache[o].fin
          /\ UNCHANGED task
    /\ UNCHANGED <<res, cache, synced, cluster, rows, abandoned, changes, faults>>

\* The operator's process ends and starts again: it lists everything.
Restart ==
    /\ Fault
    /\ task' = [o \in Object |-> NoTask]
    /\ cache' = res /\ synced' = Object
    /\ queue' = {o \in Object : res[o].at # "absent"}
    /\ UNCHANGED <<res, cluster, rows, history, changes>>

-----------------------------------------------------------------------------
(* Reconciliation of a child resource that is not deleted.                 *)

\* A Game that is not found ends it, without error and without requeue.
FindGame(k) ==
    /\ At(k, "game")
    /\ \/ /\ cache[Game].at = "absent"
          /\ Stop(k)
          /\ unattended' = unattended \cup {k}
       \/ /\ cache[Game].at # "absent"
          /\ Goto(k, Work(k, "finalizer", task[k].obj, cache[Game].status, {}))
          /\ UNCHANGED unattended
    /\ UNCHANGED <<res, cache, synced, cluster, rows, abandoned, changes, faults>>

\* Faulty variant of AddFinalizer: labels come first, the finalizer never.
AddFinalizer_Skipped(o) ==
    /\ At(o, "finalizer")
    /\ Goto(o, [task[o] EXCEPT !.pc = IF o = Game THEN "secret" ELSE "label"])
    /\ UNCHANGED <<res, cache, synced, cluster, rows, history, changes, faults>>

\* Also the Game's.
AddFinalizer(o) ==
    /\ At(o, "finalizer")
    /\ LET r == WithFinalizer(task[o].obj)
           t == Work(o, IF o = Game THEN "secret" ELSE "label", r, task[o].game, {})
       IN  \/ /\ task[o].obj.fin
              /\ Goto(o, t)
              /\ UNCHANGED <<res, synced, faults>>
           \/ /\ ~task[o].obj.fin
              /\ Update(o, r, t)
    /\ UNCHANGED <<cache, cluster, rows, history, changes>>

\* Faulty variant of EnsureLabels: a Game that is not ready ends it, without
\* requeue.
EnsureLabels_NoRequeue(k) ==
    /\ At(k, "label")
    /\ \/ /\ ~task[k].obj.labels
          /\ Update(k, WithLabels(task[k].obj), NoTask)
       \/ /\ task[k].obj.labels
          /\ Goto(k, IF task[k].game = "ready" THEN [task[k] EXCEPT !.pc = "connect"] ELSE NoTask)
          /\ UNCHANGED <<res, synced, faults>>
    /\ UNCHANGED <<cache, cluster, rows, history, changes>>

\* ensureLabels: an update ends the reconciliation, its event starts another.
EnsureLabels(k) ==
    /\ At(k, "label")
    /\ \/ /\ ~task[k].obj.labels
          /\ Update(k, WithLabels(task[k].obj), NoTask)
       \/ /\ task[k].obj.labels
          /\ \/ task[k].game = "ready" /\ Goto(k, [task[k] EXCEPT !.pc = "connect"])
             \/ task[k].game # "ready" /\ Retry(k)
          /\ UNCHANGED <<res, synced, faults>>
    /\ UNCHANGED <<cache, cluster, rows, history, changes>>

\* getGameDB: the Service, the credentials, a connection that answers.
Reachable == service /\ secret /\ database = "up"

\* Faulty variant of Connect: the error is taken for a reason to stop.
Connect_ErrorDropped(k) ==
    /\ At(k, "connect")
    /\ \/ Reachable /\ Goto(k, [task[k] EXCEPT !.pc = "record"])
       \/ ~Reachable /\ Stop(k)
    /\ UNCHANGED <<res, cache, synced, cluster, rows, history, changes, faults>>

\* With the migrations.
Connect(k) ==
    /\ At(k, "connect")
    /\ \/ Reachable /\ Goto(k, [task[k] EXCEPT !.pc = "record"])
       \/ ~Reachable /\ Retry(k)
    /\ UNCHANGED <<res, cache, synced, cluster, rows, history, changes, faults>>

\* One INSERT of a child: made, or an error, after which it may have been made.
Insert(k, r, t) ==
    /\ \/ database = "up" /\ rows' = [rows EXCEPT ![k] = r] /\ Goto(k, t) /\ UNCHANGED faults
       \/ database = "up" /\ rows' = [rows EXCEPT ![k] = r] /\ Retry(k) /\ Fault
       \/ database = "up" /\ UNCHANGED rows /\ Retry(k) /\ Fault
       \/ database # "up" /\ UNCHANGED rows /\ Retry(k) /\ UNCHANGED faults
    /\ UNCHANGED <<res, cache, synced, cluster, history, changes>>

\* ON CONFLICT DO UPDATE, or DO NOTHING.
RecordOver(k, old) ==
    IF old = None \/ k \in Overwrites THEN task[k].obj.spec.terms ELSE old

WriteRecord(k) ==
    /\ At(k, "record")
    /\ Insert(k, [rows[k] EXCEPT !.terms = RecordOver(k, rows[k].terms)],
                 Work(k, "parts", task[k].obj, task[k].game, task[k].obj.spec.parts))

\* Rows of parts are added, never removed or changed.
WritePart(k) ==
    /\ At(k, "parts")
    /\ \E p \in task[k].todo :
         Insert(k, [rows[k] EXCEPT !.parts = @ \cup {p}], [task[k] EXCEPT !.todo = @ \ {p}])

Written(k) ==
    /\ At(k, "parts") /\ task[k].todo = {}
    /\ Stop(k)
    /\ UNCHANGED <<res, cache, synced, cluster, rows, history, changes, faults>>

-----------------------------------------------------------------------------
(* Finalization of a deleted child.                                        *)

\* The Game is not found or not ready, or its database not to be had: the
\* rows stay.
FindRows(k) ==
    /\ At(k, "purge")
    /\ \/ /\ cache[Game].status = "ready" /\ Reachable
          /\ Goto(k, [task[k] EXCEPT !.pc = "parts gone"])
          /\ UNCHANGED abandoned
       \/ /\ cache[Game].status # "ready" \/ ~Reachable
          /\ Goto(k, [task[k] EXCEPT !.pc = "release"])
          /\ abandoned' = abandoned \cup {k}
    /\ UNCHANGED <<res, cache, synced, cluster, rows, unattended, changes, faults>>

\* One DELETE, whose error nobody looks at.
DeleteRows(k, r) ==
    \/ database = "up" /\ rows' = [rows EXCEPT ![k] = r] /\ UNCHANGED faults
    \/ database = "up" /\ UNCHANGED rows /\ Fault
    \/ database # "up" /\ UNCHANGED <<rows, faults>>

DeleteParts(k) ==
    /\ At(k, "parts gone")
    /\ DeleteRows(k, [rows[k] EXCEPT !.parts = {}])
    /\ Goto(k, [task[k] EXCEPT !.pc = "record gone"])
    /\ UNCHANGED <<res, cache, synced, cluster, history, changes>>

DeleteRecord(k) ==
    /\ At(k, "record gone")
    /\ DeleteRows(k, [rows[k] EXCEPT !.terms = None])
    /\ Goto(k, [task[k] EXCEPT !.pc = "release"])
    /\ abandoned' = IF rows'[k] = NoRows THEN abandoned \ {k} ELSE abandoned \cup {k}
    /\ UNCHANGED <<res, cache, synced, cluster, unattended, changes>>

\* Faulty variant of RemoveFinalizer: a failed update is forgotten.
RemoveFinalizer_ErrorDropped(o) ==
    /\ At(o, "release")
    /\ Stop(o)
    /\ \/ Fresh(o) /\ Put(o, Absent) /\ UNCHANGED faults
       \/ /\ IF Fresh(o) THEN Fault ELSE UNCHANGED faults
          /\ UNCHANGED <<res, synced>>
    /\ UNCHANGED <<cache, cluster, rows, history, changes>>

\* The resource goes away with its finalizer, and what it owns will: the
\* Game owns its Deployment.  (CloseConnection is in ConnectionPool.)
RemoveFinalizer(o) ==
    /\ At(o, "release")
    /\ Update(o, Absent, NoTask)
    /\ doomed' = IF o = Game /\ res'[o] = Absent /\ database # "none"
                 THEN doomed \cup {"deployment"} ELSE doomed
    /\ UNCHANGED <<cache, secret, database, service, rows, history, changes>>

-----------------------------------------------------------------------------
(* Reconciliation of the Game.                                             *)

\* Faulty variant of Credentials: without credentials it only sets the status.
Credentials_ErrorDropped ==
    /\ At(Game, "secret")
    /\ \/ /\ secret
          /\ Goto(Game, [task[Game] EXCEPT !.pc = "deployment"])
          /\ UNCHANGED <<res, synced, faults>>
       \/ ~secret /\ Update(Game, WithStatus(task[Game].obj, "failed"), NoTask)
    /\ UNCHANGED <<cache, cluster, rows, history, changes>>

\* resolveCredentials; without them the status is set, whatever comes of it,
\* and the error returned.
Credentials ==
    /\ At(Game, "secret")
    /\ \/ /\ secret
          /\ Goto(Game, [task[Game] EXCEPT !.pc = "deployment"])
          /\ UNCHANGED <<res, synced, faults>>
       \/ /\ ~secret
          /\ Retry(Game)
          /\ \/ /\ Fresh(Game)
                /\ Put(Game, WithStatus(task[Game].obj, "failed"))
                /\ UNCHANGED faults
             \/ /\ IF Fresh(Game) THEN Fault ELSE UNCHANGED faults
                /\ UNCHANGED <<res, synced>>
    /\ UNCHANGED <<cache, cluster, rows, history, changes>>

\* Found, whoever owns it, or created.
EnsureDeployment ==
    /\ At(Game, "deployment")
    /\ \/ /\ database' = IF database = "none" THEN "down" ELSE database
          /\ Goto(Game, [task[Game] EXCEPT !.pc = "service"])
          /\ UNCHANGED faults
       \/ database = "none" /\ Fault /\ Retry(Game) /\ database' \in {"none", "down"}
    /\ UNCHANGED <<res, cache, synced, secret, service, doomed, rows, history, changes>>

EnsureService ==
    /\ At(Game, "service")
    /\ \/ /\ service' = TRUE
          /\ Goto(Game, [task[Game] EXCEPT !.pc = "status"])
          /\ UNCHANGED faults
       \/ ~service /\ Fault /\ Retry(Game) /\ service' \in BOOLEAN
    /\ UNCHANGED <<res, cache, synced, secret, database, doomed, rows, history, changes>>

\* Nothing asks whether the database answers yet.
SetReady ==
    /\ At(Game, "status")
    /\ Update(Game, WithStatus(task[Game].obj, "ready"), NoTask)
    /\ UNCHANGED <<cache, cluster, rows, history, changes>>

-----------------------------------------------------------------------------
(* Users and the cluster.                                                  *)

\* A write that is not the reconciler's: the copy it works on becomes old.
Change(o, r) ==
    /\ changes < MaxChanges /\ changes' = changes + 1
    /\ Put(o, r)
    /\ task' = [task EXCEPT ![o] = [@ EXCEPT !.version = "old"]]
    /\ UNCHANGED <<cache, queue, cluster, rows, history, faults>>

Apply(k) == res[k].at = "absent" /\ \E s \in Specs : Change(k, New(s))
Edit(k) ==
    /\ res[k].at # "absent"
    /\ \E s \in Specs \ {res[k].spec} : Change(k, WithSpec(res[k], s))
ApplyGame == res[Game].at = "absent" /\ Change(Game, New(None))
Delete(o) == res[o].at = "live" /\ Change(o, Deleted(res[o]))

ChangeSecret ==
    /\ changes < MaxChanges /\ changes' = changes + 1
    /\ secret' = ~secret
    /\ UNCHANGED <<res, cache, synced, queue, task, database, service, doomed, rows,
                   history, faults>>

DatabaseStarts ==
    /\ database = "down" /\ database' = "up"
    /\ UNCHANGED <<res, cache, synced, queue, task, secret, service, doomed, rows,
                   history, changes, faults>>

\* The rows are in an emptyDir: they outlive the container, not the pod.
Lost == rows' = [k \in Child |-> NoRows] /\ unattended' = Child
DatabaseStops ==
    /\ database = "up" /\ database' = "down" /\ Fault
    /\ Lost \/ UNCHANGED <<rows, unattended>>
    /\ UNCHANGED <<res, cache, synced, queue, task, secret, service, doomed,
                   abandoned, changes>>

\* The garbage collector: the Deployment of a Game that is gone, then the
\* Service, whose owner is the Deployment.
CollectDeployment ==
    /\ "deployment" \in doomed
    /\ database' = "none" /\ Lost
    /\ doomed' = (doomed \ {"deployment"}) \cup (IF service THEN {"service"} ELSE {})
    /\ UNCHANGED <<res, cache, synced, queue, task, secret, service, abandoned,
                   changes, faults>>

CollectService ==
    /\ "service" \in doomed
    /\ service' = FALSE /\ doomed' = doomed \ {"service"}
    /\ UNCHANGED <<res, cache, synced, queue, task, secret, database, rows, history,
                   changes, faults>>

-----------------------------------------------------------------------------

ReconcileChild(k) ==
    \/ Take(k) \/ FindGame(k) \/ AddFinalizer(k) \/ EnsureLabels(k) \/ Connect(k)
    \/ WriteRecord(k) \/ WritePart(k) \/ Written(k)
    \/ FindRows(k) \/ DeleteParts(k) \/ DeleteRecord(k) \/ RemoveFinalizer(k)
ReconcileGame ==
    \/ Take(Game) \/ AddFinalizer(Game) \/ Credentials \/ EnsureDeployment
    \/ EnsureService \/ SetReady \/ RemoveFinalizer(Game)
Users ==
    \/ ApplyGame \/ ChangeSecret \/ (\E k \in Child : Apply(k) \/ Edit(k))
    \/ \E o \in Object : Delete(o)
Cluster == DatabaseStarts \/ CollectDeployment \/ CollectService

Next ==
    \/ \E k \in Child : ReconcileChild(k)
    \/ ReconcileGame
    \/ \E o \in Object : Sync(o)
    \/ Users \/ Cluster \/ DatabaseStops \/ Restart

\* Workers and watches go on, the cluster starts and collects what it should;
\* users and failures need not come.
Fairness ==
    /\ \A k \in Child : WF_vars(ReconcileChild(k))
    /\ WF_vars(ReconcileGame)
    /\ \A o \in Object : WF_vars(Sync(o))
    /\ WF_vars(DatabaseStarts) /\ WF_vars(CollectDeployment) /\ WF_vars(CollectService)

Spec == Init /\ [][Next]_vars /\ Fairness
=============================================================================
