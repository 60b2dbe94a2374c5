----------------------------- MODULE Blueprint -----------------------------
(***************************************************************************)
(* The blueprints of one game: the rows that the Avatar reconciler writes  *)
(* for the avatar types an operator declares, and that the creation of an  *)
(* avatar instance is validated against.                                   *)
(*                                                                         *)
(* A part of a blueprint is one row: an attribute, an inventory category,  *)
(* an achievement, a customization or one of its options.  The reconciler  *)
(* inserts them one statement after the other, each time it runs, and      *)
(* takes none away before the type is deleted.  Reconciler has what        *)
(* decides when it runs; here it may run whenever a resource is there.     *)
(***************************************************************************)
EXTENDS Handlers

CONSTANTS
    AvatarType,     \* names of Avatar resources
    NoType,         \* "no resource is being reconciled"
    Part,           \* what they may declare
    Kind,           \* the table of each part
    Base,           \* of an option its customization, of any other part itself
    Declared,       \* for each type, the sets of parts an operator applies over time
    Many,           \* copies of a row are counted up to Many
    MaxChanges      \* bound: changes by operators

\* In the order in which rows are written.  The options of a customization
\* that has been written come before the next customization.
Rank == [attribute |-> 1, inventory |-> 2, achievement |-> 3, option |-> 4,
         customization |-> 5]
Table == DOMAIN Rank

ASSUME BlueprintAssumption ==
    /\ NoType \notin AvatarType
    /\ Kind \in [Part -> Table]
    /\ Base \in [Part -> Part]
    /\ \A p \in Part : IF Kind[p] = "option" THEN Kind[Base[p]] = "customization"
                       ELSE Base[p] = p
    /\ Declared \in [AvatarType -> SUBSET SUBSET Part]
    /\ \A o \in AvatarType : \A s \in Declared[o] : \A p \in s : Base[p] \in s
    /\ Many \in Nat \ {0} /\ MaxChanges \in Nat

VARIABLES
    spec,           \* Avatar resources, as the reconciler's cache has them
    types,          \* avatar_types: the names that have a row
    rows,           \* rows[o][p]: how many rows the part p of o has
    worker,         \* the reconciler's only worker
    changes,        \* changes made so far
    ever,           \* history: the sets of parts ever declared for a type
    written         \* history: the set of parts a reconciliation has completed
                    \* since the type was created, if any has

blueprint == <<spec, types, rows, worker, changes, ever, written>>

\* new: without the finalizer; deleted: with a deletion timestamp.
Life == {"absent", "new", "live", "deleted"}

Resting == [pc |-> "idle", type |-> NoType, copy |-> {}, todo |-> {},
            kinds |-> {}]

BlueprintInit ==
    /\ spec = [o \in AvatarType |-> [life |-> "absent", parts |-> {}]]
    /\ types = {}
    /\ rows = [o \in AvatarType |-> [p \in Part |-> 0]]
    /\ worker = Resting
    /\ changes = 0
    /\ ever = [o \in AvatarType |-> {}]
    /\ written = [o \in AvatarType |-> {}]

-----------------------------------------------------------------------------
(* Operators.                                                              *)

SetSpec(o, life, parts) ==
    spec' = [spec EXCEPT ![o] = [life |-> life, parts |-> parts]]

Change == changes < MaxChanges /\ changes' = changes + 1

\* kubectl apply: a new resource, or another specification of one that is there.
Apply(o) ==
    /\ spec[o].life \in {"absent", "new", "live"}
    /\ Change
    /\ \E s \in Declared[o] :
         /\ s # spec[o].parts \/ spec[o].life = "absent"
         /\ SetSpec(o, IF spec[o].life = "absent" THEN "new" ELSE spec[o].life, s)
         /\ ever' = [ever EXCEPT ![o] = @ \cup {s}]
    /\ UNCHANGED <<types, rows, worker, written, faults>>

\* kubectl delete: at once without the finalizer, else the reconciler's turn.
DeleteAvatar(o) ==
    /\ spec[o].life \in {"new", "live"}
    /\ Change
    /\ IF spec[o].life = "new" THEN SetSpec(o, "absent", {})
       ELSE SetSpec(o, "deleted", spec[o].parts)
    /\ written' = [written EXCEPT ![o] = {}]
    /\ UNCHANGED <<types, rows, worker, ever, faults>>

-----------------------------------------------------------------------------
(* Reconciliation.                                                         *)

Working(pc, o, copy, todo, kinds) ==
    worker' = [pc |-> pc, type |-> o, copy |-> copy, todo |-> todo, kinds |-> kinds]

\* The worker returns, done or with an error; either way it may come again.
Return == worker' = Resting

\* Finalizer and labels; the update ends the reconciliation.
Adopt(o) ==
    /\ worker.pc = "idle" /\ spec[o].life = "new"
    /\ SetSpec(o, "live", spec[o].parts)
    /\ UNCHANGED <<types, rows, worker, changes, ever, written, faults>>

\* The Game is ready, its database answers and the migrations are done.
Reconcile(o) ==
    /\ worker.pc = "idle" /\ spec[o].life = "live"
    /\ Working("type", o, spec[o].parts, spec[o].parts, {})
    /\ UNCHANGED <<spec, types, rows, changes, ever, written, faults>>

\* Faulty variant of WriteType: what was written before is replaced.
WriteType_Anew ==
    /\ worker.pc = "type"
    /\ \E ok \in BOOLEAN :
         /\ Statement(ok)
         /\ IF ok THEN /\ types' = types \cup {worker.type}
                       /\ rows' = [rows EXCEPT ![worker.type] = [p \in Part |-> 0]]
                       /\ Working("parts", worker.type, worker.copy, worker.todo, {})
                  ELSE UNCHANGED <<types, rows>> /\ Return
    /\ UNCHANGED <<spec, changes, ever, written>>


\* ON CONFLICT (name) DO NOTHING: the row that is there stays.
WriteType ==
    /\ worker.pc = "type"
    /\ \E ok \in BOOLEAN :
         /\ Statement(ok)
         /\ IF ok THEN /\ types' = types \cup {worker.type}
                       /\ Working("parts", worker.type, worker.copy, worker.todo, {})
                  ELSE types' = types /\ Return
    /\ UNCHANGED <<spec, rows, changes, ever, written>>

\* An option waits for its customization, which Base names.
Ready(todo) == {p \in todo : Base[p] = p \/ Base[p] \notin todo}

\* Those of the ready parts that are next in line; slices have an order of
\* their own, which nothing depends on.
NextParts(todo) ==
    {p \in Ready(todo) : \A q \in Ready(todo) : Rank[Kind[p]] <= Rank[Kind[q]]}

\* One more row of a part.
Inserted(n) == IF n < Many THEN n + 1 ELSE n

\* ON CONFLICT DO NOTHING, in a table without a unique index: every
\* reconciliation inserts another row.
WritePart ==
    /\ worker.pc = "parts"
    /\ \E p \in NextParts(worker.todo), ok \in BOOLEAN :
         /\ Statement(ok)
         /\ IF ok THEN /\ rows' = [rows EXCEPT ![worker.type][p] = Inserted(@)]
                       /\ Working("parts", worker.type, worker.copy, worker.todo \ {p}, {})
                  ELSE rows' = rows /\ Return
    /\ UNCHANGED <<spec, types, changes, ever, written>>

Written ==
    /\ worker.pc = "parts" /\ worker.todo = {}
    /\ written' = IF spec[worker.type].life = "live"
                  THEN [written EXCEPT ![worker.type] = {worker.copy}]
                  ELSE written
    /\ Return
    /\ UNCHANGED <<spec, types, rows, changes, ever, faults>>

-----------------------------------------------------------------------------
(* Finalization.                                                           *)

\* Tables to which no part belongs are left out.
PartTables == {Kind[p] : p \in Part}

\* Without the Game or a connection the rows are given up.
Finalize(o) ==
    /\ worker.pc = "idle" /\ spec[o].life = "deleted"
    /\ \E ok \in BOOLEAN :
         /\ Statement(ok)
         /\ IF ok THEN Working("purge", o, {}, {}, PartTables)
                  ELSE Working("release", o, {}, {}, {})
    /\ UNCHANGED <<spec, types, rows, changes, ever, written>>

\* Faulty variant of Purged: one row of each part is deleted.
Purged_One(parts, k) ==
    [p \in Part |-> IF Kind[p] = k /\ parts[p] > 0 THEN parts[p] - 1 ELSE parts[p]]


\* DELETE ... WHERE avatar_name = o, in one table.
Purged(parts, k) == [p \in Part |-> IF Kind[p] = k THEN 0 ELSE parts[p]]

\* Options first, attributes last; errors are dropped.
DeletionRank == [option |-> 1, customization |-> 2, achievement |-> 3, inventory |-> 4,
                 attribute |-> 5]

PurgeParts ==
    /\ worker.pc = "purge"
    /\ \E k \in worker.kinds, ok \in BOOLEAN :
         /\ \A j \in worker.kinds : DeletionRank[k] <= DeletionRank[j]
         /\ Statement(ok)
         /\ rows' = IF ok THEN [rows EXCEPT ![worker.type] = Purged(@, k)] ELSE rows
         /\ Working("purge", worker.type, {}, {}, worker.kinds \ {k})
    /\ UNCHANGED <<spec, types, changes, ever, written>>

PurgeType ==
    /\ worker.pc = "purge" /\ worker.kinds = {}
    /\ \E ok \in BOOLEAN :
         /\ Statement(ok)
         /\ types' = IF ok THEN types \ {worker.type} ELSE types
    /\ Working("release", worker.type, {}, {}, {})
    /\ UNCHANGED <<spec, rows, changes, ever, written>>

\* The finalizer is removed and the resource is gone; after a failed update
\* the worker comes again.
Release ==
    /\ worker.pc = "release"
    /\ \E ok \in BOOLEAN :
         /\ Statement(ok)
         /\ IF ok THEN SetSpec(worker.type, "absent", {}) ELSE spec' = spec
    /\ Return
    /\ UNCHANGED <<types, rows, changes, ever, written>>

-----------------------------------------------------------------------------
(* Queries on the blueprint tables.                                        *)

\* Faulty variant of Valid: the query forgets the avatar type.
Valid_AnyType(o, k) == {p \in Part : Kind[p] = k /\ \E t \in AvatarType : rows[t][p] > 0}


\* WHERE avatar_name = o in one of the tables.
Valid(o, k) == {p \in Part : Kind[p] = k /\ rows[o][p] > 0}

\* What the reconciler does next.
WorkerStep ==
    \/ \E o \in AvatarType : Adopt(o) \/ Reconcile(o) \/ Finalize(o)
    \/ WriteType \/ WritePart \/ Written \/ PurgeParts \/ PurgeType \/ Release
=============================================================================
