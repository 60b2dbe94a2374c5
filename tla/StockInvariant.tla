--------------------------- MODULE StockInvariant ---------------------------
(***************************************************************************)
(* Handlers that never meet on an avatar: the assumptions on the workload  *)
(* and the catalog, and the inductive invariant behind what Inventory      *)
(* promises under them.  What a handler has read is then not only of the   *)
(* right owner (InventoryInv) but still what the tables say.               *)
(***************************************************************************)
EXTENDS InventoryInvariant

\* Two clients never ask for the same avatar.
Exclusive ==
    \A c, d \in Client : c # d => \A r \in Workload[c], s \in Workload[d] : r.a # s.a

\* No version of the item is stackable, and created avatars bring no empty
\* rows of it along.
Loose(k) ==
    /\ \A d \in Declared[k] : ~d.stackable
    /\ \A c \in Client : \A r \in Workload[c] : \A e \in r.kit : e.k = k => e.n >= 1

\* An item is either never stacked or always, up to a limit.
Regular(k) == Loose(k) \/ (Limited(k) /\ Moderate(k) /\ OneKit(k))

\* The limit of the item's stacks never changes.
Steady(k) == \A d, e \in Declared[k] : d.max = e.max

\* All that an avatar has of the item belongs into one row.
Sole(k) == Stacked(k) /\ OneKit(k)

Exists(id, a) == [id |-> id, name |-> a] \in instances

\* The unique keys of avatar_instances; one row for a stack as long as nothing
\* has failed; rows of a loose item are never empty.
StocksSole ==
    /\ \A i, j \in instances : i.id = j.id \/ i.name = j.name => i = j
    /\ \A r, q \in items :
         faults = 0 /\ Sole(r.item) /\ r.inst = q.inst /\ r.item = q.item => r = q
    /\ \A r \in items : Loose(r.item) => r.qty >= 1

\* The avatar a handler has found is there, and the row it has read is there
\* with the quantity it has read.
SnapshotFits(t) ==
    /\ t.inst # 0 => t.pc # "idle" /\ Exists(t.inst, t.req.a)
    /\ t.pc \in {"purge", "remove"} => t.inst # 0
    /\ t.row.id # 0 => \E r \in items : r.id = t.row.id /\ r.qty = t.row.qty

\* A row that is still to be inserted finds none of its kind.  A grant reads
\* a row only for an item it has found to be stackable.
InsertFits(t) ==
    /\ t.pc = "kit" => \A e \in t.todo : OneKit(e.k) => ItemRows(t.inst, e.k) = {}
    /\ t.pc = "row" => t.req.op # "grant"
    /\ t.pc = "catalog" /\ t.req.op = "grant" => t.row.id = 0
    /\ t.pc = "stack" => t.def.stackable
    /\ t.pc = "store" /\ t.req.op = "grant" =>
         /\ t.row.id # 0 => t.def.stackable
         /\ t.row.id = 0 /\ Sole(t.req.k) /\ faults = 0 => ItemRows(t.inst, t.req.k) = {}

StockFits(t) == SnapshotFits(t) /\ InsertFits(t)

\* Inductive together with InventoryInv, if the workload is exclusive.
StockInv == StocksSole /\ \A c \in Client : StockFits(task[c])
=============================================================================
