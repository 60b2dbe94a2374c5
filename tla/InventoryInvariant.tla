------------------------- MODULE InventoryInvariant -------------------------
(***************************************************************************)
(* The inductive invariant behind the safety properties of Inventory: what *)
(* the tables always satisfy, and what a handler at each of its steps      *)
(* knows about the avatar, the row and the definition it has read.         *)
(***************************************************************************)
EXTENDS InventoryProperties

\* A quantity that may be stored for the item.
Legal(k, n) == Limited(k) /\ Moderate(k) => Fits(k, n)

Allows(k, op) == \E d \in Declared[k] : Usable(op, d)

\* Ids come from the sequences, a key identifies a row, stacks are legal and
\* equipped items equipment.
RowsFit(rows, ni, nr) ==
    /\ \A r \in rows : /\ r.id < nr /\ r.inst < ni /\ Legal(r.item, r.qty)
                       /\ r.equipped => Allows(r.item, "equip")
    /\ \A r, q \in rows : r.id = q.id => r = q

PowersFit(rows, ni) == \A p \in rows : p.inst < ni /\ Allows(p.item, "activate")

TablesFit ==
    /\ RowsFit(items, nextInst, nextRow)
    /\ PowersFit(powers, nextInst)
    /\ \A i \in instances : i.id < nextInst
    /\ \A k \in Item : catalog[k] \subseteq Declared[k]

\* The request is one the handler accepts, and the rows still to be inserted
\* are from it.
RequestFits(c, t) ==
    /\ t.pc # "idle" => t.req \in Workload[c] /\ WellFormed(t.req)
    /\ t.pc = "kit" => t.todo \subseteq t.req.kit

\* A handler that works on an avatar has found or inserted it, and one that
\* works on a row of the avatar has found that.
FoundFits(t) ==
    /\ t.pc \in {"kit", "row", "catalog", "stack", "store", "power", "spend"} => t.inst # 0
    /\ t.pc \in {"catalog", "store", "power", "spend"} /\ t.req.op # "grant" => t.row.id # 0

\* Ids a handler holds were given out, a row is held only once it has been
\* read, and does not change its owner.
IdsFit(t, rows, ni, nr) ==
    /\ t.pc \notin {"catalog", "stack", "store", "power", "spend"} => t.row.id = 0
    /\ t.inst < ni /\ t.row.id < nr
    /\ \A r \in rows : t.row.id = r.id => r.inst = t.inst /\ r.item = t.req.k

\* The definition a handler has read was declared at some time, and allows
\* what the handler does; the quantity it has read was legal.
TermsFit(t) ==
    /\ t.pc \in {"stack", "store", "power", "spend"} /\ t.req.op # "unequip" =>
         t.def \in Declared[t.req.k] /\ Usable(t.req.op, t.def)
    /\ t.row.id # 0 => Legal(t.req.k, t.row.qty)

TaskFits(c, t, rows, ni, nr) ==
    RequestFits(c, t) /\ FoundFits(t) /\ IdsFit(t, rows, ni, nr) /\ TermsFit(t)

\* The inductive invariant: it holds initially and every step keeps it.
InventoryInv ==
    /\ TypeOK
    /\ TablesFit
    /\ \A c \in Client : TaskFits(c, task[c], items, nextInst, nextRow)
=============================================================================
