------------------------------ MODULE Inventory ------------------------------
(***************************************************************************)
(* The inventories and power-ups of one game: what the REST handlers that  *)
(* create and delete avatar instances, grant, equip and unequip items and  *)
(* activate power-ups do to the tables avatar_instances,                   *)
(* avatar_instance_inventory_items and active_powerups, while the Item     *)
(* reconciler rewrites item_definitions.                                   *)
(*                                                                         *)
(* Nothing here runs in a transaction: one action per SQL statement.       *)
(***************************************************************************)
EXTENDS Handlers

CONSTANTS
    Item,           \* names of Item resources
    Declared,       \* for each item, the specs an operator applies over time
    Workload,       \* for each client, the requests it may send
    NoRequest,      \* "no request in progress"
    MaxRow,         \* bound: inventory rows ever inserted
    MaxPower        \* bound: power-up rows ever inserted

\* A row of item_definitions; max = 0 means stacks without a limit.  Of the
\* duration only counts whether it is positive.
Category == {"Equipment", "Powerup", "Other"}
Definition == [category : Category, stackable : BOOLEAN, max : Int64, lasting : BOOLEAN]

\* k and n are the item and the quantity of a grant; kit is the inventory a
\* create request brings along.
Op == {"create", "delete", "grant", "equip", "unequip", "activate"}
Stock == [k : Item, n : Int64]
Request == [op : Op, a : Avatar, k : Item, n : Int64, kit : SUBSET Stock]

ASSUME InventoryAssumption ==
    /\ IntLimit \in Nat \ {0}
    /\ MaxInstance \in Nat /\ MaxRow \in Nat /\ MaxPower \in Nat /\ MaxFaults \in Nat
    /\ Declared \in [Item -> SUBSET Definition]
    /\ Workload \in [Client -> SUBSET Request]
    /\ NoRequest \notin Request

VARIABLES
    items,          \* inventory rows: [id, inst, item, qty, equipped]
    powers,         \* active_powerups: [id, inst, item], expired ones included
    catalog,        \* item_definitions: for each name no row or one
    nextRow,        \* the sequences behind the keys of items and powers
    nextPower

vars == <<instances, items, powers, catalog, nextInst, nextRow, nextPower, faults, task, reply>>
tables == <<instances, items, powers, catalog, nextInst, nextRow, nextPower>>

\* The local variables of a handler: the request, the id of the avatar, the
\* row and the definition it has read, and the inventory rows still to be
\* inserted.  reply says whether the last step answered with success.
NoRow == [id |-> 0, qty |-> 0]
NoDefinition == [category |-> "Other", stackable |-> FALSE, max |-> 0, lasting |-> FALSE]
Idle == [pc |-> "idle", req |-> NoRequest, inst |-> 0, def |-> NoDefinition,
         row |-> NoRow, todo |-> {}]

Init ==
    /\ instances = {} /\ items = {} /\ powers = {}
    /\ catalog = [k \in Item |-> {}]
    /\ nextInst = 1 /\ nextRow = 1 /\ nextPower = 1
    /\ faults = 0
    /\ task = [c \in Client |-> Idle]
    /\ reply = FALSE

-----------------------------------------------------------------------------
(* Statements and responses.                                               *)

\* The handler goes on with the given local variables.
Continue(c, t) == task' = [task EXCEPT ![c] = t] /\ reply' = FALSE

\* writeJSON / writeError, after which the handler returns.
Respond(c, ok) == task' = [task EXCEPT ![c] = Idle] /\ reply' = ok
Refuse(c) == Respond(c, FALSE)

\* Faulty variant of ItemRows: the query forgets the avatar.
ItemRows_AnyAvatar(i, k) == {r \in items : r.item = k}

\* No index keeps an avatar from having several rows of one item.
ItemRows(i, k) == {r \in items : r.inst = i /\ r.item = k}

\* The snapshot of the first such row, the zero value when none is found.
Held(i, k, ok) ==
    LET found == Answer(ItemRows(i, k), ok)
    IN  IF found = {} THEN {NoRow} ELSE {[id |-> r.id, qty |-> r.qty] : r \in found}

\* Faulty variant of Capped: the limit is looked at before the sum is made.
Capped_OldQuantity(def, old, n) ==
    IF def.stackable /\ def.max > 0 /\ old > def.max THEN def.max ELSE Plus(old, n)

\* What a stack of old items holds after n more were granted.
Capped(def, old, n) ==
    IF def.stackable /\ def.max > 0 /\ Plus(old, n) > def.max THEN def.max ELSE Plus(old, n)

NewRow(i, k, n) == [id |-> nextRow, inst |-> i, item |-> k, qty |-> n, equipped |-> FALSE]

\* db.Create(&inv), or a statement that failed.
AddRow(ok, i, k, n) ==
    /\ nextRow <= MaxRow
    /\ items' = IF ok THEN items \cup {NewRow(i, k, n)} ELSE items
    /\ nextRow' = IF ok THEN nextRow + 1 ELSE nextRow
    /\ UNCHANGED <<instances, powers, catalog, nextInst, nextPower>>

\* An UPDATE or DELETE of inventory rows.
StoreItems(rows) ==
    /\ items' = rows
    /\ UNCHANGED <<instances, powers, catalog, nextInst, nextRow, nextPower>>

-----------------------------------------------------------------------------
(* A request arrives.                                                      *)

WellFormed(r) == r.op = "grant" => r.n > 0

FirstStep(r) == CASE r.op = "create" -> "insert"
                  [] r.op = "delete" -> "target"
                  [] OTHER           -> "avatar"

Receive(c) ==
    /\ task[c].pc = "idle"
    /\ \E r \in Workload[c] :
         /\ WellFormed(r)
         /\ Continue(c, [Idle EXCEPT !.pc = FirstStep(r), !.req = r])
    /\ UNCHANGED <<tables, faults>>

\* Refused before any statement: a malformed request, or no database
\* connection (getDB fails).
Reject(c) ==
    /\ task[c].pc = "idle"
    /\ Workload[c] # {}
    /\ Refuse(c)
    /\ UNCHANGED <<tables, faults>>

-----------------------------------------------------------------------------
(* CreateAvatarInstance.                                                   *)

\* The avatar's blueprint is outside this module: it may refuse any request.
CreateRefused(c) ==
    /\ At(c, "create", "insert")
    /\ Refuse(c)
    /\ UNCHANGED <<tables, faults>>

InsertInstance(a) ==
    /\ InstanceRows(a) = {}
    /\ nextInst <= MaxInstance
    /\ instances' = instances \cup {NewInstance(a)}
    /\ nextInst' = nextInst + 1
    /\ UNCHANGED <<items, powers, catalog, nextRow, nextPower>>

CreateInsert(c) ==
    /\ At(c, "create", "insert")
    /\ InsertInstance(task[c].req.a)
    /\ Continue(c, [task[c] EXCEPT !.pc = "kit", !.inst = nextInst,
                                   !.todo = task[c].req.kit])
    /\ UNCHANGED faults

\* 409: the name is taken, or the statement failed; a connection lost after
\* the insert was committed is reported in the same way.
CreateConflict(c) ==
    /\ At(c, "create", "insert")
    /\ \/ InstanceRows(task[c].req.a) # {} /\ UNCHANGED <<tables, faults>>
       \/ Statement(FALSE) /\ UNCHANGED tables
       \/ Statement(FALSE) /\ InsertInstance(task[c].req.a)
    /\ Refuse(c)

\* One turn of the loop over the request's inventory, in no fixed order.  The
\* first failure, also that of an attribute before it, answers 500.  Neither
\* catalog nor stack limit is consulted.
CreateKit(c) ==
    /\ At(c, "create", "kit")
    /\ \E e \in task[c].todo, ok \in BOOLEAN :
         /\ Statement(ok)
         /\ AddRow(ok, task[c].inst, e.k, e.n)
         /\ IF ok THEN Continue(c, [task[c] EXCEPT !.todo = @ \ {e}]) ELSE Refuse(c)

\* Achievements and customizations, whose failure answers 500, and initial
\* balances (module Wallet), then 201.
CreateReply(c) ==
    /\ At(c, "create", "kit")
    /\ task[c].todo = {}
    /\ \E ok \in BOOLEAN : Statement(ok) /\ Respond(c, ok)
    /\ UNCHANGED tables

-----------------------------------------------------------------------------
(* DeleteAvatarInstance.                                                   *)

DeleteFind(c) ==
    /\ At(c, "delete", "target")
    /\ \E ok \in BOOLEAN :
         /\ Statement(ok)
         /\ \E id \in Named(task[c].req.a, ok) :
              IF id = 0 THEN Refuse(c)
              ELSE Continue(c, [task[c] EXCEPT !.pc = "purge", !.inst = id])
    /\ UNCHANGED tables

\* Faulty variant of Purged: rows are selected by their own id.
Purged_ByRowId(i) == {r \in items : r.id # i}

Purged(i) == {r \in items : r.inst # i}

\* The inventory goes before the instance; the error is dropped.  The active
\* power-ups stay.
DeletePurge(c) ==
    /\ At(c, "delete", "purge")
    /\ \E ok \in BOOLEAN :
         /\ Statement(ok)
         /\ StoreItems(IF ok THEN Purged(task[c].inst) ELSE items)
    /\ Continue(c, [task[c] EXCEPT !.pc = "remove"])

\* The instance goes last, and the answer is 204 whatever became of it.
DeleteRemove(c) ==
    /\ At(c, "delete", "remove")
    /\ \E ok \in BOOLEAN :
         /\ Statement(ok)
         /\ instances' = IF ok THEN Remove(instances, task[c].inst) ELSE instances
    /\ Respond(c, TRUE)
    /\ UNCHANGED <<items, powers, catalog, nextInst, nextRow, nextPower>>

-----------------------------------------------------------------------------
(* The lookups of GrantItem, EquipItem, UnequipItem and ActivatePowerup.   *)

\* Faulty variant of FindAvatar: the 404 does not end the handler.
FindAvatar_GoesOn(c) ==
    /\ task[c].pc = "avatar"
    /\ \E ok \in BOOLEAN :
         /\ Statement(ok)
         /\ \E id \in Named(task[c].req.a, ok) :
              Continue(c, [task[c] EXCEPT
                       !.pc = IF task[c].req.op = "grant" THEN "catalog" ELSE "row",
                       !.inst = id])
    /\ UNCHANGED tables


\* 404 when there is no avatar of that name.
FindAvatar(c) ==
    /\ task[c].pc = "avatar"
    /\ \E ok \in BOOLEAN :
         /\ Statement(ok)
         /\ \E id \in Named(task[c].req.a, ok) :
              IF id = 0 THEN Refuse(c)
              ELSE Continue(c, [task[c] EXCEPT
                       !.pc = IF task[c].req.op = "grant" THEN "catalog" ELSE "row",
                       !.inst = id])
    /\ UNCHANGED tables

\* Faulty variant of FindRow: the 404 does not end the handler.
FindRow_GoesOn(c) ==
    /\ task[c].pc = "row"
    /\ \E ok \in BOOLEAN :
         /\ Statement(ok)
         /\ \E held \in Held(task[c].inst, task[c].req.k, ok) :
              Continue(c, [task[c] EXCEPT
                       !.pc = IF task[c].req.op = "unequip" THEN "store" ELSE "catalog",
                       !.row = held])
    /\ UNCHANGED tables

\* 404 when the avatar has none of the item.
FindRow(c) ==
    /\ task[c].pc = "row"
    /\ \E ok \in BOOLEAN :
         /\ Statement(ok)
         /\ \E held \in Held(task[c].inst, task[c].req.k, ok) :
              IF held.id = 0 THEN Refuse(c)
              ELSE Continue(c, [task[c] EXCEPT
                       !.pc = IF task[c].req.op = "unequip" THEN "store" ELSE "catalog",
                       !.row = held])
    /\ UNCHANGED tables

\* Faulty variant of Usable: any item with a duration can be activated.
Usable_AnyCategory(op, def) ==
    /\ op = "equip" => def.category = "Equipment"
    /\ op = "activate" => def.lasting

Usable(op, def) ==
    /\ op = "equip" => def.category = "Equipment"
    /\ op = "activate" => def.category = "Powerup" /\ def.lasting

AfterCatalog(op, def) == CASE op = "activate"                -> "power"
                           [] op = "grant" /\ def.stackable -> "stack"
                           [] OTHER                          -> "store"

\* 404 or 400 without a definition, 400 when it does not allow the use.
FindItem(c) ==
    /\ task[c].pc = "catalog"
    /\ LET t == task[c]
           usable == {d \in catalog[t.req.k] : Usable(t.req.op, d)}
       IN  \E ok \in BOOLEAN :
             /\ Statement(ok)
             /\ IF ok /\ usable # {}
                THEN \E d \in usable :
                       Continue(c, [t EXCEPT !.pc = AfterCatalog(t.req.op, d), !.def = d])
                ELSE Refuse(c)
    /\ UNCHANGED tables

-----------------------------------------------------------------------------
(* What the four handlers write.                                           *)

\* Faulty variant of GrantFind: the stack that was found is not used.
GrantFind_Never(c) ==
    /\ At(c, "grant", "stack")
    /\ \E ok \in BOOLEAN :
         /\ Statement(ok)
         /\ Continue(c, [task[c] EXCEPT !.pc = "store", !.row = NoRow])
    /\ UNCHANGED tables

\* The stack to add to; a failed read counts as none.
GrantFind(c) ==
    /\ At(c, "grant", "stack")
    /\ \E ok \in BOOLEAN :
         /\ Statement(ok)
         /\ \E held \in Held(task[c].inst, task[c].req.k, ok) :
              Continue(c, [task[c] EXCEPT !.pc = "store", !.row = held])
    /\ UNCHANGED tables

\* Into the stack, where the error is dropped.
GrantStack(c) ==
    /\ At(c, "grant", "store")
    /\ LET t == task[c]
       IN  /\ t.row.id # 0
           /\ \E ok \in BOOLEAN :
                /\ Statement(ok)
                /\ StoreItems(IF ok THEN SetQuantity(items, t.row.id,
                                                     Capped(t.def, t.row.qty, t.req.n))
                              ELSE items)
    /\ Respond(c, TRUE)

\* A row of its own, where a failure answers 500.
GrantRow(c) ==
    /\ At(c, "grant", "store")
    /\ LET t == task[c]
       IN  /\ t.row.id = 0
           /\ \E ok \in BOOLEAN :
                /\ Statement(ok)
                /\ AddRow(ok, t.inst, t.req.k, Capped(t.def, 0, t.req.n))
                /\ Respond(c, ok)

\* EquipItem and UnequipItem drop the error of their update.
MarkEquipped(c, op) ==
    /\ At(c, op, "store")
    /\ \E ok \in BOOLEAN :
         /\ Statement(ok)
         /\ StoreItems(IF ok THEN SetEquipped(items, task[c].row.id, op = "equip") ELSE items)
    /\ Respond(c, TRUE)

\* The power-up is stored before the item is taken; 500 on failure.
ActivatePower(c) ==
    /\ At(c, "activate", "power")
    /\ nextPower <= MaxPower
    /\ LET new == [id |-> nextPower, inst |-> task[c].inst, item |-> task[c].req.k]
       IN  \E ok \in BOOLEAN :
             /\ Statement(ok)
             /\ powers' = IF ok THEN powers \cup {new} ELSE powers
             /\ nextPower' = IF ok THEN nextPower + 1 ELSE nextPower
             /\ IF ok THEN Continue(c, [task[c] EXCEPT !.pc = "spend"]) ELSE Refuse(c)
    /\ UNCHANGED <<instances, items, catalog, nextInst, nextRow>>

\* Faulty variant of Spent: the last item of a stack stays as an empty row.
Spent_KeepsLast(row) == SetQuantity(items, row.id, row.qty - 1)

\* Faulty variant of Spent: the whole stack is taken.
Spent_WholeStack(row) == Remove(items, row.id)


Spent(row) ==
    IF row.qty <= 1 THEN Remove(items, row.id)
    ELSE SetQuantity(items, row.id, row.qty - 1)

\* One item is taken from the snapshot; the error is dropped.
ActivateSpend(c) ==
    /\ At(c, "activate", "spend")
    /\ \E ok \in BOOLEAN :
         /\ Statement(ok)
         /\ StoreItems(IF ok THEN Spent(task[c].row) ELSE items)
    /\ Respond(c, TRUE)

-----------------------------------------------------------------------------
(* The Item reconciler, and the API process dying.                         *)

\* The upsert: INSERT ... ON CONFLICT (name, game) DO UPDATE.
DefineItem(k) ==
    /\ \E d \in Declared[k] : catalog' = [catalog EXCEPT ![k] = {d}]
    /\ reply' = FALSE
    /\ UNCHANGED <<instances, items, powers, nextInst, nextRow, nextPower, faults, task>>

\* A deleted Item resource takes its row along, but no inventory rows.
DropItem(k) ==
    /\ catalog' = [catalog EXCEPT ![k] = {}]
    /\ reply' = FALSE
    /\ UNCHANGED <<instances, items, powers, nextInst, nextRow, nextPower, faults, task>>

\* Every handler stops between two statements.
Crash ==
    /\ task' = [c \in Client |-> Idle]
    /\ reply' = FALSE
    /\ UNCHANGED <<tables, faults>>

Create(c) == \/ CreateRefused(c) \/ CreateInsert(c) \/ CreateConflict(c)
             \/ CreateKit(c) \/ CreateReply(c)
Delete(c) == DeleteFind(c) \/ DeletePurge(c) \/ DeleteRemove(c)
Lookup(c) == FindAvatar(c) \/ FindRow(c) \/ FindItem(c)
Grant(c) == GrantFind(c) \/ GrantStack(c) \/ GrantRow(c)
Equip(c) == MarkEquipped(c, "equip")
Unequip(c) == MarkEquipped(c, "unequip")
Activate(c) == ActivatePower(c) \/ ActivateSpend(c)

\* What the goroutine serving a client does next.
Step(c) == \/ Create(c) \/ Delete(c) \/ Lookup(c) \/ Grant(c)
           \/ Equip(c) \/ Unequip(c) \/ Activate(c)

Next == \/ \E c \in Client : Receive(c) \/ Reject(c) \/ Step(c)
        \/ \E k \in Item : DefineItem(k) \/ DropItem(k)
        \/ Crash

\* A goroutine that can take its next step is not starved.
Spec == Init /\ [][Next]_vars /\ \A c \in Client : WF_vars(Step(c))
=============================================================================
