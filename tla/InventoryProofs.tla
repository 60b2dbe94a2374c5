--------------------------- MODULE InventoryProofs ---------------------------
(***************************************************************************)
(* Proofs about Inventory for every value of its constants.  InventoryInv  *)
(* is shown to be inductive; the safety properties follow.                 *)
(***************************************************************************)
EXTENDS StockInvariant, FiniteSetTheorems, WellFoundedInduction, TLAPS

USE InventoryAssumption DEF InventoryAssumption

-----------------------------------------------------------------------------
(* The operators the actions are built from.                               *)

\* Adding a positive amount to a quantity gives an int64, and the sum itself
\* unless it leaves int64.
LEMMA PlusFacts ==
    ASSUME NEW x \in Int64, NEW n \in Int64, n > 0
    PROVE  /\ Plus(x, n) \in Int64
           /\ x + n < IntLimit => Plus(x, n) = x + n
  BY DEF Plus, Int64

\* What a grant leaves in a stack is an int64, and legal if the stack was
\* legal, or new.
LEMMA CappedLegal ==
    ASSUME NEW c \in Client, NEW r \in Workload[c], r.n > 0,
           NEW d \in Declared[r.k], NEW old \in Int64, old = 0 \/ Legal(r.k, old)
    PROVE  Capped(d, old, r.n) \in Int64 /\ Legal(r.k, Capped(d, old, r.n))
  <1>1. r.n \in Int64 /\ r.k \in Item
    BY DEF Request
  <1>2. \A x \in Declared[r.k] : x \in Definition /\ x.max \in Int64
    BY <1>1 DEF Definition
  <1>3. Plus(old, r.n) \in Int64
    BY <1>1, PlusFacts
  <1>4. Capped(d, old, r.n) \in Int64
    BY <1>2, <1>3 DEF Capped
  <1>5. ASSUME Limited(r.k), Moderate(r.k)
        PROVE  Fits(r.k, Capped(d, old, r.n))
    <2>1. \A x \in Declared[r.k] : x.max + r.n < IntLimit
      BY <1>5 DEF Moderate
    <2>2. old >= 0 /\ old + r.n < IntLimit
      <3>1. CASE old = 0
        BY <1>1, <3>1 DEF Int64
      <3>2. CASE Legal(r.k, old)
        <4>1. old >= 1 /\ \E x \in Declared[r.k] : old <= x.max
          BY <1>5, <3>2 DEF Legal, Fits
        <4> QED  BY <1>1, <1>2, <2>1, <4>1 DEF Int64
      <3> QED  BY <3>1, <3>2
    <2>3. Plus(old, r.n) = old + r.n
      BY <1>1, <2>2, PlusFacts
    <2>4. d.stackable /\ d.max > 0 /\ d.max \in Int64
      BY <1>2, <1>5 DEF Limited
    <2>5. Capped(d, old, r.n) >= 1 /\ Capped(d, old, r.n) <= d.max
      BY <1>1, <2>2, <2>3, <2>4 DEF Capped, Int64
    <2> QED  BY <2>5 DEF Fits
  <1> QED  BY <1>4, <1>5 DEF Legal

\* One less than a legal stack of several is legal.
LEMMA OneLess ==
    ASSUME NEW k \in Item, NEW n \in Int64, n > 1, Legal(k, n)
    PROVE  n - 1 \in Int64 /\ Legal(k, n - 1)
  <1>1. \A d \in Declared[k] : d.max \in Int64
    BY DEF Definition
  <1>2. n - 1 \in Int64
    BY DEF Int64
  <1>3. Fits(k, n) => Fits(k, n - 1)
    BY <1>1 DEF Fits, Int64
  <1> QED  BY <1>2, <1>3 DEF Legal

\* A lookup by name yields 0 or the id of an instance of that name.
LEMMA NamedFacts ==
    ASSUME TypeOK, TablesFit, NEW a \in Avatar, NEW ok \in BOOLEAN, NEW id \in Named(a, ok),
           id # 0
    PROVE  id \in InstanceId \ {0} /\ id < nextInst
  BY DEF Named, Answer, First, InstanceRows, TypeOK, TablesFit, Instance

\* A lookup of an inventory row yields no row or a snapshot of one of them.
LEMMA HeldFacts ==
    ASSUME NEW i, NEW k, NEW ok \in BOOLEAN, NEW held \in Held(i, k, ok)
    PROVE  \/ held = NoRow
           \/ \E r \in items : /\ r.inst = i /\ r.item = k
                               /\ held = [id |-> r.id, qty |-> r.qty]
  BY DEF Held, Answer, First, ItemRows

\* The tables after a change that keeps the owners of the rows known before:
\* what a handler knows about its row stays true.
Evolved(rows, ni, nr) ==
    /\ nextInst <= ni /\ nextRow <= nr
    /\ \A r \in rows : \/ r.id >= nextRow
                       \/ \E q \in items : q.id = r.id /\ q.inst = r.inst /\ q.item = r.item

LEMMA TaskFitsEvolved ==
    ASSUME InventoryInv, NEW c \in Client, NEW t \in Task,
           NEW rows \in SUBSET ItemRow, NEW ni \in Int, NEW nr \in Int, Evolved(rows, ni, nr),
           TaskFits(c, t, items, nextInst, nextRow)
    PROVE  TaskFits(c, t, rows, ni, nr)
  <1>1. nextInst \in Int /\ nextRow \in Int /\ items \subseteq ItemRow
    BY DEF InventoryInv, TypeOK
  <1>2. t.pc \notin {"catalog", "stack", "store", "power", "spend"} => t.row.id = 0
    BY DEF TaskFits, IdsFit
  <1>3. t.inst < ni /\ t.row.id < nr
    BY <1>1 DEF TaskFits, IdsFit, Evolved, Task, InstanceId, RowId
  <1>4. ASSUME NEW r \in rows
        PROVE  t.row.id = r.id => r.inst = t.inst /\ r.item = t.req.k
    BY <1>1, <1>4 DEF TaskFits, IdsFit, Evolved, Task, RowId, ItemRow
  <1>5. IdsFit(t, rows, ni, nr)
    BY <1>2, <1>3, <1>4 DEF IdsFit
  <1> QED  BY <1>5 DEF TaskFits

-----------------------------------------------------------------------------
(* Steps of a handler.                                                     *)

\* The tables after a step are of their types and hold what TablesFit asks.
TablesKept ==
    /\ instances' \subseteq Instance /\ items' \subseteq ItemRow /\ powers' \subseteq PowerRow
    /\ catalog' \in [Item -> SUBSET Definition]
    /\ nextInst' \in 1 .. MaxInstance + 1 /\ nextRow' \in 1 .. MaxRow + 1
    /\ nextPower' \in 1 .. MaxPower + 1
    /\ TablesFit'
    /\ Evolved(items', nextInst', nextRow')

LEMMA SameTables ==
    ASSUME InventoryInv, UNCHANGED tables
    PROVE  /\ TablesKept
           /\ items' = items /\ nextInst' = nextInst /\ nextRow' = nextRow
  BY DEF InventoryInv, TypeOK, tables, TablesKept, TablesFit, RowsFit, PowersFit, Evolved

LEMMA StatementFacts ==
    ASSUME InventoryInv, NEW ok \in BOOLEAN, Statement(ok)
    PROVE  faults' \in 0 .. MaxFaults
  BY DEF InventoryInv, TypeOK, Statement

\* A handler that goes on with fitting local variables keeps the invariant.
LEMMA StepKeeps ==
    ASSUME InventoryInv, NEW c \in Client, NEW t \in Task,
           task' = [task EXCEPT ![c] = t], reply' \in BOOLEAN, faults' \in 0 .. MaxFaults,
           TablesKept, TaskFits(c, t, items', nextInst', nextRow')
    PROVE  InventoryInv'
  <1>1. task \in [Client -> Task]
    BY DEF InventoryInv, TypeOK
  <1>2. TypeOK'
    BY <1>1 DEF TypeOK, TablesKept
  <1>3. ASSUME NEW d \in Client
        PROVE  TaskFits(d, task'[d], items', nextInst', nextRow')
    <2>1. CASE d = c
      BY <1>1, <2>1
    <2>2. CASE d # c
      <3>1. task'[d] = task[d] /\ task[d] \in Task
        BY <1>1, <2>2
      <3>2. TaskFits(d, task[d], items, nextInst, nextRow)
        BY DEF InventoryInv
      <3>3. /\ items' \in SUBSET ItemRow /\ nextInst' \in Int /\ nextRow' \in Int
            /\ Evolved(items', nextInst', nextRow')
        BY DEF TablesKept
      <3> QED  BY <3>1, <3>2, <3>3, TaskFitsEvolved
    <2> QED  BY <2>1, <2>2
  <1> QED  BY <1>2, <1>3 DEF InventoryInv, TablesKept

LEMMA IdleFits ==
    ASSUME NEW c \in Client, NEW rows \in SUBSET ItemRow,
           NEW ni \in Int, NEW nr \in Int, ni >= 1, nr >= 1
    PROVE  Idle \in Task /\ TaskFits(c, Idle, rows, ni, nr)
  <1>1. Idle \in Task
    BY DEF Idle, Task, PC, InstanceId, Definition, Category, NoDefinition, NoRow, RowId, Int64
  <1>2. IdsFit(Idle, rows, ni, nr)
    BY DEF IdsFit, Idle, NoRow, ItemRow
  <1>3. RequestFits(c, Idle) /\ FoundFits(Idle) /\ TermsFit(Idle)
    BY DEF RequestFits, FoundFits, TermsFit, Idle, NoRow
  <1> QED  BY <1>1, <1>2, <1>3 DEF TaskFits

LEMMA RespondKeeps ==
    ASSUME InventoryInv, NEW c \in Client, NEW ok \in BOOLEAN,
           Respond(c, ok), faults' \in 0 .. MaxFaults, TablesKept
    PROVE  InventoryInv'
  <1>1. Idle \in Task /\ TaskFits(c, Idle, items', nextInst', nextRow')
    BY IdleFits DEF TablesKept
  <1> QED  BY <1>1, StepKeeps DEF Respond

LEMMA RefuseKeeps ==
    ASSUME InventoryInv, NEW c \in Client, Refuse(c), faults' \in 0 .. MaxFaults, TablesKept
    PROVE  InventoryInv'
  BY RespondKeeps DEF Refuse

\* What a handler at work knows.
LEMMA TaskFacts ==
    ASSUME InventoryInv, NEW c \in Client
    PROVE  /\ task[c] \in Task
           /\ TaskFits(c, task[c], items, nextInst, nextRow)
           /\ task[c].pc # "idle" => /\ task[c].req \in Request /\ task[c].req \in Workload[c]
                                     /\ WellFormed(task[c].req)
                                     /\ task[c].req.a \in Avatar /\ task[c].req.k \in Item
                                     /\ task[c].req.n \in Int64
  <1>1. task[c] \in Task /\ TaskFits(c, task[c], items, nextInst, nextRow)
    BY DEF InventoryInv, TypeOK
  <1>2. task[c].pc # "idle" => /\ task[c].req \in Request /\ task[c].req \in Workload[c]
                               /\ WellFormed(task[c].req)
    BY <1>1 DEF TaskFits, RequestFits
  <1> QED  BY <1>1, <1>2 DEF Request

\* A handler that goes on, knowing before the step what it will know after it
\* (TaskFits over the tables as they were).
LEMMA ContinueKeeps ==
    ASSUME InventoryInv, NEW c \in Client, NEW t \in Task, Continue(c, t),
           faults' \in 0 .. MaxFaults, TablesKept,
           TaskFits(c, t, items, nextInst, nextRow)
    PROVE  InventoryInv'
  <1>1. TaskFits(c, t, items', nextInst', nextRow')
    BY TaskFitsEvolved DEF TablesKept
  <1> QED  BY <1>1, StepKeeps DEF Continue

-----------------------------------------------------------------------------
(* Steps that change the tables.                                           *)

LEMMA InsertKeepsTables ==
    ASSUME InventoryInv, NEW a \in Avatar, InsertInstance(a)
    PROVE  TablesKept
  <1>1. /\ instances' = instances \cup {[id |-> nextInst, name |-> a]}
        /\ nextInst \in 1 .. MaxInstance /\ nextInst' = nextInst + 1
        /\ items' = items /\ powers' = powers /\ catalog' = catalog
        /\ nextRow' = nextRow /\ nextPower' = nextPower
    BY DEF InsertInstance, NewInstance, InventoryInv, TypeOK
  <1>2. instances' \subseteq Instance
    BY <1>1 DEF InventoryInv, TypeOK, Instance, InstanceId
  <1>3. TablesFit'
    BY <1>1 DEF InventoryInv, TypeOK, TablesFit, RowsFit, PowersFit, ItemRow, PowerRow,
                InstanceId, Instance
  <1> QED  BY <1>1, <1>2, <1>3 DEF InventoryInv, TypeOK, TablesKept, Evolved

LEMMA AddRowKeepsTables ==
    ASSUME InventoryInv, NEW ok \in BOOLEAN, NEW i \in InstanceId \ {0}, i < nextInst,
           NEW k \in Item, NEW n \in Int64, Legal(k, n), AddRow(ok, i, k, n)
    PROVE  TablesKept
  <1>1. /\ instances' = instances /\ powers' = powers /\ catalog' = catalog
        /\ nextInst' = nextInst /\ nextPower' = nextPower
    BY DEF AddRow
  <1>2. CASE ~ok
    <2>1. UNCHANGED tables
      BY <1>1, <1>2 DEF AddRow, tables
    <2> QED  BY <2>1, SameTables
  <1>3. CASE ok
    <2> DEFINE new == [id |-> nextRow, inst |-> i, item |-> k, qty |-> n, equipped |-> FALSE]
    <2>1. items' = items \cup {new} /\ nextRow \in 1 .. MaxRow /\ nextRow' = nextRow + 1
      BY <1>3 DEF AddRow, NewRow, InventoryInv, TypeOK
    <2>2. new \in ItemRow
      BY <2>1 DEF ItemRow, RowId
    <2>3. \A r \in items : r \in ItemRow /\ r.id \in Int /\ r.id < nextRow
      BY DEF InventoryInv, TypeOK, TablesFit, RowsFit, ItemRow, RowId
    <2>4. items' \subseteq ItemRow
      BY <2>1, <2>2, <2>3
    <2>5. RowsFit(items', nextInst', nextRow')
      <3>1. ASSUME NEW r \in items'
            PROVE  /\ r.id < nextRow' /\ r.inst < nextInst' /\ Legal(r.item, r.qty)
                   /\ r.equipped => Allows(r.item, "equip")
        BY <1>1, <2>1, <2>3 DEF InventoryInv, TablesFit, RowsFit
      <3>2. ASSUME NEW r \in items', NEW q \in items', r.id = q.id
            PROVE  r = q
        <4>1. \A p \in items' : p \in items \/ p = new
          BY <2>1
        <4>2. \A p \in items : p.id # nextRow
          BY <2>1, <2>3
        <4>3. new.id = nextRow
          OBVIOUS
        <4> HIDE DEF new
        <4> QED  BY <3>2, <4>1, <4>2, <4>3 DEF InventoryInv, TablesFit, RowsFit
      <3> QED  BY <3>1, <3>2 DEF RowsFit
    <2>6. TablesFit'
      BY <1>1, <2>5 DEF InventoryInv, TablesFit
    <2>7. Evolved(items', nextInst', nextRow')
      BY <1>1, <2>1 DEF Evolved, InventoryInv, TypeOK
    <2> QED  BY <1>1, <2>1, <2>4, <2>6, <2>7 DEF InventoryInv, TypeOK, TablesKept
  <1> QED  BY <1>2, <1>3

\* Rows that may take the place of the inventory rows: each comes from one
\* of them, whose key, avatar and item it keeps.
From(q, r) ==
    /\ r \in ItemRow /\ r.id = q.id /\ r.inst = q.inst /\ r.item = q.item
    /\ Legal(r.item, r.qty) /\ (r.equipped => Allows(r.item, "equip"))

Storable(rows) ==
    /\ \A r \in rows : \E q \in items : From(q, r)
    /\ \A r, p \in rows : r.id = p.id => r = p

LEMMA SubsetStorable ==
    ASSUME InventoryInv, NEW rows \in SUBSET items
    PROVE  Storable(rows)
  BY DEF Storable, From, InventoryInv, TypeOK, TablesFit, RowsFit

\* A new quantity in the row of the given key, if it is legal there.
LEMMA QuantityStorable ==
    ASSUME InventoryInv, NEW id, NEW n \in Int64,
           \A r \in items : r.id = id => Legal(r.item, n)
    PROVE  Storable(SetQuantity(items, id, n))
  <1> DEFINE New(r) == IF r.id = id THEN [r EXCEPT !.qty = n] ELSE r
             new == SetQuantity(items, id, n)
  <1>1. ASSUME NEW r \in items
        PROVE  From(r, New(r))
    BY DEF From, InventoryInv, TypeOK, TablesFit, RowsFit, ItemRow
  <1>2. ASSUME NEW r \in new
        PROVE  \E q \in items : r = New(q)
    BY <1>2 DEF SetQuantity
  <1>3. ASSUME NEW r \in new, NEW p \in new, r.id = p.id
        PROVE  r = p
    <2>1. PICK x \in items : r = New(x)
      BY <1>2, <1>3
    <2>2. PICK y \in items : p = New(y)
      BY <1>2, <1>3
    <2>3. x.id = y.id
      BY <1>1, <1>3, <2>1, <2>2 DEF From
    <2>4. x = y
      BY <2>3 DEF InventoryInv, TablesFit, RowsFit
    <2> QED  BY <2>1, <2>2, <2>4
  <1> HIDE DEF New, new
  <1>4. Storable(new)
    BY <1>1, <1>2, <1>3 DEF Storable
  <1> QED  BY <1>4 DEF new

\* The mark in the row of the given key, if the item may be equipped.
LEMMA EquippedStorable ==
    ASSUME InventoryInv, NEW id, NEW on \in BOOLEAN,
           \A r \in items : r.id = id /\ on => Allows(r.item, "equip")
    PROVE  Storable(SetEquipped(items, id, on))
  <1> DEFINE New(r) == IF r.id = id THEN [r EXCEPT !.equipped = on] ELSE r
             new == SetEquipped(items, id, on)
  <1>1. ASSUME NEW r \in items
        PROVE  From(r, New(r))
    BY DEF From, InventoryInv, TypeOK, TablesFit, RowsFit, ItemRow
  <1>2. ASSUME NEW r \in new
        PROVE  \E q \in items : r = New(q)
    BY <1>2 DEF SetEquipped
  <1>3. ASSUME NEW r \in new, NEW p \in new, r.id = p.id
        PROVE  r = p
    <2>1. PICK x \in items : r = New(x)
      BY <1>2, <1>3
    <2>2. PICK y \in items : p = New(y)
      BY <1>2, <1>3
    <2>3. x.id = y.id
      BY <1>1, <1>3, <2>1, <2>2 DEF From
    <2>4. x = y
      BY <2>3 DEF InventoryInv, TablesFit, RowsFit
    <2> QED  BY <2>1, <2>2, <2>4
  <1> HIDE DEF New, new
  <1>4. Storable(new)
    BY <1>1, <1>2, <1>3 DEF Storable
  <1> QED  BY <1>4 DEF new

LEMMA StoreKeepsTables ==
    ASSUME InventoryInv, NEW rows, Storable(rows), StoreItems(rows)
    PROVE  TablesKept
  <1>1. /\ items' = rows /\ instances' = instances /\ powers' = powers /\ catalog' = catalog
        /\ nextInst' = nextInst /\ nextRow' = nextRow /\ nextPower' = nextPower
    BY DEF StoreItems
  <1>2. items' \subseteq ItemRow
    BY <1>1 DEF Storable, From
  <1>3. RowsFit(items', nextInst', nextRow')
    BY <1>1 DEF RowsFit, Storable, From, InventoryInv, TablesFit
  <1>4. Evolved(items', nextInst', nextRow')
    BY <1>1 DEF Evolved, Storable, From, InventoryInv, TypeOK
  <1>5. TablesFit'
    BY <1>1, <1>3 DEF InventoryInv, TablesFit
  <1> QED  BY <1>1, <1>2, <1>4, <1>5 DEF InventoryInv, TypeOK, TablesKept

-----------------------------------------------------------------------------
(* Every action keeps the invariant: arrival, creation and deletion.       *)

LEMMA ReceiveKeeps ==
    ASSUME InventoryInv, NEW c \in Client, Receive(c)
    PROVE  InventoryInv'
  <1>1. PICK r \in Workload[c] :
          WellFormed(r) /\ Continue(c, [Idle EXCEPT !.pc = FirstStep(r), !.req = r])
    BY DEF Receive
  <1> DEFINE t == [Idle EXCEPT !.pc = FirstStep(r), !.req = r]
  <1>2. TablesKept /\ faults' \in 0 .. MaxFaults
    BY SameTables DEF Receive, InventoryInv, TypeOK
  <1>3. r \in Request /\ FirstStep(r) \in {"insert", "target", "avatar"}
    BY DEF FirstStep
  <1>4. Idle \in Task /\ TaskFits(c, Idle, items, nextInst, nextRow)
    BY IdleFits DEF InventoryInv, TypeOK
  <1>5. t \in Task
    BY <1>3, <1>4 DEF Task, Idle, PC
  <1>6. RequestFits(c, t) /\ FoundFits(t) /\ TermsFit(t)
    BY <1>1, <1>3 DEF RequestFits, FoundFits, TermsFit, Idle, NoRow
  <1>7. IdsFit(t, items, nextInst, nextRow)
    BY <1>4 DEF TaskFits, IdsFit, Idle, NoRow, InventoryInv, TypeOK, ItemRow
  <1>8. Continue(c, t) /\ TaskFits(c, t, items, nextInst, nextRow)
    BY <1>1, <1>6, <1>7 DEF TaskFits
  <1> HIDE DEF t
  <1> QED  BY <1>2, <1>5, <1>8, ContinueKeeps

LEMMA RejectKeeps ==
    ASSUME InventoryInv, NEW c \in Client, Reject(c) \/ CreateRefused(c)
    PROVE  InventoryInv'
  <1>1. Refuse(c) /\ UNCHANGED tables /\ faults' = faults
    BY DEF Reject, CreateRefused
  <1> QED  BY <1>1, SameTables, RefuseKeeps DEF InventoryInv, TypeOK

LEMMA CreateInsertKeeps ==
    ASSUME InventoryInv, NEW c \in Client, CreateInsert(c)
    PROVE  InventoryInv'
  <1> DEFINE t == [task[c] EXCEPT !.pc = "kit", !.inst = nextInst, !.todo = task[c].req.kit]
  <1>1. /\ task[c].pc = "insert" /\ task[c] \in Task
        /\ TaskFits(c, task[c], items, nextInst, nextRow)
        /\ task[c].req \in Request /\ task[c].req.a \in Avatar
    BY TaskFacts DEF CreateInsert, At
  <1>2. TablesKept
    BY <1>1, InsertKeepsTables DEF CreateInsert
  <1>3. /\ nextInst \in 1 .. MaxInstance /\ nextInst' = nextInst + 1
        /\ items' = items /\ nextRow' = nextRow
    BY DEF CreateInsert, InsertInstance, InventoryInv, TypeOK
  <1>4. t \in Task
    <2>1. nextInst \in InstanceId /\ task[c].req.kit \subseteq Stock
      BY <1>1, <1>3 DEF InstanceId, Request
    <2> QED  BY <1>1, <2>1 DEF Task, PC
  <1>5. items \subseteq ItemRow
    BY DEF InventoryInv, TypeOK
  <1>6. IdsFit(t, items', nextInst', nextRow')
    BY <1>1, <1>3, <1>5 DEF TaskFits, IdsFit, Task, InstanceId, ItemRow, RowId
  <1>7. RequestFits(c, t) /\ FoundFits(t) /\ TermsFit(t)
    BY <1>1, <1>3 DEF TaskFits, RequestFits, FoundFits, TermsFit, IdsFit, Task
  <1>8. TaskFits(c, t, items', nextInst', nextRow')
    BY <1>6, <1>7 DEF TaskFits
  <1>9. /\ task' = [task EXCEPT ![c] = t] /\ reply' \in BOOLEAN
        /\ faults' \in 0 .. MaxFaults
    BY DEF CreateInsert, Continue, InventoryInv, TypeOK
  <1> HIDE DEF t
  <1> QED  BY <1>2, <1>4, <1>8, <1>9, StepKeeps

LEMMA CreateConflictKeeps ==
    ASSUME InventoryInv, NEW c \in Client, CreateConflict(c)
    PROVE  InventoryInv'
  <1>0. task[c].req.a \in Avatar
    BY TaskFacts DEF CreateConflict, At
  <1>1. TablesKept
    BY <1>0, InsertKeepsTables, SameTables DEF CreateConflict, tables
  <1>2. faults' \in 0 .. MaxFaults
    BY StatementFacts DEF CreateConflict, InventoryInv, TypeOK
  <1>3. Refuse(c)
    BY DEF CreateConflict
  <1> QED  BY <1>1, <1>2, <1>3, RefuseKeeps

LEMMA CreateKitKeeps ==
    ASSUME InventoryInv, NEW c \in Client, CreateKit(c)
    PROVE  InventoryInv'
  <1>1. PICK e \in task[c].todo, ok \in BOOLEAN :
          /\ Statement(ok)
          /\ AddRow(ok, task[c].inst, e.k, e.n)
          /\ IF ok THEN Continue(c, [task[c] EXCEPT !.todo = @ \ {e}]) ELSE Refuse(c)
    BY DEF CreateKit
  <1> DEFINE t == [task[c] EXCEPT !.todo = @ \ {e}]
  <1>2. /\ task[c].pc = "kit" /\ task[c] \in Task
        /\ TaskFits(c, task[c], items, nextInst, nextRow)
        /\ task[c].req \in Workload[c]
    BY TaskFacts DEF CreateKit, At
  <1>3. task[c].inst \in InstanceId \ {0} /\ task[c].inst < nextInst
    BY <1>2 DEF TaskFits, FoundFits, IdsFit, Task
  <1>4. e.k \in Item /\ e.n \in Int64 /\ e \in task[c].req.kit
    BY <1>2 DEF Task, Stock, TaskFits, RequestFits
  <1>5. Legal(e.k, e.n)
    BY <1>2, <1>4 DEF Legal, Moderate
  <1>6. TablesKept /\ faults' \in 0 .. MaxFaults
    BY <1>1, <1>3, <1>4, <1>5, AddRowKeepsTables, StatementFacts
  <1>7. CASE ~ok
    BY <1>1, <1>6, <1>7, RefuseKeeps
  <1>8. CASE ok
    <2>1. t \in Task
      BY <1>2 DEF Task
    <2>2. TaskFits(c, t, items, nextInst, nextRow)
      BY <1>2 DEF TaskFits, RequestFits, FoundFits, IdsFit, TermsFit, Task
    <2>3. Continue(c, t)
      BY <1>1, <1>8
    <2> HIDE DEF t
    <2> QED  BY <1>6, <2>1, <2>2, <2>3, ContinueKeeps
  <1> QED  BY <1>7, <1>8

LEMMA CreateReplyKeeps ==
    ASSUME InventoryInv, NEW c \in Client, CreateReply(c)
    PROVE  InventoryInv'
  <1>1. PICK ok \in BOOLEAN : Statement(ok) /\ Respond(c, ok)
    BY DEF CreateReply
  <1>2. TablesKept
    BY SameTables DEF CreateReply
  <1> QED  BY <1>1, <1>2, StatementFacts, RespondKeeps

\* A handler that goes on to a step at which it need not know more than that
\* the avatar exists.
LEMMA FoundAvatar ==
    ASSUME InventoryInv, NEW c \in Client, task[c].pc \in {"target", "avatar"},
           NEW id \in InstanceId \ {0}, id < nextInst,
           NEW p \in PC, p \in {"purge", "row"} \/ (p = "catalog" /\ task[c].req.op = "grant")
    PROVE  LET t == [task[c] EXCEPT !.pc = p, !.inst = id]
           IN  t \in Task /\ TaskFits(c, t, items, nextInst, nextRow)
  <1> DEFINE t == [task[c] EXCEPT !.pc = p, !.inst = id]
  <1>1. /\ task[c] \in Task /\ TaskFits(c, task[c], items, nextInst, nextRow)
        /\ task[c].req \in Workload[c] /\ WellFormed(task[c].req) /\ task[c].row.id = 0
    BY TaskFacts DEF TaskFits, IdsFit
  <1>2. t \in Task
    BY <1>1 DEF Task
  <1>3. RequestFits(c, t) /\ FoundFits(t) /\ TermsFit(t)
    BY <1>1 DEF RequestFits, FoundFits, TermsFit, Task
  <1>4. IdsFit(t, items, nextInst, nextRow)
    BY <1>1 DEF TaskFits, IdsFit, Task, InventoryInv, TypeOK, ItemRow
  <1> QED  BY <1>2, <1>3, <1>4 DEF TaskFits

LEMMA DeleteFindKeeps ==
    ASSUME InventoryInv, NEW c \in Client, DeleteFind(c)
    PROVE  InventoryInv'
  <1> DEFINE T(id) == [task[c] EXCEPT !.pc = "purge", !.inst = id]
  <1>1. PICK ok \in BOOLEAN :
          /\ Statement(ok)
          /\ \E id \in Named(task[c].req.a, ok) :
               IF id = 0 THEN Refuse(c) ELSE Continue(c, T(id))
    BY DEF DeleteFind
  <1>2. PICK id \in Named(task[c].req.a, ok) : IF id = 0 THEN Refuse(c) ELSE Continue(c, T(id))
    BY <1>1
  <1>3. TablesKept /\ faults' \in 0 .. MaxFaults
    BY <1>1, SameTables, StatementFacts DEF DeleteFind
  <1>4. CASE id = 0
    BY <1>2, <1>3, <1>4, RefuseKeeps
  <1>5. CASE id # 0
    <2>1. task[c].pc = "target" /\ task[c].req.a \in Avatar
      BY TaskFacts DEF DeleteFind, At
    <2>2. id \in InstanceId \ {0} /\ id < nextInst
      BY <1>5, <2>1, NamedFacts DEF InventoryInv
    <2>3. T(id) \in Task /\ TaskFits(c, T(id), items, nextInst, nextRow)
      BY <2>1, <2>2, FoundAvatar DEF PC
    <2>4. Continue(c, T(id))
      BY <1>2, <1>5
    <2> HIDE DEF T
    <2> QED  BY <1>3, <2>3, <2>4, ContinueKeeps
  <1> QED  BY <1>4, <1>5

LEMMA DeletePurgeKeeps ==
    ASSUME InventoryInv, NEW c \in Client, DeletePurge(c)
    PROVE  InventoryInv'
  <1> DEFINE t == [task[c] EXCEPT !.pc = "remove"]
  <1>1. PICK ok \in BOOLEAN :
          Statement(ok) /\ StoreItems(IF ok THEN Purged(task[c].inst) ELSE items)
    BY DEF DeletePurge
  <1>2. TablesKept /\ faults' \in 0 .. MaxFaults
    <2>1. (IF ok THEN Purged(task[c].inst) ELSE items) \in SUBSET items
      BY DEF Purged
    <2> QED  BY <1>1, <2>1, SubsetStorable, StoreKeepsTables, StatementFacts
  <1>3. task[c].pc = "purge" /\ task[c] \in Task /\ TaskFits(c, task[c], items, nextInst, nextRow)
    BY TaskFacts DEF DeletePurge, At
  <1>4. t \in Task /\ TaskFits(c, t, items, nextInst, nextRow)
    BY <1>3 DEF Task, PC, TaskFits, RequestFits, FoundFits, IdsFit, TermsFit
  <1>5. Continue(c, t)
    BY DEF DeletePurge
  <1> HIDE DEF t
  <1> QED  BY <1>2, <1>4, <1>5, ContinueKeeps

LEMMA DeleteRemoveKeeps ==
    ASSUME InventoryInv, NEW c \in Client, DeleteRemove(c)
    PROVE  InventoryInv'
  <1>1. /\ instances' \subseteq instances
        /\ UNCHANGED <<items, powers, catalog, nextInst, nextRow, nextPower>>
        /\ faults' \in 0 .. MaxFaults
    BY StatementFacts DEF DeleteRemove, Remove
  <1>2. TablesKept
    BY <1>1 DEF InventoryInv, TypeOK, TablesKept, TablesFit, RowsFit, PowersFit, Evolved
  <1>3. Respond(c, TRUE)
    BY DEF DeleteRemove
  <1> QED  BY <1>1, <1>2, <1>3, RespondKeeps

-----------------------------------------------------------------------------
(* Every action keeps the invariant: the lookups.                          *)

LEMMA FindAvatarKeeps ==
    ASSUME InventoryInv, NEW c \in Client, FindAvatar(c)
    PROVE  InventoryInv'
  <1> DEFINE p == IF task[c].req.op = "grant" THEN "catalog" ELSE "row"
             T(id) == [task[c] EXCEPT !.pc = p, !.inst = id]
  <1>1. PICK ok \in BOOLEAN :
          /\ Statement(ok)
          /\ \E id \in Named(task[c].req.a, ok) :
               IF id = 0 THEN Refuse(c) ELSE Continue(c, T(id))
    BY DEF FindAvatar
  <1>2. PICK id \in Named(task[c].req.a, ok) : IF id = 0 THEN Refuse(c) ELSE Continue(c, T(id))
    BY <1>1
  <1>3. TablesKept /\ faults' \in 0 .. MaxFaults
    BY <1>1, SameTables, StatementFacts DEF FindAvatar
  <1>4. CASE id = 0
    BY <1>2, <1>3, <1>4, RefuseKeeps
  <1>5. CASE id # 0
    <2>1. task[c].pc = "avatar" /\ task[c].req.a \in Avatar
      BY TaskFacts DEF FindAvatar
    <2>2. id \in InstanceId \ {0} /\ id < nextInst
      BY <1>5, <2>1, NamedFacts DEF InventoryInv
    <2>3. p \in PC /\ (p = "row" \/ (p = "catalog" /\ task[c].req.op = "grant"))
      BY DEF PC
    <2> HIDE DEF p
    <2>4. T(id) \in Task /\ TaskFits(c, T(id), items, nextInst, nextRow)
      BY <2>1, <2>2, <2>3, FoundAvatar
    <2>5. Continue(c, T(id))
      BY <1>2, <1>5
    <2> HIDE DEF T
    <2> QED  BY <1>3, <2>4, <2>5, ContinueKeeps
  <1> QED  BY <1>4, <1>5

\* A handler that has read the avatar's row of the requested item knows that
\* its quantity is legal, and may go on to a step that needs a row.
LEMMA FoundRow ==
    ASSUME InventoryInv, NEW c \in Client, task[c].pc \in {"row", "stack"},
           NEW ok \in BOOLEAN, NEW held \in Held(task[c].inst, task[c].req.k, ok),
           NEW p \in {"catalog", "store"},
           held.id # 0 \/ task[c].req.op = "grant",
           p = "store" => task[c].pc = "stack" \/ task[c].req.op = "unequip"
    PROVE  LET t == [task[c] EXCEPT !.pc = p, !.row = held]
           IN  t \in Task /\ TaskFits(c, t, items, nextInst, nextRow)
  <1> DEFINE t == [task[c] EXCEPT !.pc = p, !.row = held]
  <1>1. /\ task[c] \in Task /\ TaskFits(c, task[c], items, nextInst, nextRow)
        /\ task[c].req \in Workload[c] /\ WellFormed(task[c].req)
    BY TaskFacts
  <1>2. \A r \in items : /\ r \in ItemRow /\ r.id < nextRow /\ Legal(r.item, r.qty)
                         /\ \A q \in items : q.id = r.id => q = r
    BY DEF InventoryInv, TypeOK, TablesFit, RowsFit
  <1>3. nextRow \in 1 .. MaxRow + 1
    BY DEF InventoryInv, TypeOK
  <1>4. /\ held \in [id : RowId, qty : Int64] /\ held.id < nextRow
        /\ held.id # 0 => Legal(task[c].req.k, held.qty)
        /\ \A r \in items : held.id = r.id => r.inst = task[c].inst /\ r.item = task[c].req.k
    <2>1. CASE held = NoRow
      BY <1>2, <1>3, <2>1 DEF NoRow, RowId, Int64, ItemRow
    <2>2. CASE held # NoRow
      <3>1. PICK r \in items : /\ r.inst = task[c].inst /\ r.item = task[c].req.k
                               /\ held = [id |-> r.id, qty |-> r.qty]
        BY <2>2, HeldFacts
      <3> QED  BY <1>2, <3>1 DEF ItemRow
    <2> QED  BY <2>1, <2>2
  <1>5. t \in Task
    BY <1>1, <1>4 DEF Task, PC
  <1>6. RequestFits(c, t) /\ FoundFits(t)
    BY <1>1 DEF TaskFits, RequestFits, FoundFits, Task
  <1>7. TermsFit(t)
    BY <1>1, <1>4 DEF TaskFits, TermsFit, Task
  <1>8. IdsFit(t, items, nextInst, nextRow)
    BY <1>1, <1>4 DEF TaskFits, IdsFit, Task
  <1> QED  BY <1>5, <1>6, <1>7, <1>8 DEF TaskFits

LEMMA FindRowKeeps ==
    ASSUME InventoryInv, NEW c \in Client, FindRow(c)
    PROVE  InventoryInv'
  <1> DEFINE p == IF task[c].req.op = "unequip" THEN "store" ELSE "catalog"
             T(held) == [task[c] EXCEPT !.pc = p, !.row = held]
  <1>1. PICK ok \in BOOLEAN :
          /\ Statement(ok)
          /\ \E held \in Held(task[c].inst, task[c].req.k, ok) :
               IF held.id = 0 THEN Refuse(c) ELSE Continue(c, T(held))
    BY DEF FindRow
  <1>2. PICK held \in Held(task[c].inst, task[c].req.k, ok) :
          IF held.id = 0 THEN Refuse(c) ELSE Continue(c, T(held))
    BY <1>1
  <1>3. TablesKept /\ faults' \in 0 .. MaxFaults
    BY <1>1, SameTables, StatementFacts DEF FindRow
  <1>4. CASE held.id = 0
    BY <1>2, <1>3, <1>4, RefuseKeeps
  <1>5. CASE held.id # 0
    <2>1. /\ p \in {"catalog", "store"} /\ task[c].pc = "row"
          /\ p = "store" => task[c].req.op = "unequip"
      BY DEF FindRow
    <2> HIDE DEF p
    <2>2. T(held) \in Task /\ TaskFits(c, T(held), items, nextInst, nextRow)
      BY <1>5, <2>1, FoundRow
    <2>3. Continue(c, T(held))
      BY <1>2, <1>5
    <2> HIDE DEF T
    <2> QED  BY <1>3, <2>2, <2>3, ContinueKeeps
  <1> QED  BY <1>4, <1>5

LEMMA GrantFindKeeps ==
    ASSUME InventoryInv, NEW c \in Client, GrantFind(c)
    PROVE  InventoryInv'
  <1> DEFINE T(held) == [task[c] EXCEPT !.pc = "store", !.row = held]
  <1>1. PICK ok \in BOOLEAN :
          /\ Statement(ok)
          /\ \E held \in Held(task[c].inst, task[c].req.k, ok) : Continue(c, T(held))
    BY DEF GrantFind
  <1>2. PICK held \in Held(task[c].inst, task[c].req.k, ok) : Continue(c, T(held))
    BY <1>1
  <1>3. TablesKept /\ faults' \in 0 .. MaxFaults
    BY <1>1, SameTables, StatementFacts DEF GrantFind
  <1>4. task[c].pc = "stack" /\ task[c].req.op = "grant"
    BY DEF GrantFind, At
  <1>5. T(held) \in Task /\ TaskFits(c, T(held), items, nextInst, nextRow)
    BY <1>4, FoundRow
  <1> HIDE DEF T
  <1> QED  BY <1>2, <1>3, <1>5, ContinueKeeps

LEMMA FindItemKeeps ==
    ASSUME InventoryInv, NEW c \in Client, FindItem(c)
    PROVE  InventoryInv'
  <1> DEFINE t == task[c]
             usable == {d \in catalog[t.req.k] : Usable(t.req.op, d)}
             T(d) == [t EXCEPT !.pc = AfterCatalog(t.req.op, d), !.def = d]
  <1>1. PICK ok \in BOOLEAN :
          /\ Statement(ok)
          /\ IF ok /\ usable # {} THEN \E d \in usable : Continue(c, T(d)) ELSE Refuse(c)
    BY DEF FindItem
  <1>2. TablesKept /\ faults' \in 0 .. MaxFaults
    BY <1>1, SameTables, StatementFacts DEF FindItem
  <1>3. CASE ~(ok /\ usable # {})
    <2>1. Refuse(c)
      BY <1>1, <1>3
    <2> QED  BY <1>2, <2>1, RefuseKeeps
  <1>4. CASE ok /\ usable # {}
    <2>1. PICK d \in usable : Continue(c, T(d))
      BY <1>1, <1>4
    <2>2. /\ t.pc = "catalog" /\ t \in Task /\ TaskFits(c, t, items, nextInst, nextRow)
          /\ t.req.k \in Item
      BY TaskFacts DEF FindItem
    <2>3. d \in Declared[t.req.k] /\ d \in Definition /\ Usable(t.req.op, d)
      BY <2>2 DEF InventoryInv, TypeOK, TablesFit
    <2>4. /\ AfterCatalog(t.req.op, d) \in {"power", "stack", "store"}
          /\ AfterCatalog(t.req.op, d) = "stack" => t.req.op = "grant"
      BY DEF AfterCatalog
    <2>5. t.req.op = "grant" \/ t.row.id # 0
      BY <2>2 DEF TaskFits, FoundFits
    <2>6. T(d) \in Task
      BY <2>2, <2>3, <2>4 DEF Task, PC
    <2> DEFINE q == AfterCatalog(t.req.op, d)
    <2>7. RequestFits(c, T(d)) /\ FoundFits(T(d))
      <3> HIDE DEF q
      <3>1. RequestFits(c, [t EXCEPT !.pc = q, !.def = d]) /\ FoundFits([t EXCEPT !.pc = q, !.def = d])
        BY <2>2, <2>4, <2>5 DEF TaskFits, RequestFits, FoundFits, Task, q
      <3> QED  BY <3>1 DEF q
    <2>8. TermsFit(T(d))
      BY <2>2, <2>3, <2>4 DEF TaskFits, TermsFit, Task
    <2>9. IdsFit(T(d), items, nextInst, nextRow)
      BY <2>2, <2>4 DEF TaskFits, IdsFit, Task
    <2>10. TaskFits(c, T(d), items, nextInst, nextRow)
      BY <2>7, <2>8, <2>9 DEF TaskFits
    <2> HIDE DEF T
    <2> QED  BY <1>2, <2>1, <2>6, <2>10, ContinueKeeps
  <1> QED  BY <1>3, <1>4

-----------------------------------------------------------------------------
(* Every action keeps the invariant: what the handlers write.              *)

\* What a handler about to write knows.
LEMMA WriteFacts ==
    ASSUME InventoryInv, NEW c \in Client, task[c].pc \in {"store", "power", "spend"}
    PROVE  LET t == task[c]
           IN  /\ t \in Task /\ TaskFits(c, t, items, nextInst, nextRow)
               /\ t.req \in Workload[c] /\ WellFormed(t.req)
               /\ t.req.k \in Item /\ t.req.n \in Int64
               /\ t.inst \in InstanceId \ {0} /\ t.inst < nextInst
               /\ t.row.id \in RowId /\ t.row.qty \in Int64
               /\ t.req.op # "unequip" => t.def \in Declared[t.req.k] /\ Usable(t.req.op, t.def)
               /\ t.row.id # 0 => Legal(t.req.k, t.row.qty)
               /\ \A r \in items : t.row.id = r.id => r.inst = t.inst /\ r.item = t.req.k
  <1>1. /\ task[c] \in Task /\ TaskFits(c, task[c], items, nextInst, nextRow)
        /\ task[c].req \in Workload[c] /\ WellFormed(task[c].req)
        /\ task[c].req.k \in Item /\ task[c].req.n \in Int64
    BY TaskFacts
  <1>2. /\ task[c].inst \in InstanceId \ {0} /\ task[c].inst < nextInst
        /\ task[c].row.id \in RowId /\ task[c].row.qty \in Int64
    BY <1>1 DEF TaskFits, FoundFits, IdsFit, Task
  <1>3. /\ task[c].req.op # "unequip" =>
             task[c].def \in Declared[task[c].req.k] /\ Usable(task[c].req.op, task[c].def)
        /\ task[c].row.id # 0 => Legal(task[c].req.k, task[c].row.qty)
    BY <1>1 DEF TaskFits, TermsFit
  <1> QED  BY <1>1, <1>2, <1>3 DEF TaskFits, IdsFit

LEMMA GrantStackKeeps ==
    ASSUME InventoryInv, NEW c \in Client, GrantStack(c)
    PROVE  InventoryInv'
  <1> DEFINE t == task[c]
             new == Capped(t.def, t.row.qty, t.req.n)
             Rows(ok) == IF ok THEN SetQuantity(items, t.row.id, new) ELSE items
  <1>1. PICK ok \in BOOLEAN : Statement(ok) /\ StoreItems(Rows(ok))
    BY DEF GrantStack
  <1>2. t.pc = "store" /\ t.req.op = "grant" /\ t.row.id # 0
    BY DEF GrantStack, At
  <1>3. new \in Int64 /\ Legal(t.req.k, new)
    BY <1>2, WriteFacts, CappedLegal DEF WellFormed
  <1>4. \A r \in items : r.id = t.row.id => Legal(r.item, new)
    BY <1>2, <1>3, WriteFacts
  <1> HIDE DEF new
  <1>5. Storable(Rows(ok))
    BY <1>3, <1>4, QuantityStorable, SubsetStorable
  <1>6. Respond(c, TRUE)
    BY DEF GrantStack
  <1> HIDE DEF Rows
  <1>7. TablesKept
    BY <1>1, <1>5, StoreKeepsTables
  <1> QED  BY <1>1, <1>6, <1>7, StatementFacts, RespondKeeps

LEMMA GrantRowKeeps ==
    ASSUME InventoryInv, NEW c \in Client, GrantRow(c)
    PROVE  InventoryInv'
  <1> DEFINE t == task[c]
             new == Capped(t.def, 0, t.req.n)
  <1>1. PICK ok \in BOOLEAN : /\ Statement(ok) /\ AddRow(ok, t.inst, t.req.k, new)
                              /\ Respond(c, ok)
    BY DEF GrantRow
  <1>2. t.pc = "store" /\ t.req.op = "grant"
    BY DEF GrantRow, At
  <1>3. 0 \in Int64
    BY DEF Int64
  <1>4. new \in Int64 /\ Legal(t.req.k, new)
    BY <1>2, <1>3, WriteFacts, CappedLegal DEF WellFormed
  <1> HIDE DEF new
  <1>5. TablesKept
    BY <1>1, <1>2, <1>4, WriteFacts, AddRowKeepsTables
  <1> QED  BY <1>1, <1>5, StatementFacts, RespondKeeps

LEMMA MarkEquippedKeeps ==
    ASSUME InventoryInv, NEW c \in Client, NEW op \in {"equip", "unequip"}, MarkEquipped(c, op)
    PROVE  InventoryInv'
  <1> DEFINE t == task[c]
             Rows(ok) == IF ok THEN SetEquipped(items, t.row.id, op = "equip") ELSE items
  <1>1. PICK ok \in BOOLEAN : Statement(ok) /\ StoreItems(Rows(ok))
    BY DEF MarkEquipped
  <1>2. t.pc = "store" /\ t.req.op = op
    BY DEF MarkEquipped, At
  <1>3. ASSUME op = "equip", NEW r \in items, r.id = t.row.id
        PROVE  Allows(r.item, "equip")
    BY <1>2, <1>3, WriteFacts DEF Allows
  <1>4. Storable(Rows(ok))
    BY <1>3, EquippedStorable, SubsetStorable
  <1>5. Respond(c, TRUE)
    BY DEF MarkEquipped
  <1> HIDE DEF Rows
  <1>6. TablesKept
    BY <1>1, <1>4, StoreKeepsTables
  <1> QED  BY <1>1, <1>5, <1>6, StatementFacts, RespondKeeps

LEMMA ActivatePowerKeeps ==
    ASSUME InventoryInv, NEW c \in Client, ActivatePower(c)
    PROVE  InventoryInv'
  <1> DEFINE t == task[c]
             new == [id |-> nextPower, inst |-> t.inst, item |-> t.req.k]
             u == [t EXCEPT !.pc = "spend"]
  <1>1. PICK ok \in BOOLEAN :
          /\ Statement(ok)
          /\ powers' = IF ok THEN powers \cup {new} ELSE powers
          /\ nextPower' = IF ok THEN nextPower + 1 ELSE nextPower
          /\ IF ok THEN Continue(c, u) ELSE Refuse(c)
    BY DEF ActivatePower
  <1>2. /\ UNCHANGED <<instances, items, catalog, nextInst, nextRow>>
        /\ nextPower \in 1 .. MaxPower /\ t.pc = "power" /\ t.req.op = "activate"
    BY DEF ActivatePower, At, InventoryInv, TypeOK
  <1>3. new \in PowerRow /\ new.inst < nextInst
    BY <1>2, WriteFacts DEF PowerRow
  <1>4. Allows(t.req.k, "activate")
    BY <1>2, WriteFacts DEF Allows
  <1>5. powers' \subseteq PowerRow /\ nextPower' \in 1 .. MaxPower + 1
    <2> HIDE DEF new
    <2> QED  BY <1>1, <1>2, <1>3 DEF InventoryInv, TypeOK
  <1>6. PowersFit(powers', nextInst)
    BY <1>1, <1>3, <1>4 DEF PowersFit, InventoryInv, TablesFit
  <1>7. TablesKept
    BY <1>2, <1>5, <1>6 DEF InventoryInv, TypeOK, TablesKept, TablesFit, RowsFit, Evolved
  <1>8. CASE ~ok
    BY <1>1, <1>7, <1>8, StatementFacts, RefuseKeeps
  <1>9. CASE ok
    <2>1. t \in Task /\ TaskFits(c, t, items, nextInst, nextRow)
      BY TaskFacts
    <2>2. u \in Task /\ TaskFits(c, u, items, nextInst, nextRow)
      BY <1>2, <2>1 DEF Task, PC, TaskFits, RequestFits, FoundFits, IdsFit, TermsFit
    <2>3. Continue(c, u)
      BY <1>1, <1>9
    <2> HIDE DEF u
    <2> QED  BY <1>1, <1>7, <2>2, <2>3, StatementFacts, ContinueKeeps
  <1> QED  BY <1>8, <1>9

LEMMA ActivateSpendKeeps ==
    ASSUME InventoryInv, NEW c \in Client, ActivateSpend(c)
    PROVE  InventoryInv'
  <1> DEFINE t == task[c]
             Rows(ok) == IF ok THEN Spent(t.row) ELSE items
  <1>1. PICK ok \in BOOLEAN : Statement(ok) /\ StoreItems(Rows(ok))
    BY DEF ActivateSpend
  <1>2. t.pc = "spend" /\ t.req.op = "activate"
    BY DEF ActivateSpend, At
  <1>3. /\ t.row.id # 0 /\ t.row.qty \in Int64 /\ t.req.k \in Item
        /\ Legal(t.req.k, t.row.qty)
        /\ \A r \in items : t.row.id = r.id => r.item = t.req.k
    <2>1. t.row.id # 0
      BY <1>2, WriteFacts DEF TaskFits, FoundFits
    <2> QED  BY <1>2, <2>1, WriteFacts
  <1>4. Storable(Spent(t.row))
    <2>1. CASE t.row.qty <= 1
      <3>1. Spent(t.row) \in SUBSET items
        BY <2>1 DEF Spent, Remove
      <3> QED  BY <3>1, SubsetStorable
    <2>2. CASE t.row.qty > 1
      <3>1. t.row.qty - 1 \in Int64 /\ Legal(t.req.k, t.row.qty - 1)
        BY <1>3, <2>2, OneLess
      <3>2. Spent(t.row) = SetQuantity(items, t.row.id, t.row.qty - 1)
        BY <1>3, <2>2 DEF Spent, Int64
      <3>3. \A r \in items : r.id = t.row.id => Legal(r.item, t.row.qty - 1)
        BY <1>3, <3>1
      <3> QED  BY <3>1, <3>2, <3>3, QuantityStorable
    <2> QED  BY <1>3, <2>1, <2>2 DEF Int64
  <1>5. Storable(Rows(ok))
    BY <1>4, SubsetStorable
  <1>6. Respond(c, TRUE)
    BY DEF ActivateSpend
  <1> HIDE DEF Rows
  <1>7. TablesKept
    BY <1>1, <1>5, StoreKeepsTables
  <1> QED  BY <1>1, <1>6, <1>7, StatementFacts, RespondKeeps

-----------------------------------------------------------------------------
(* The reconciler and the crash.                                           *)

LEMMA DefineKeeps ==
    ASSUME InventoryInv, NEW k \in Item, DefineItem(k) \/ DropItem(k)
    PROVE  InventoryInv'
  <1>1. /\ UNCHANGED <<instances, items, powers, nextInst, nextRow, nextPower, faults, task>>
        /\ reply' = FALSE
    BY DEF DefineItem, DropItem
  <1>2. /\ catalog' \in [Item -> SUBSET Definition]
        /\ \A x \in Item : catalog'[x] \subseteq Declared[x]
    BY DEF InventoryInv, TypeOK, TablesFit, DefineItem, DropItem
  <1>3. TypeOK'
    BY <1>1, <1>2 DEF InventoryInv, TypeOK
  <1> QED  BY <1>1, <1>2, <1>3 DEF InventoryInv, TablesFit

LEMMA CrashKeeps ==
    ASSUME InventoryInv, Crash
    PROVE  InventoryInv'
  <1>1. /\ UNCHANGED <<instances, items, powers, catalog, nextInst, nextRow, nextPower, faults>>
        /\ task' = [c \in Client |-> Idle] /\ reply' = FALSE
    BY DEF Crash, tables
  <1>2. \A c \in Client : Idle \in Task /\ TaskFits(c, Idle, items, nextInst, nextRow)
    BY IdleFits DEF InventoryInv, TypeOK
  <1>3. TypeOK'
    BY <1>1, <1>2 DEF InventoryInv, TypeOK
  <1> QED  BY <1>1, <1>2, <1>3 DEF InventoryInv, TablesFit

-----------------------------------------------------------------------------
(* The theorems.                                                           *)

LEMMA InitEstablishes == Init => InventoryInv
  <1> SUFFICES ASSUME Init PROVE InventoryInv
    OBVIOUS
  <1>1. \A c \in Client : Idle \in Task /\ TaskFits(c, Idle, {}, 1, 1)
    BY IdleFits
  <1>2. TypeOK
    <2>1. task \in [Client -> Task]
      BY <1>1 DEF Init
    <2>2. catalog \in [Item -> SUBSET Definition]
      BY DEF Init
    <2>3. reply \in BOOLEAN
      BY Zenon DEF Init
    <2>4. /\ instances = {} /\ items = {} /\ powers = {}
          /\ nextInst = 1 /\ nextRow = 1 /\ nextPower = 1 /\ faults = 0
      BY Zenon DEF Init
    <2> QED  BY <2>1, <2>2, <2>3, <2>4 DEF TypeOK
  <1>3. TablesFit
    BY DEF Init, TablesFit, RowsFit, PowersFit
  <1> QED  BY <1>1, <1>2, <1>3 DEF Init, InventoryInv

LEMMA NextKeeps == InventoryInv /\ [Next]_vars => InventoryInv'
  <1> SUFFICES ASSUME InventoryInv, [Next]_vars PROVE InventoryInv'
    OBVIOUS
  <1>1. ASSUME NEW c \in Client, Receive(c) \/ Reject(c) PROVE InventoryInv'
    BY <1>1, ReceiveKeeps, RejectKeeps
  <1>2. ASSUME NEW c \in Client, Create(c) PROVE InventoryInv'
    BY <1>2, RejectKeeps, CreateInsertKeeps, CreateConflictKeeps, CreateKitKeeps,
       CreateReplyKeeps DEF Create
  <1>3. ASSUME NEW c \in Client, Delete(c) PROVE InventoryInv'
    BY <1>3, DeleteFindKeeps, DeletePurgeKeeps, DeleteRemoveKeeps DEF Delete
  <1>4. ASSUME NEW c \in Client, Lookup(c) PROVE InventoryInv'
    BY <1>4, FindAvatarKeeps, FindRowKeeps, FindItemKeeps DEF Lookup
  <1>5. ASSUME NEW c \in Client, Grant(c) PROVE InventoryInv'
    BY <1>5, GrantFindKeeps, GrantStackKeeps, GrantRowKeeps DEF Grant
  <1>6. ASSUME NEW c \in Client, Equip(c) \/ Unequip(c) PROVE InventoryInv'
    BY <1>6, MarkEquippedKeeps DEF Equip, Unequip
  <1>7. ASSUME NEW c \in Client, Activate(c) PROVE InventoryInv'
    BY <1>7, ActivatePowerKeeps, ActivateSpendKeeps DEF Activate
  <1>8. ASSUME NEW k \in Item, DefineItem(k) \/ DropItem(k) PROVE InventoryInv'
    BY <1>8, DefineKeeps
  <1>9. CASE Crash
    BY <1>9, CrashKeeps
  <1>10. CASE UNCHANGED vars
    BY <1>10 DEF vars, InventoryInv, TypeOK, TablesFit
  <1> QED  BY <1>1, <1>2, <1>3, <1>4, <1>5, <1>6, <1>7, <1>8, <1>9, <1>10 DEF Next, Step

\* avatar_instances grows by CreateAvatarInstance alone, one row at a time.
LEMMA InstancesChange ==
    ASSUME InventoryInv, [Next]_vars, instances' # instances
    PROVE  \/ instances' \subseteq instances
           \/ /\ items' = items /\ powers' = powers
              /\ \E a \in Avatar : instances' = instances \cup {NewInstance(a)}
  <1>1. PICK c \in Client : CreateInsert(c) \/ CreateConflict(c) \/ DeleteRemove(c)
    BY DEF Next, Step, Create, Delete, Lookup, Grant, Equip, Unequip, Activate, Receive, Reject,
           CreateRefused, CreateKit, CreateReply, DeleteFind, DeletePurge, FindAvatar, FindRow,
           FindItem, GrantFind, GrantStack, GrantRow, MarkEquipped, ActivatePower,
           ActivateSpend, AddRow, StoreItems, DefineItem, DropItem, Crash, tables, vars
  <1>2. CASE DeleteRemove(c)
    BY <1>2 DEF DeleteRemove, Remove
  <1>3. CASE CreateInsert(c) \/ CreateConflict(c)
    <2>1. task[c].req.a \in Avatar
      BY <1>3, TaskFacts DEF CreateInsert, CreateConflict, At
    <2> QED  BY <1>3, <2>1 DEF CreateInsert, CreateConflict, InsertInstance, tables
  <1> QED  BY <1>1, <1>2, <1>3

\* The invariant holds in every reachable state, for any number of clients,
\* avatars and items, any workload and any number of failed statements.
THEOREM InventoryInvariantHolds == Spec => []InventoryInv
  <1>1. Init => InventoryInv
    BY InitEstablishes
  <1>2. InventoryInv /\ [Next]_vars => InventoryInv'
    BY NextKeeps
  <1> QED  BY <1>1, <1>2, PTL DEF Spec

\* Type correctness: in particular no row is written for an avatar or an item
\* that was not found.
THEOREM InventoryTypeCorrect == Spec => []TypeOK
  <1>1. InventoryInv => TypeOK
    BY DEF InventoryInv
  <1> QED  BY <1>1, InventoryInvariantHolds, PTL

\* If creations bring legal stacks along and sums stay in int64, a limited
\* stack is never empty and never above a declared limit, however GrantItem
\* and ActivatePowerup overlap.
THEOREM StacksStayLegal == Spec => []StacksLegal
  <1>1. InventoryInv => StacksLegal
    BY DEF InventoryInv, TablesFit, RowsFit, Legal, StacksLegal
  <1> QED  BY <1>1, InventoryInvariantHolds, PTL

\* A row id that a handler has read never comes to name another row.
THEOREM ItemRowsKeepOwners == Spec => []HeldRowsStable
  <1>1. InventoryInv => HeldRowsStable
    BY DEF InventoryInv, TaskFits, IdsFit, HeldRowsStable
  <1> QED  BY <1>1, InventoryInvariantHolds, PTL

\* Nothing is equipped or activated that no declared version of it allows.
THEOREM UsesByTheCatalog == Spec => []ByTheCatalog
  <1>1. InventoryInv => ByTheCatalog
    BY DEF InventoryInv, TablesFit, RowsFit, PowersFit, Allows, Usable, ByTheCatalog
  <1> QED  BY <1>1, InventoryInvariantHolds, PTL

\* A new avatar instance finds neither items nor power-ups under its id.
THEOREM NewAvatarsStartEmpty == Spec => NewAvatarStartsEmpty
  <1>1. ASSUME InventoryInv, [Next]_vars
        PROVE  [\A i \in instances' \ instances :
                  /\ \A r \in items' : r.inst # i.id
                  /\ \A p \in powers' : p.inst # i.id]_vars
    <2>1. CASE UNCHANGED instances
      BY <2>1
    <2>2. CASE instances' # instances
      <3>1. \/ instances' \subseteq instances
            \/ /\ items' = items /\ powers' = powers
               /\ \E a \in Avatar : instances' = instances \cup {NewInstance(a)}
        BY <1>1, <2>2, InstancesChange
      <3>2. /\ \A r \in items : r.inst < nextInst /\ r.inst \in Int
            /\ \A p \in powers : p.inst < nextInst /\ p.inst \in Int
            /\ nextInst \in Int
        BY <1>1 DEF InventoryInv, TypeOK, TablesFit, RowsFit, PowersFit, ItemRow, PowerRow,
                    InstanceId
      <3> QED  BY <3>1, <3>2 DEF NewInstance
    <2> QED  BY <2>1, <2>2
  <1> QED  BY <1>1, InventoryInvariantHolds, PTL DEF Spec, NewAvatarStartsEmpty

-----------------------------------------------------------------------------
(* Handlers that never meet on an avatar.                                  *)

\* What a step of c leaves alone: rows of other avatars, their instances, and
\* the local variables of other handlers.
Footprint(c) ==
    /\ \A r \in ItemRow : r.inst # task[c].inst => (r \in items' <=> r \in items)
    /\ \A i \in instances : i.id # task[c].inst => i \in instances'
    /\ \A d \in Client \ {c} : task'[d] = task[d]
    /\ faults' = 0 => faults = 0

\* The avatar another client has found is not that of c.
LEMMA Apart ==
    ASSUME Exclusive, InventoryInv, StockInv, NEW c \in Client, NEW d \in Client, d # c,
           task[d].inst # 0
    PROVE  task[d].inst # task[c].inst
  <1> SUFFICES ASSUME task[d].inst = task[c].inst
               PROVE  FALSE
    OBVIOUS
  <1>1. /\ task[c].pc # "idle" /\ Exists(task[c].inst, task[c].req.a)
        /\ task[d].pc # "idle" /\ Exists(task[d].inst, task[d].req.a)
    BY DEF StockInv, StockFits, SnapshotFits
  <1>2. task[c].req \in Workload[c] /\ task[d].req \in Workload[d]
    BY <1>1, TaskFacts
  <1>3. \A i, j \in instances : i.id = j.id => i = j
    BY DEF StockInv, StocksSole
  <1>4. task[c].req.a = task[d].req.a
    BY <1>1, <1>3 DEF Exists
  <1> QED  BY <1>2, <1>4 DEF Exclusive

LEMMA OthersKeep ==
    ASSUME Exclusive, InventoryInv, InventoryInv', StockInv, NEW c \in Client, Footprint(c),
           NEW d \in Client, d # c
    PROVE  StockFits(task[d])'
  <1> PICK t : t = task[d]
    OBVIOUS
  <1>1. t = task'[d] /\ t \in Task /\ StockFits(t)
    BY TaskFacts DEF Footprint, StockInv
  <1>2. items \subseteq ItemRow /\ items' \subseteq ItemRow
    BY DEF InventoryInv, TypeOK
  <1>3. ASSUME NEW r \in ItemRow, r.inst = t.inst
        PROVE  r \in items' <=> r \in items
    <2>1. t.inst # 0
      BY <1>3 DEF ItemRow
    <2>2. t.inst # task[c].inst
      BY <2>1, Apart
    <2> QED  BY <1>3, <2>2 DEF Footprint
  <1>4. t.inst # 0 => t.pc # "idle" /\ Exists(t.inst, t.req.a)'
    <2> SUFFICES ASSUME t.inst # 0
                 PROVE  t.pc # "idle" /\ Exists(t.inst, t.req.a)'
      OBVIOUS
    <2>1. t.pc # "idle" /\ Exists(t.inst, t.req.a) /\ t.inst # task[c].inst
      BY <1>1, Apart DEF StockFits, SnapshotFits
    <2> QED  BY <2>1 DEF Exists, Footprint
  <1>5. t.row.id # 0 => \E r \in items' : r.id = t.row.id /\ r.qty = t.row.qty
    <2> SUFFICES ASSUME t.row.id # 0
                 PROVE  \E r \in items' : r.id = t.row.id /\ r.qty = t.row.qty
      OBVIOUS
    <2>1. PICK r \in items : r.id = t.row.id /\ r.qty = t.row.qty
      BY <1>1 DEF StockFits, SnapshotFits
    <2>2. r.inst = t.inst
      BY <2>1, TaskFacts DEF TaskFits, IdsFit
    <2> QED  BY <1>2, <1>3, <2>1, <2>2
  <1>6. SnapshotFits(t)'
    BY <1>1, <1>4, <1>5 DEF StockFits, SnapshotFits
  <1>7. ASSUME NEW k PROVE ItemRows(t.inst, k)' = ItemRows(t.inst, k)
    BY <1>2, <1>3 DEF ItemRows
  <1>8. InsertFits(t)'
    BY <1>1, <1>7 DEF StockFits, InsertFits, Footprint
  <1>9. StockFits(t)'
    BY <1>6, <1>8 DEF StockFits
  <1> QED  BY <1>1, <1>9 DEF StockFits, SnapshotFits, InsertFits

\* A step of c to the local variables t.
LEMMA StepTo ==
    ASSUME Exclusive, InventoryInv, InventoryInv', StockInv, NEW c \in Client, NEW t,
           task' = [task EXCEPT ![c] = t], Footprint(c), StocksSole', StockFits(t)'
    PROVE  StockInv'
  <1>1. task' [c] = t
    BY DEF InventoryInv, TypeOK
  <1>2. StockFits(task[c])'
    BY <1>1 DEF StockFits, SnapshotFits, InsertFits
  <1> QED  BY <1>2, OthersKeep DEF StockInv

LEMMA IdleStock == StockFits(Idle)'
  BY DEF StockFits, SnapshotFits, InsertFits, Idle, NoRow

LEMMA EndStock ==
    ASSUME Exclusive, InventoryInv, InventoryInv', StockInv, NEW c \in Client, NEW ok,
           Respond(c, ok), Footprint(c), StocksSole'
    PROVE  StockInv'
  <1>1. task' = [task EXCEPT ![c] = Idle]
    BY DEF Respond
  <1> QED  BY <1>1, IdleStock, StepTo

-----------------------------------------------------------------------------
(* Steps that leave the tables alone.                                      *)

Quiet == UNCHANGED <<instances, items>> /\ (faults' = 0 => faults = 0)

LEMMA QuietTables ==
    ASSUME StockInv, Quiet
    PROVE  StocksSole'
  BY DEF StockInv, StocksSole, Quiet

LEMMA QuietStep ==
    ASSUME Exclusive, InventoryInv, InventoryInv', StockInv, NEW c \in Client, NEW t,
           task' = [task EXCEPT ![c] = t], Quiet, StockFits(t)'
    PROVE  StockInv'
  <1>1. \A d \in Client \ {c} : task'[d] = task[d]
    BY DEF InventoryInv, TypeOK
  <1>2. Footprint(c)
    BY <1>1 DEF Footprint, Quiet
  <1> QED  BY <1>2, QuietTables, StepTo

LEMMA QuietEnd ==
    ASSUME Exclusive, InventoryInv, InventoryInv', StockInv, NEW c \in Client, NEW ok,
           Respond(c, ok), Quiet
    PROVE  StockInv'
  <1>1. task' = [task EXCEPT ![c] = Idle]
    BY DEF Respond
  <1> QED  BY <1>1, IdleStock, QuietStep

LEMMA QuietRefuse ==
    ASSUME Exclusive, InventoryInv, InventoryInv', StockInv, NEW c \in Client,
           Refuse(c), Quiet
    PROVE  StockInv'
  BY QuietEnd DEF Refuse

LEMMA StatementGrows ==
    ASSUME InventoryInv, NEW ok \in BOOLEAN, Statement(ok)
    PROVE  /\ faults' = 0 => faults = 0 /\ ok
           /\ ok => faults' = faults
  BY DEF Statement, InventoryInv, TypeOK

LEMMA StatementQuiet ==
    ASSUME InventoryInv, NEW ok \in BOOLEAN, Statement(ok), UNCHANGED tables
    PROVE  Quiet
  BY StatementGrows DEF Quiet, tables

\* A lookup by name finds an avatar of that name.
LEMMA NamedExists ==
    ASSUME InventoryInv, NEW a, NEW ok \in BOOLEAN, NEW id \in Named(a, ok), id # 0
    PROVE  Exists(id, a)
  <1>1. PICK i \in instances : i.id = id /\ i.name = a
    BY DEF Named, Answer, First, InstanceRows
  <1>2. i = [id |-> i.id, name |-> i.name]
    BY DEF InventoryInv, TypeOK, Instance
  <1> QED  BY <1>1, <1>2 DEF Exists

LEMMA ReceiveStock ==
    ASSUME Exclusive, InventoryInv, InventoryInv', StockInv, NEW c \in Client, Receive(c)
    PROVE  StockInv'
  <1>1. PICK r \in Workload[c] : Continue(c, [Idle EXCEPT !.pc = FirstStep(r), !.req = r])
    BY DEF Receive
  <1> PICK t : t = [Idle EXCEPT !.pc = FirstStep(r), !.req = r]
    OBVIOUS
  <1>2. task' = [task EXCEPT ![c] = t]
    BY <1>1 DEF Continue
  <1>3. t.pc \in {"insert", "target", "avatar"} /\ t.inst = 0 /\ t.row.id = 0
    BY DEF FirstStep, Idle, NoRow
  <1>4. StockFits(t)'
    BY <1>3 DEF StockFits, SnapshotFits, InsertFits
  <1>5. Quiet
    BY DEF Receive, Quiet, tables
  <1> QED  BY <1>2, <1>4, <1>5, QuietStep

LEMMA RejectStock ==
    ASSUME Exclusive, InventoryInv, InventoryInv', StockInv, NEW c \in Client,
           Reject(c) \/ CreateRefused(c)
    PROVE  StockInv'
  <1>1. Quiet /\ Refuse(c)
    BY DEF Reject, CreateRefused, Quiet, tables
  <1> QED  BY <1>1, QuietRefuse

LEMMA CreateReplyStock ==
    ASSUME Exclusive, InventoryInv, InventoryInv', StockInv, NEW c \in Client, CreateReply(c)
    PROVE  StockInv'
  <1>1. PICK ok \in BOOLEAN : Statement(ok) /\ Respond(c, ok)
    BY DEF CreateReply
  <1>2. Quiet
    BY <1>1, StatementQuiet DEF CreateReply
  <1> QED  BY <1>1, <1>2, QuietEnd

LEMMA DeleteFindStock ==
    ASSUME Exclusive, InventoryInv, InventoryInv', StockInv, NEW c \in Client, DeleteFind(c)
    PROVE  StockInv'
  <1>0. PICK ok \in BOOLEAN :
          /\ Statement(ok)
          /\ \E id \in Named(task[c].req.a, ok) :
               IF id = 0 THEN Refuse(c)
               ELSE Continue(c, [task[c] EXCEPT !.pc = "purge", !.inst = id])
    BY DEF DeleteFind
  <1>1. PICK id \in Named(task[c].req.a, ok) :
          IF id = 0 THEN Refuse(c)
          ELSE Continue(c, [task[c] EXCEPT !.pc = "purge", !.inst = id])
    BY <1>0
  <1>2. Quiet
    BY <1>0, StatementQuiet DEF DeleteFind
  <1>3. CASE id = 0
    BY <1>1, <1>2, <1>3, QuietRefuse
  <1>4. CASE id # 0
    <2> PICK t : t = [task[c] EXCEPT !.pc = "purge", !.inst = id]
      OBVIOUS
    <2>1. task[c] \in Task /\ SnapshotFits(task[c]) /\ task[c].pc = "target"
      BY TaskFacts DEF DeleteFind, At, StockInv, StockFits
    <2>2. t.pc = "purge" /\ t.inst = id /\ t.req = task[c].req /\ t.row = task[c].row
      BY <2>1 DEF Task
    <2>3. Exists(id, t.req.a)
      BY <1>4, <2>2, NamedExists
    <2>4. t.row.id # 0 => \E r \in items : r.id = t.row.id /\ r.qty = t.row.qty
      BY <2>1, <2>2 DEF SnapshotFits
    <2>5. StockFits(t)'
      BY <1>2, <1>4, <2>2, <2>3, <2>4
      DEF StockFits, SnapshotFits, InsertFits, Quiet, Exists
    <2>6. task' = [task EXCEPT ![c] = t]
      BY <1>1, <1>4 DEF Continue
    <2> QED  BY <1>2, <2>5, <2>6, QuietStep
  <1> QED  BY <1>3, <1>4

LEMMA FindAvatarStock ==
    ASSUME Exclusive, InventoryInv, InventoryInv', StockInv, NEW c \in Client, FindAvatar(c)
    PROVE  StockInv'
  <1> DEFINE pc == IF task[c].req.op = "grant" THEN "catalog" ELSE "row"
  <1>1. PICK ok \in BOOLEAN :
          /\ Statement(ok)
          /\ \E id \in Named(task[c].req.a, ok) :
               IF id = 0 THEN Refuse(c)
               ELSE Continue(c, [task[c] EXCEPT !.pc = pc, !.inst = id])
    BY DEF FindAvatar
  <1>2. PICK id \in Named(task[c].req.a, ok) :
          IF id = 0 THEN Refuse(c)
          ELSE Continue(c, [task[c] EXCEPT !.pc = pc, !.inst = id])
    BY <1>1
  <1>3. Quiet
    BY <1>1, StatementQuiet DEF FindAvatar
  <1>4. CASE id = 0
    BY <1>2, <1>3, <1>4, QuietRefuse
  <1>5. CASE id # 0
    <2> PICK t : t = [task[c] EXCEPT !.pc = pc, !.inst = id]
      OBVIOUS
    <2>1. task[c] \in Task /\ task[c].row.id = 0
      BY TaskFacts DEF FindAvatar, TaskFits, IdsFit
    <2>2. t.pc = pc /\ t.inst = id /\ t.req = task[c].req /\ t.row.id = 0
      BY <2>1 DEF Task
    <2>3. Exists(id, t.req.a)
      BY <1>5, <2>2, NamedExists
    <2>4. StockFits(t)'
      BY <1>3, <1>5, <2>2, <2>3 DEF StockFits, SnapshotFits, InsertFits, Quiet, Exists
    <2>5. task' = [task EXCEPT ![c] = t]
      BY <1>2, <1>5 DEF Continue
    <2> QED  BY <1>3, <2>4, <2>5, QuietStep
  <1> QED  BY <1>4, <1>5

\* What a lookup of a row yields is what the table says; and if there is at
\* most one such row, it finds none only if there is none.
LEMMA HeldCurrent ==
    ASSUME InventoryInv, StockInv, NEW i, NEW k, NEW ok \in BOOLEAN, Statement(ok),
           NEW held \in Held(i, k, ok), Quiet
    PROVE  /\ held.id # 0 => \E r \in items' : r.id = held.id /\ r.qty = held.qty
           /\ held.id = 0 /\ Sole(k) /\ faults' = 0 => ItemRows(i, k)' = {}
  <1>1. \A r \in items : r.id # 0 /\ r.id \in Int
    BY DEF InventoryInv, TypeOK, ItemRow, RowId
  <1>2. items' = items /\ ItemRows(i, k)' = ItemRows(i, k)
    BY DEF Quiet, ItemRows
  <1>3. held.id # 0 => \E r \in items' : r.id = held.id /\ r.qty = held.qty
    BY <1>2, HeldFacts DEF NoRow
  <1>4. ASSUME held.id = 0, Sole(k), faults' = 0
        PROVE  ItemRows(i, k) = {}
    <2>1. ok /\ faults = 0
      BY <1>4, StatementGrows
    <2>2. \A r, q \in ItemRows(i, k) : r = q
      BY <1>4, <2>1 DEF StockInv, StocksSole, ItemRows
    <2>3. First(ItemRows(i, k)) = ItemRows(i, k)
      BY <1>1, <2>2 DEF First, ItemRows
    <2>4. ASSUME ItemRows(i, k) # {} PROVE FALSE
      <3>1. PICK r \in ItemRows(i, k) : held = [id |-> r.id, qty |-> r.qty]
        BY <2>1, <2>3, <2>4 DEF Held, Answer
      <3> QED  BY <1>1, <1>4, <3>1 DEF ItemRows
    <2> QED  BY <2>4
  <1> QED  BY <1>2, <1>3, <1>4

LEMMA FindRowStock ==
    ASSUME Exclusive, InventoryInv, InventoryInv', StockInv, NEW c \in Client, FindRow(c)
    PROVE  StockInv'
  <1> DEFINE pc == IF task[c].req.op = "unequip" THEN "store" ELSE "catalog"
  <1>1. PICK ok \in BOOLEAN :
          /\ Statement(ok)
          /\ \E held \in Held(task[c].inst, task[c].req.k, ok) :
               IF held.id = 0 THEN Refuse(c)
               ELSE Continue(c, [task[c] EXCEPT !.pc = pc, !.row = held])
    BY DEF FindRow
  <1>2. PICK held \in Held(task[c].inst, task[c].req.k, ok) :
          IF held.id = 0 THEN Refuse(c)
          ELSE Continue(c, [task[c] EXCEPT !.pc = pc, !.row = held])
    BY <1>1
  <1>3. Quiet
    BY <1>1, StatementQuiet DEF FindRow
  <1>4. CASE held.id = 0
    BY <1>2, <1>3, <1>4, QuietRefuse
  <1>5. CASE held.id # 0
    <2> PICK t : t = [task[c] EXCEPT !.pc = pc, !.row = held]
      OBVIOUS
    <2>1. task[c] \in Task /\ task[c].pc = "row" /\ StockFits(task[c])
      BY TaskFacts DEF FindRow, StockInv
    <2>2. t.pc = pc /\ t.row = held /\ t.req = task[c].req /\ t.inst = task[c].inst
      BY <2>1 DEF Task
    <2>3. \E r \in items' : r.id = held.id /\ r.qty = held.qty
      BY <1>1, <1>3, <1>5, HeldCurrent
    <2>4. SnapshotFits(t)'
      BY <1>3, <2>1, <2>2, <2>3 DEF StockFits, SnapshotFits, Quiet, Exists
    <2>5. InsertFits(t)'
      BY <2>1, <2>2 DEF StockFits, InsertFits
    <2>6. StockFits(t)'
      BY <2>4, <2>5 DEF StockFits
    <2>7. task' = [task EXCEPT ![c] = t]
      BY <1>2, <1>5 DEF Continue
    <2> QED  BY <1>3, <2>6, <2>7, QuietStep
  <1> QED  BY <1>4, <1>5

LEMMA GrantFindStock ==
    ASSUME Exclusive, InventoryInv, InventoryInv', StockInv, NEW c \in Client, GrantFind(c)
    PROVE  StockInv'
  <1>1. PICK ok \in BOOLEAN :
          /\ Statement(ok)
          /\ \E held \in Held(task[c].inst, task[c].req.k, ok) :
               Continue(c, [task[c] EXCEPT !.pc = "store", !.row = held])
    BY DEF GrantFind
  <1>2. PICK held \in Held(task[c].inst, task[c].req.k, ok) :
          Continue(c, [task[c] EXCEPT !.pc = "store", !.row = held])
    BY <1>1
  <1>3. Quiet
    BY <1>1, StatementQuiet DEF GrantFind
  <1> PICK t : t = [task[c] EXCEPT !.pc = "store", !.row = held]
    OBVIOUS
  <1>4. task[c] \in Task /\ At(c, "grant", "stack") /\ StockFits(task[c])
    BY TaskFacts DEF GrantFind, StockInv
  <1>5. /\ t.pc = "store" /\ t.row = held /\ t.req = task[c].req /\ t.inst = task[c].inst
        /\ t.def = task[c].def
    BY <1>4 DEF Task
  <1>6. /\ held.id # 0 => \E r \in items' : r.id = held.id /\ r.qty = held.qty
        /\ held.id = 0 /\ Sole(t.req.k) /\ faults' = 0 => ItemRows(t.inst, t.req.k)' = {}
    <2>1. held \in Held(t.inst, t.req.k, ok)
      BY <1>2, <1>5
    <2> QED  BY <1>1, <1>3, <2>1, HeldCurrent
  <1>7. SnapshotFits(t)'
    BY <1>3, <1>4, <1>5, <1>6 DEF At, StockFits, SnapshotFits, Quiet, Exists
  <1>8. InsertFits(t)'
    BY <1>4, <1>5, <1>6 DEF At, StockFits, InsertFits
  <1>9. StockFits(t)'
    BY <1>7, <1>8 DEF StockFits
  <1>10. task' = [task EXCEPT ![c] = t]
    BY <1>2 DEF Continue
  <1> QED  BY <1>3, <1>9, <1>10, QuietStep

LEMMA FindItemStock ==
    ASSUME Exclusive, InventoryInv, InventoryInv', StockInv, NEW c \in Client, FindItem(c)
    PROVE  StockInv'
  <1> DEFINE usable == {d \in catalog[task[c].req.k] : Usable(task[c].req.op, d)}
             Found(d) == [task[c] EXCEPT !.pc = AfterCatalog(task[c].req.op, d), !.def = d]
  <1>1. PICK ok \in BOOLEAN :
          /\ Statement(ok)
          /\ IF ok /\ usable # {} THEN \E d \in usable : Continue(c, Found(d)) ELSE Refuse(c)
    BY DEF FindItem
  <1>2. Quiet
    BY <1>1, StatementQuiet DEF FindItem
  <1>3. CASE ~(ok /\ usable # {})
    BY <1>1, <1>2, <1>3, QuietRefuse
  <1>4. CASE ok /\ usable # {}
    <2>1. PICK d \in usable : Continue(c, Found(d))
      BY <1>1, <1>4
    <2> PICK t : t = Found(d)
      OBVIOUS
    <2>2. task[c] \in Task /\ task[c].pc = "catalog" /\ StockFits(task[c])
      BY TaskFacts DEF FindItem, StockInv
    <2>3. /\ t.pc = AfterCatalog(t.req.op, d) /\ t.def = d /\ t.req = task[c].req
          /\ t.inst = task[c].inst /\ t.row = task[c].row
      BY <2>2 DEF Task
    <2>4. t.req.k \in Item /\ d \in Declared[t.req.k]
      BY <2>2, <2>3, TaskFacts DEF InventoryInv, TablesFit
    <2>5. /\ t.pc \in {"power", "stack", "store"}
          /\ t.pc = "stack" => d.stackable
          /\ t.req.op = "grant" /\ t.pc = "store" => ~d.stackable
      BY <2>3 DEF AfterCatalog
    <2>6. SnapshotFits(t)'
      BY <1>2, <2>2, <2>3, <2>5 DEF StockFits, SnapshotFits, Quiet, Exists
    <2>7. InsertFits(t)'
      <3>1. t.req.op = "grant" => t.row.id = 0
        BY <2>2, <2>3 DEF StockFits, InsertFits
      <3>2. t.req.op = "grant" /\ t.pc = "store" => ~Sole(t.req.k)
        BY <2>4, <2>5 DEF Sole, Stacked
      <3> QED  BY <2>3, <2>5, <3>1, <3>2 DEF InsertFits
    <2>8. StockFits(t)'
      BY <2>6, <2>7 DEF StockFits
    <2>9. task' = [task EXCEPT ![c] = t]
      BY <2>1 DEF Continue
    <2> QED  BY <1>2, <2>8, <2>9, QuietStep
  <1> QED  BY <1>3, <1>4

LEMMA ActivatePowerStock ==
    ASSUME Exclusive, InventoryInv, InventoryInv', StockInv, NEW c \in Client, ActivatePower(c)
    PROVE  StockInv'
  <1>1. PICK ok \in BOOLEAN :
          /\ Statement(ok)
          /\ IF ok THEN Continue(c, [task[c] EXCEPT !.pc = "spend"]) ELSE Refuse(c)
    BY DEF ActivatePower
  <1>2. Quiet
    BY <1>1, StatementGrows DEF ActivatePower, Quiet
  <1>3. CASE ~ok
    BY <1>1, <1>2, <1>3, QuietRefuse
  <1>4. CASE ok
    <2> PICK t : t = [task[c] EXCEPT !.pc = "spend"]
      OBVIOUS
    <2>1. task[c] \in Task /\ At(c, "activate", "power") /\ StockFits(task[c])
      BY TaskFacts DEF ActivatePower, StockInv
    <2>2. t.pc = "spend" /\ t.req = task[c].req /\ t.inst = task[c].inst /\ t.row = task[c].row
      BY <2>1 DEF Task
    <2>3. StockFits(t)'
      BY <1>2, <2>1, <2>2 DEF At, StockFits, SnapshotFits, InsertFits, Quiet, Exists
    <2>4. task' = [task EXCEPT ![c] = t]
      BY <1>1, <1>4 DEF Continue
    <2> QED  BY <1>2, <2>3, <2>4, QuietStep
  <1> QED  BY <1>3, <1>4

-----------------------------------------------------------------------------
(* Steps that change the tables.                                           *)

LEMMA InsertInstanceStock ==
    ASSUME Exclusive, InventoryInv, InventoryInv', StockInv, NEW c \in Client,
           InsertInstance(task[c].req.a),
           \A d \in Client \ {c} : task'[d] = task[d], faults' = 0 => faults = 0,
           NEW n, n = nextInst, NEW a, a = task[c].req.a
    PROVE  /\ StocksSole' /\ Footprint(c)
           /\ Exists(n, a)' /\ \A k : ItemRows(n, k)' = {}
  <1>1. /\ instances' = instances \cup {[id |-> nextInst, name |-> task[c].req.a]}
        /\ items' = items /\ InstanceRows(task[c].req.a) = {}
    BY DEF InsertInstance, NewInstance
  <1>2. Footprint(c)
    BY <1>1 DEF Footprint
  <1>3. /\ \A i \in instances : i.id # nextInst /\ i.name # task[c].req.a
        /\ \A r \in items : r.inst # nextInst
    BY <1>1 DEF InventoryInv, TypeOK, TablesFit, RowsFit, Instance, ItemRow, InstanceId,
                InstanceRows
  <1>4. \A i, j \in instances' : i.id = j.id \/ i.name = j.name => i = j
    <2>1. \A i, j \in instances : i.id = j.id \/ i.name = j.name => i = j
      BY DEF StockInv, StocksSole
    <2> QED  BY <1>1, <1>3, <2>1
  <1>5. StocksSole'
    BY <1>1, <1>4 DEF StockInv, StocksSole
  <1>6. \A k : ItemRows(n, k)' = {}
    BY <1>1, <1>3 DEF ItemRows
  <1>7. Exists(n, a)'
    BY <1>1 DEF Exists
  <1> QED  BY <1>2, <1>5, <1>6, <1>7

LEMMA CreateInsertStock ==
    ASSUME Exclusive, InventoryInv, InventoryInv', StockInv, NEW c \in Client, CreateInsert(c)
    PROVE  StockInv'
  <1> DEFINE u == [task[c] EXCEPT !.pc = "kit", !.inst = nextInst, !.todo = task[c].req.kit]
  <1>1. At(c, "create", "insert") /\ InsertInstance(task[c].req.a) /\ faults' = faults
    BY DEF CreateInsert
  <1>2. task' = [task EXCEPT ![c] = u]
    BY DEF CreateInsert, Continue
  <1>3. \A d \in Client \ {c} : task'[d] = task[d]
    BY <1>2 DEF InventoryInv, TypeOK
  <1> PICK a, n, t : a = task[c].req.a /\ n = nextInst /\ t = u
    OBVIOUS
  <1>4. /\ StocksSole' /\ Footprint(c)
        /\ Exists(n, a)' /\ \A k : ItemRows(n, k)' = {}
    BY <1>1, <1>3, InsertInstanceStock
  <1>5. task[c] \in Task /\ task[c].row.id = 0
    BY <1>1, TaskFacts DEF At, TaskFits, IdsFit
  <1>6. t.pc = "kit" /\ t.inst = n /\ t.req.a = a /\ t.row.id = 0
    BY <1>5 DEF Task
  <1>7. StockFits(t)'
    BY <1>4, <1>6 DEF StockFits, SnapshotFits, InsertFits
  <1> QED  BY <1>2, <1>4, <1>7, StepTo

LEMMA CreateConflictStock ==
    ASSUME Exclusive, InventoryInv, InventoryInv', StockInv, NEW c \in Client,
           CreateConflict(c)
    PROVE  StockInv'
  <1>1. Refuse(c) /\ (faults' = 0 => faults = 0)
    BY StatementGrows DEF CreateConflict
  <1>2. CASE UNCHANGED tables
    BY <1>1, <1>2, QuietRefuse DEF Quiet, tables
  <1>3. CASE InsertInstance(task[c].req.a)
    <2>1. \A d \in Client \ {c} : task'[d] = task[d]
      BY <1>1 DEF Refuse, Respond, InventoryInv, TypeOK
    <2>2. StocksSole' /\ Footprint(c)
      BY <1>1, <1>3, <2>1, InsertInstanceStock
    <2> QED  BY <1>1, <2>2, EndStock DEF Refuse
  <1> QED  BY <1>2, <1>3 DEF CreateConflict

\* Rows of c's avatar may be added where there are none of their kind.
LEMMA RowAdded ==
    ASSUME Exclusive, InventoryInv, InventoryInv', StockInv, NEW c \in Client,
           NEW s, s.inst = task[c].inst, items' = items \cup {s}, instances' = instances,
           faults' = 0 => faults = 0, \A d \in Client \ {c} : task'[d] = task[d],
           Loose(s.item) => s.qty >= 1,
           Sole(s.item) /\ faults' = 0 => ItemRows(s.inst, s.item) = {}
    PROVE  StocksSole' /\ Footprint(c)
  <1>1. Footprint(c)
    BY DEF Footprint
  <1>2. ASSUME NEW r \in items', NEW q \in items',
               faults' = 0, Sole(r.item), r.inst = q.inst, r.item = q.item
        PROVE  r = q
    BY <1>2 DEF StockInv, StocksSole, ItemRows
  <1>3. \A r \in items' : Loose(r.item) => r.qty >= 1
    BY DEF StockInv, StocksSole
  <1> QED  BY <1>1, <1>2, <1>3 DEF StockInv, StocksSole

LEMMA CreateKitStock ==
    ASSUME Exclusive, InventoryInv, InventoryInv', StockInv, NEW c \in Client, CreateKit(c)
    PROVE  StockInv'
  <1>1. PICK e \in task[c].todo, ok \in BOOLEAN :
          /\ Statement(ok)
          /\ AddRow(ok, task[c].inst, e.k, e.n)
          /\ IF ok THEN Continue(c, [task[c] EXCEPT !.todo = @ \ {e}]) ELSE Refuse(c)
    BY DEF CreateKit
  <1>2. /\ task[c].pc = "kit" /\ task[c] \in Task /\ StockFits(task[c])
        /\ task[c].req \in Workload[c] /\ task[c].todo \subseteq task[c].req.kit
    BY TaskFacts DEF CreateKit, At, StockInv, TaskFits, RequestFits
  <1>3. (faults' = 0 => faults = 0) /\ instances' = instances
    BY <1>1, StatementGrows DEF AddRow
  <1>4. CASE ~ok
    <2>1. Quiet
      BY <1>1, <1>3, <1>4 DEF AddRow, Quiet
    <2> QED  BY <1>1, <1>4, <2>1, QuietRefuse
  <1>5. CASE ok
    <2> PICK s : s = NewRow(task[c].inst, e.k, e.n)
      OBVIOUS
    <2>1. items' = items \cup {s}
      BY <1>1, <1>5 DEF AddRow
    <2>2. s.inst = task[c].inst /\ s.item = e.k /\ s.qty = e.n
      BY DEF NewRow
    <2> PICK t : t = [task[c] EXCEPT !.todo = @ \ {e}]
      OBVIOUS
    <2>3. task' = [task EXCEPT ![c] = t]
      BY <1>1, <1>5 DEF Continue
    <2>4. \A d \in Client \ {c} : task'[d] = task[d]
      BY <2>3 DEF InventoryInv, TypeOK
    <2>5. Loose(e.k) => e.n >= 1
      BY <1>2 DEF Loose
    <2>6. OneKit(e.k) => ItemRows(task[c].inst, e.k) = {}
      BY <1>2 DEF StockFits, InsertFits
    <2>7. Sole(e.k) => OneKit(e.k)
      BY DEF Sole
    <2>8. StocksSole' /\ Footprint(c)
      BY <1>3, <2>1, <2>2, <2>4, <2>5, <2>6, <2>7, RowAdded
    <2>9. /\ t.pc = "kit" /\ t.inst = task[c].inst /\ t.req = task[c].req
          /\ t.row = task[c].row /\ t.todo = task[c].todo \ {e}
      BY <1>2 DEF Task
    <2>10. SnapshotFits(t)'
      BY <1>2, <1>3, <2>1, <2>9 DEF StockFits, SnapshotFits, Exists
    <2>11. ASSUME NEW f \in t.todo, OneKit(f.k)
           PROVE  ItemRows(t.inst, f.k)' = {}
      <3>1. f.k # e.k
        BY <1>2, <2>9, <2>11 DEF OneKit
      <3>2. ItemRows(t.inst, f.k) = {}
        BY <1>2, <2>9, <2>11 DEF StockFits, InsertFits
      <3> QED  BY <2>1, <2>2, <3>1, <3>2 DEF ItemRows
    <2>12. StockFits(t)'
      BY <2>9, <2>10, <2>11 DEF StockFits, InsertFits
    <2> QED  BY <2>3, <2>8, <2>12, StepTo
  <1> QED  BY <1>4, <1>5

LEMMA GrantRowStock ==
    ASSUME Exclusive, InventoryInv, InventoryInv', StockInv, NEW c \in Client, GrantRow(c)
    PROVE  StockInv'
  <1>1. PICK ok \in BOOLEAN :
          /\ Statement(ok)
          /\ AddRow(ok, task[c].inst, task[c].req.k, Capped(task[c].def, 0, task[c].req.n))
          /\ Respond(c, ok)
    BY DEF GrantRow
  <1>2. (faults' = 0 => faults = 0) /\ instances' = instances
    BY <1>1, StatementGrows DEF AddRow
  <1>3. CASE ~ok
    <2>1. Quiet
      BY <1>1, <1>2, <1>3 DEF AddRow, Quiet
    <2> QED  BY <1>1, <2>1, QuietEnd
  <1>4. CASE ok
    <2>1. At(c, "grant", "store") /\ task[c].row.id = 0
      BY DEF GrantRow
    <2>2. /\ StockFits(task[c]) /\ task[c].req.n > 0 /\ task[c].req.n \in Int64
          /\ task[c].def \in Declared[task[c].req.k]
      BY <2>1, WriteFacts DEF StockInv, At, WellFormed
    <2> PICK s : s = NewRow(task[c].inst, task[c].req.k,
                            Capped(task[c].def, 0, task[c].req.n))
      OBVIOUS
    <2>3. items' = items \cup {s}
      BY <1>1, <1>4 DEF AddRow
    <2>4. /\ s.inst = task[c].inst /\ s.item = task[c].req.k
          /\ s.qty = Capped(task[c].def, 0, task[c].req.n)
      BY DEF NewRow
    <2>5. Loose(s.item) => s.qty >= 1
      <3> PICK n : n = task[c].req.n
        OBVIOUS
      <3>1. Plus(0, n) = n
        BY <2>2, PlusFacts DEF Int64
      <3>2. Loose(s.item) => s.qty = Plus(0, n)
        BY <2>2, <2>4 DEF Loose, Capped
      <3> QED  BY <2>2, <3>1, <3>2 DEF Int64
    <2>6. Sole(s.item) /\ faults' = 0 => ItemRows(s.inst, s.item) = {}
      BY <1>2, <2>1, <2>2, <2>4 DEF At, StockFits, InsertFits
    <2>7. \A d \in Client \ {c} : task'[d] = task[d]
      BY <1>1 DEF Respond, InventoryInv, TypeOK
    <2>8. StocksSole' /\ Footprint(c)
      BY <1>2, <2>3, <2>4, <2>5, <2>6, <2>7, RowAdded
    <2> QED  BY <1>1, <2>8, EndStock
  <1> QED  BY <1>3, <1>4

\* The row a handler is about to write is there, with the quantity it has read.
LEMMA HeldRow ==
    ASSUME InventoryInv, StockInv, NEW c \in Client, task[c].row.id # 0
    PROVE  \E r \in items : /\ r.id = task[c].row.id /\ r.qty = task[c].row.qty
                            /\ r.inst = task[c].inst /\ r.item = task[c].req.k
  <1>1. PICK r \in items : r.id = task[c].row.id /\ r.qty = task[c].row.qty
    BY DEF StockInv, StockFits, SnapshotFits
  <1>2. r.inst = task[c].inst /\ r.item = task[c].req.k
    BY <1>1, TaskFacts DEF TaskFits, IdsFit
  <1> QED  BY <1>1, <1>2

\* The statements that write by primary key, as changes of one row.
LEMMA OneRowWritten ==
    ASSUME InventoryInv, NEW r \in items
    PROVE  /\ \A n : SetQuantity(items, r.id, n) = (items \ {r}) \cup {[r EXCEPT !.qty = n]}
           /\ \A on : SetEquipped(items, r.id, on)
                      = (items \ {r}) \cup {[r EXCEPT !.equipped = on]}
           /\ Remove(items, r.id) = items \ {r}
  <1>1. \A q \in items : q.id = r.id <=> q = r
    BY DEF InventoryInv, TablesFit, RowsFit
  <1> QED  BY <1>1 DEF SetQuantity, SetEquipped, Remove

\* The row s takes the place of r.
Replaced(r, s) ==
    /\ items' = (items \ {r}) \cup {s}
    /\ s.id = r.id /\ s.inst = r.inst /\ s.item = r.item

LEMMA RowReplaced ==
    ASSUME Exclusive, InventoryInv, InventoryInv', StockInv, NEW c \in Client,
           NEW r \in items, r.inst = task[c].inst, NEW s, Replaced(r, s),
           Loose(s.item) => s.qty >= 1,
           instances' = instances, faults' = 0 => faults = 0,
           \A d \in Client \ {c} : task'[d] = task[d]
    PROVE  StocksSole' /\ Footprint(c)
  <1>1. Footprint(c)
    BY DEF Footprint, Replaced
  <1>2. \A q \in items' : \E p \in items : /\ p.id = q.id /\ p.inst = q.inst /\ p.item = q.item
                                           /\ q = p \/ (p = r /\ q = s)
    BY DEF Replaced
  <1>3. ASSUME NEW x \in items', NEW y \in items',
               faults' = 0, Sole(x.item), x.inst = y.inst, x.item = y.item
        PROVE  x = y
    <2>1. PICK p \in items : /\ p.id = x.id /\ p.inst = x.inst /\ p.item = x.item
      BY <1>2
    <2>2. PICK q \in items : /\ q.id = y.id /\ q.inst = y.inst /\ q.item = y.item
      BY <1>2
    <2>3. p = q
      BY <1>3, <2>1, <2>2 DEF StockInv, StocksSole
    <2> QED  BY <2>1, <2>2, <2>3 DEF InventoryInv, TablesFit, RowsFit
  <1>4. \A q \in items' : Loose(q.item) => q.qty >= 1
    BY DEF Replaced, StockInv, StocksSole
  <1> QED  BY <1>1, <1>3, <1>4 DEF StockInv, StocksSole

\* Rows of c's avatar may go.
LEMMA RowsGone ==
    ASSUME Exclusive, InventoryInv, InventoryInv', StockInv, NEW c \in Client,
           items' \subseteq items, \A r \in items : r.inst # task[c].inst => r \in items',
           instances' = instances, faults' = 0 => faults = 0,
           \A d \in Client \ {c} : task'[d] = task[d]
    PROVE  StocksSole' /\ Footprint(c)
  BY DEF Footprint, StockInv, StocksSole

LEMMA GrantStackStock ==
    ASSUME Exclusive, InventoryInv, InventoryInv', StockInv, NEW c \in Client, GrantStack(c)
    PROVE  StockInv'
  <1> DEFINE n == Capped(task[c].def, task[c].row.qty, task[c].req.n)
  <1>1. PICK ok \in BOOLEAN :
          /\ Statement(ok)
          /\ StoreItems(IF ok THEN SetQuantity(items, task[c].row.id, n) ELSE items)
    BY DEF GrantStack
  <1>2. Respond(c, TRUE) /\ At(c, "grant", "store") /\ task[c].row.id # 0
    BY DEF GrantStack
  <1>3. (faults' = 0 => faults = 0) /\ instances' = instances
    BY <1>1, StatementGrows DEF StoreItems
  <1>4. CASE ~ok
    <2>1. Quiet
      BY <1>1, <1>3, <1>4 DEF StoreItems, Quiet
    <2> QED  BY <1>2, <2>1, QuietEnd
  <1>5. CASE ok
    <2>1. PICK r \in items : /\ r.id = task[c].row.id
                             /\ r.inst = task[c].inst /\ r.item = task[c].req.k
      BY <1>2, HeldRow
    <2> PICK s : s = [r EXCEPT !.qty = n]
      OBVIOUS
    <2>2. Replaced(r, s)
      <3>1. items' = (items \ {r}) \cup {s}
        BY <1>1, <1>5, <2>1, OneRowWritten DEF StoreItems
      <3>2. s.id = r.id /\ s.inst = r.inst /\ s.item = r.item
        BY DEF InventoryInv, TypeOK, ItemRow
      <3> QED  BY <3>1, <3>2 DEF Replaced
    <2>3. ~Loose(s.item)
      <3>1. task[c].def.stackable /\ task[c].def \in Declared[task[c].req.k]
        BY <1>2, WriteFacts DEF At, StockInv, StockFits, InsertFits
      <3> QED  BY <2>1, <2>2, <3>1 DEF Loose, Replaced
    <2>4. \A d \in Client \ {c} : task'[d] = task[d]
      BY <1>2 DEF Respond, InventoryInv, TypeOK
    <2>5. StocksSole' /\ Footprint(c)
      BY <1>3, <2>1, <2>2, <2>3, <2>4, RowReplaced
    <2> QED  BY <1>2, <2>5, EndStock
  <1> QED  BY <1>4, <1>5

LEMMA MarkEquippedStock ==
    ASSUME Exclusive, InventoryInv, InventoryInv', StockInv, NEW c \in Client,
           NEW op \in {"equip", "unequip"}, MarkEquipped(c, op)
    PROVE  StockInv'
  <1>1. PICK ok \in BOOLEAN :
          /\ Statement(ok)
          /\ StoreItems(IF ok THEN SetEquipped(items, task[c].row.id, op = "equip") ELSE items)
    BY DEF MarkEquipped
  <1>2. Respond(c, TRUE) /\ At(c, op, "store") /\ task[c].row.id # 0
    BY TaskFacts DEF MarkEquipped, At, TaskFits, FoundFits
  <1>3. (faults' = 0 => faults = 0) /\ instances' = instances
    BY <1>1, StatementGrows DEF StoreItems
  <1>4. CASE ~ok
    <2>1. Quiet
      BY <1>1, <1>3, <1>4 DEF StoreItems, Quiet
    <2> QED  BY <1>2, <2>1, QuietEnd
  <1>5. CASE ok
    <2>1. PICK r \in items : /\ r.id = task[c].row.id /\ r.inst = task[c].inst
      BY <1>2, HeldRow
    <2> PICK s : s = [r EXCEPT !.equipped = (op = "equip")]
      OBVIOUS
    <2>2. items' = (items \ {r}) \cup {s}
      BY <1>1, <1>5, <2>1, OneRowWritten DEF StoreItems
    <2>3. s.id = r.id /\ s.inst = r.inst /\ s.item = r.item /\ s.qty = r.qty
      BY DEF InventoryInv, TypeOK, ItemRow
    <2>4. Loose(s.item) => s.qty >= 1
      BY <2>3 DEF StockInv, StocksSole
    <2>5. \A d \in Client \ {c} : task'[d] = task[d]
      BY <1>2 DEF Respond, InventoryInv, TypeOK
    <2>6. StocksSole' /\ Footprint(c)
      BY <1>3, <2>1, <2>2, <2>3, <2>4, <2>5, RowReplaced DEF Replaced
    <2> QED  BY <1>2, <2>6, EndStock
  <1> QED  BY <1>4, <1>5

\* An activation takes the row away or one item from it.
LEMMA SpentFacts ==
    ASSUME InventoryInv, NEW r \in items, NEW row, row.id = r.id, row.qty = r.qty
    PROVE  Spent(row) = IF r.qty <= 1 THEN items \ {r}
                        ELSE (items \ {r}) \cup {[r EXCEPT !.qty = r.qty - 1]}
  BY OneRowWritten DEF Spent

LEMMA ActivateSpendStock ==
    ASSUME Exclusive, InventoryInv, InventoryInv', StockInv, NEW c \in Client, ActivateSpend(c)
    PROVE  StockInv'
  <1>1. PICK ok \in BOOLEAN :
          Statement(ok) /\ StoreItems(IF ok THEN Spent(task[c].row) ELSE items)
    BY DEF ActivateSpend
  <1>2. Respond(c, TRUE) /\ task[c].row.id # 0
    BY TaskFacts DEF ActivateSpend, At, TaskFits, FoundFits
  <1>3. (faults' = 0 => faults = 0) /\ instances' = instances
    BY <1>1, StatementGrows DEF StoreItems
  <1>4. \A d \in Client \ {c} : task'[d] = task[d]
    BY <1>2 DEF Respond, InventoryInv, TypeOK
  <1>5. CASE ~ok
    <2>1. Quiet
      BY <1>1, <1>3, <1>5 DEF StoreItems, Quiet
    <2> QED  BY <1>2, <2>1, QuietEnd
  <1>6. CASE ok
    <2>1. PICK r \in items : /\ r.id = task[c].row.id /\ r.qty = task[c].row.qty
                             /\ r.inst = task[c].inst
      BY <1>2, HeldRow
    <2>2. items' = IF r.qty <= 1 THEN items \ {r}
                   ELSE (items \ {r}) \cup {[r EXCEPT !.qty = r.qty - 1]}
      BY <1>1, <1>6, <2>1, SpentFacts DEF StoreItems
    <2>3. CASE r.qty <= 1
      <3>1. StocksSole' /\ Footprint(c)
        BY <1>3, <1>4, <2>1, <2>2, <2>3, RowsGone
      <3> QED  BY <1>2, <3>1, EndStock
    <2>4. CASE ~(r.qty <= 1)
      <3> PICK s : s = [r EXCEPT !.qty = r.qty - 1]
        OBVIOUS
      <3>1. /\ s.id = r.id /\ s.inst = r.inst /\ s.item = r.item /\ s.qty = r.qty - 1
            /\ r.qty \in Int
        BY DEF InventoryInv, TypeOK, ItemRow, Int64
      <3>2. Replaced(r, s) /\ s.qty >= 1
        BY <2>2, <2>4, <3>1 DEF Replaced
      <3>3. StocksSole' /\ Footprint(c)
        BY <1>3, <1>4, <2>1, <3>2, RowReplaced
      <3> QED  BY <1>2, <3>3, EndStock
    <2> QED  BY <2>3, <2>4
  <1> QED  BY <1>5, <1>6

LEMMA DeletePurgeStock ==
    ASSUME Exclusive, InventoryInv, InventoryInv', StockInv, NEW c \in Client, DeletePurge(c)
    PROVE  StockInv'
  <1>1. PICK ok \in BOOLEAN :
          Statement(ok) /\ StoreItems(IF ok THEN Purged(task[c].inst) ELSE items)
    BY DEF DeletePurge
  <1>2. (faults' = 0 => faults = 0) /\ instances' = instances
    BY <1>1, StatementGrows DEF StoreItems
  <1> PICK t : t = [task[c] EXCEPT !.pc = "remove"]
    OBVIOUS
  <1>3. task' = [task EXCEPT ![c] = t]
    BY DEF DeletePurge, Continue
  <1>4. \A d \in Client \ {c} : task'[d] = task[d]
    BY <1>3 DEF InventoryInv, TypeOK
  <1>5. StocksSole' /\ Footprint(c)
    <2>1. items' = items \/ items' = Purged(task[c].inst)
      BY <1>1 DEF StoreItems
    <2>2. items' \subseteq items /\ \A r \in items : r.inst # task[c].inst => r \in items'
      BY <2>1 DEF Purged
    <2> QED  BY <1>2, <1>4, <2>2, RowsGone
  <1>6. /\ task[c] \in Task /\ task[c].pc = "purge" /\ StockFits(task[c])
        /\ task[c].row.id = 0
    BY TaskFacts DEF DeletePurge, At, StockInv, TaskFits, IdsFit
  <1>7. t.pc = "remove" /\ t.req = task[c].req /\ t.inst = task[c].inst /\ t.row.id = 0
    BY <1>6 DEF Task
  <1>8. StockFits(t)'
    BY <1>2, <1>6, <1>7 DEF StockFits, SnapshotFits, InsertFits, Exists
  <1> QED  BY <1>3, <1>5, <1>8, StepTo

LEMMA DeleteRemoveStock ==
    ASSUME Exclusive, InventoryInv, InventoryInv', StockInv, NEW c \in Client, DeleteRemove(c)
    PROVE  StockInv'
  <1>1. PICK ok \in BOOLEAN :
          /\ Statement(ok)
          /\ instances' = IF ok THEN Remove(instances, task[c].inst) ELSE instances
    BY DEF DeleteRemove
  <1>2. Respond(c, TRUE) /\ items' = items /\ (faults' = 0 => faults = 0)
    BY <1>1, StatementGrows DEF DeleteRemove
  <1>3. instances' \subseteq instances /\ \A i \in instances : i.id # task[c].inst => i \in instances'
    BY <1>1 DEF Remove
  <1>4. \A d \in Client \ {c} : task'[d] = task[d]
    BY <1>2 DEF Respond, InventoryInv, TypeOK
  <1>5. StocksSole' /\ Footprint(c)
    BY <1>2, <1>3, <1>4 DEF Footprint, StockInv, StocksSole
  <1> QED  BY <1>2, <1>5, EndStock

LEMMA DefineStock ==
    ASSUME StockInv, NEW k \in Item, DefineItem(k) \/ DropItem(k)
    PROVE  StockInv'
  BY DEF DefineItem, DropItem, StockInv, StocksSole, StockFits, SnapshotFits, InsertFits, Exists,
         ItemRows

LEMMA CrashStock ==
    ASSUME StockInv, Crash
    PROVE  StockInv'
  <1>1. UNCHANGED <<instances, items, faults>> /\ task' = [c \in Client |-> Idle]
    BY DEF Crash, tables
  <1>2. StocksSole'
    BY <1>1 DEF StockInv, StocksSole
  <1>3. ASSUME NEW c \in Client PROVE StockFits(task[c])'
    BY <1>1, IdleStock DEF StockFits, SnapshotFits, InsertFits
  <1> QED  BY <1>2, <1>3 DEF StockInv

LEMMA InitStock == Init => StockInv
  <1> SUFFICES ASSUME Init PROVE StockInv
    OBVIOUS
  <1>1. instances = {} /\ items = {} /\ \A c \in Client : task[c] = Idle
    BY DEF Init
  <1>2. \A c \in Client : StockFits(task[c])
    BY <1>1 DEF StockFits, SnapshotFits, InsertFits, Idle, NoRow
  <1> QED  BY <1>1, <1>2 DEF StockInv, StocksSole

LEMMA NextStock ==
    ASSUME Exclusive, InventoryInv, InventoryInv', StockInv, [Next]_vars
    PROVE  StockInv'
  <1>1. ASSUME NEW c \in Client, Receive(c) \/ Reject(c) PROVE StockInv'
    BY <1>1, ReceiveStock, RejectStock
  <1>2. ASSUME NEW c \in Client, Create(c) PROVE StockInv'
    BY <1>2, RejectStock, CreateInsertStock, CreateConflictStock, CreateKitStock,
       CreateReplyStock DEF Create
  <1>3. ASSUME NEW c \in Client, Delete(c) PROVE StockInv'
    BY <1>3, DeleteFindStock, DeletePurgeStock, DeleteRemoveStock DEF Delete
  <1>4. ASSUME NEW c \in Client, Lookup(c) PROVE StockInv'
    BY <1>4, FindAvatarStock, FindRowStock, FindItemStock DEF Lookup
  <1>5. ASSUME NEW c \in Client, Grant(c) PROVE StockInv'
    BY <1>5, GrantFindStock, GrantStackStock, GrantRowStock DEF Grant
  <1>6. ASSUME NEW c \in Client, Equip(c) \/ Unequip(c) PROVE StockInv'
    BY <1>6, MarkEquippedStock DEF Equip, Unequip
  <1>7. ASSUME NEW c \in Client, Activate(c) PROVE StockInv'
    BY <1>7, ActivatePowerStock, ActivateSpendStock DEF Activate
  <1>8. ASSUME NEW k \in Item, DefineItem(k) \/ DropItem(k) PROVE StockInv'
    BY <1>8, DefineStock
  <1>9. CASE Crash
    BY <1>9, CrashStock
  <1>10. CASE UNCHANGED vars
    BY <1>10 DEF vars, StockInv, StocksSole, StockFits, SnapshotFits, InsertFits, Exists,
                 ItemRows
  <1> QED  BY <1>1, <1>2, <1>3, <1>4, <1>5, <1>6, <1>7, <1>8, <1>9, <1>10 DEF Next, Step

\* If the workload is exclusive, what a handler has read of its avatar is
\* still so when it writes.
THEOREM StockInvariantHolds ==
    ASSUME Exclusive
    PROVE  Spec => [](InventoryInv /\ StockInv)
  <1>1. Init => InventoryInv /\ StockInv
    BY InitEstablishes, InitStock
  <1>2. InventoryInv /\ StockInv /\ [Next]_vars => (InventoryInv /\ StockInv)'
    BY NextKeeps, NextStock
  <1> QED  BY <1>1, <1>2, PTL DEF Spec

LEMMA OwnRowsOf ==
    ASSUME StockInv, NEW id, NEW a, Exists(id, a), NEW k
    PROVE  OwnRows(a, k) = ItemRows(id, k)
  <1>1. \A i \in InstanceRows(a) : i.id = id
    BY DEF StockInv, StocksSole, InstanceRows, Exists
  <1>2. \E i \in InstanceRows(a) : i.id = id
    BY DEF InstanceRows, Exists
  <1> QED  BY <1>1, <1>2 DEF OwnRows

\* A stackable item is one row of its avatar.
THEOREM StacksAreOneRow ==
    ASSUME Exclusive
    PROVE  Spec => []OneStack
  <1>1. InventoryInv /\ StockInv => OneStack
    <2> SUFFICES ASSUME InventoryInv, StockInv, faults = 0, NEW a \in Avatar, NEW k \in Item,
                        OneKit(k), Stacked(k), NEW r \in OwnRows(a, k), NEW q \in OwnRows(a, k)
                 PROVE  r = q
      BY DEF OneStack
    <2>1. PICK i \in instances, j \in instances : /\ i.name = a /\ r \in ItemRows(i.id, k)
                                                  /\ j.name = a /\ q \in ItemRows(j.id, k)
      BY DEF OwnRows, InstanceRows
    <2>2. i = j
      BY <2>1 DEF StockInv, StocksSole
    <2> QED  BY <2>1, <2>2 DEF StockInv, StocksSole, ItemRows, Sole
  <1> QED  BY <1>1, StockInvariantHolds, PTL

-----------------------------------------------------------------------------
(* Sums over finite sets of rows.                                          *)

\* Induction over the subsets of a finite set.
LEMMA SubsetInduction ==
    ASSUME NEW S, IsFiniteSet(S), NEW Good,
           \A T \in SUBSET S : (\A U \in SUBSET T : U # T => U \in Good) => T \in Good
    PROVE  \A T \in SUBSET S : T \in Good
  <1> SUFFICES ASSUME (SUBSET S) \ Good # {}
               PROVE  FALSE
    OBVIOUS
  <1> DEFINE Bad == (SUBSET S) \ Good
             R == StrictSubsetOrdering(S)
             F == FiniteSubsetsOf(S)
  <1>1. IsWellFoundedOn(R, F)
    BY FS_StrictSubsetOrderingWellFounded
  <1>2. F = SUBSET S
    BY FS_FiniteSubsetsOfFinite
  <1>3. Bad \subseteq F /\ Bad # {}
    BY <1>2
  <1>4. \E T \in Bad : \A U \in Bad : ~(<<U, T>> \in R)
    <2> HIDE DEF Bad, R, F
    <2> QED  BY <1>1, <1>3, WFMin
  <1>5. PICK T \in Bad : \A U \in Bad : ~(<<U, T>> \in R)
    BY <1>4
  <1>6. ASSUME NEW U \in SUBSET T, U # T
        PROVE  U \in Good
    <2>1. <<U, T>> \in R
      BY <1>6 DEF StrictSubsetOrdering
    <2> QED  BY <1>5, <2>1
  <1> QED  BY <1>5, <1>6

Pick(T) == CHOOSE r \in T : TRUE

\* g adds up the subsets of U the way MapThenSumSet does.
Adds(g, U) == \A T \in SUBSET U : g[T] = IF T = {} THEN 0 ELSE Pick(T).qty + g[T \ {Pick(T)}]

LEMMA QuantityUnfolded ==
    ASSUME NEW S
    PROVE  Quantity(S) = (CHOOSE g : g = [T \in SUBSET S |->
                             IF T = {} THEN 0 ELSE Pick(T).qty + g[T \ {Pick(T)}]])[S]
  BY DEF Quantity, MapThenSumSet, MapThenFoldSet, Pick

LEMMA AddsUnique ==
    ASSUME NEW U, IsFiniteSet(U), NEW g, NEW h, Adds(g, U), Adds(h, U)
    PROVE  \A T \in SUBSET U : g[T] = h[T]
  <1> DEFINE Good == {T \in SUBSET U : g[T] = h[T]}
  <1>1. ASSUME NEW T \in SUBSET U, \A V \in SUBSET T : V # T => V \in Good
        PROVE  T \in Good
    <2>1. CASE T = {}
      BY <2>1 DEF Adds
    <2>2. CASE T # {}
      <3>1. Pick(T) \in T
        BY <2>2 DEF Pick
      <3>2. T \ {Pick(T)} \in Good
        BY <1>1, <3>1
      <3> QED  BY <2>2, <3>2 DEF Adds
    <2> QED  BY <2>1, <2>2
  <1>2. \A T \in SUBSET U : T \in Good
    <2> HIDE DEF Good
    <2> QED  BY <1>1, SubsetInduction
  <1> QED  BY <1>2

LEMMA AddsExists ==
    ASSUME NEW S, IsFiniteSet(S)
    PROVE  \E g : Adds(g, S)
  <1> DEFINE Good == {U \in SUBSET S : \E g : Adds(g, U)}
  <1>1. ASSUME NEW U \in SUBSET S, \A V \in SUBSET U : V # U => V \in Good
        PROVE  U \in Good
    <2> DEFINE G(x) == CHOOSE g : Adds(g, U \ {x})
               p == Pick(U)
               h == [T \in SUBSET U |-> IF T = U THEN IF U = {} THEN 0 ELSE p.qty + G(p)[U \ {p}]
                                        ELSE G(Pick(U \ T))[T]]
    <2>1. \A x \in U : Adds(G(x), U \ {x})
      <3> TAKE x \in U
      <3>1. \E g : Adds(g, U \ {x})
        BY <1>1
      <3> QED  BY <3>1
    <2>2. ASSUME NEW x \in U, NEW T \in SUBSET (U \ {x})
          PROVE  h[T] = G(x)[T]
      <3>1. T # U /\ T \in SUBSET U /\ Pick(U \ T) \in U \ T
        BY DEF Pick
      <3>2. h[T] = G(Pick(U \ T))[T]
        BY <3>1
      <3> DEFINE y == Pick(U \ T)
                 V == (U \ {x}) \ {y}
      <3>3. IsFiniteSet(V) /\ T \in SUBSET V
        BY <3>1, FS_Subset
      <3>4. Adds(G(x), V) /\ Adds(G(y), V)
        <4>1. Adds(G(x), U \ {x}) /\ Adds(G(y), U \ {y})
          BY <2>1, <3>1
        <4> HIDE DEF G, y
        <4> QED  BY <4>1 DEF Adds
      <3>5. G(x)[T] = G(y)[T]
        <4> HIDE DEF G, y, V
        <4> QED  BY <3>3, <3>4, AddsUnique
      <3> QED  BY <3>2, <3>5
    <2>3. ASSUME NEW T \in SUBSET U
          PROVE  h[T] = IF T = {} THEN 0 ELSE Pick(T).qty + h[T \ {Pick(T)}]
      <3>1. CASE T = U
        <4>1. CASE U = {}
          BY <3>1, <4>1
        <4>2. CASE U # {}
          <5>1. p \in U
            BY <4>2 DEF Pick
          <5>2. h[U \ {p}] = G(p)[U \ {p}]
            BY <5>1, <2>2
          <5>3. h[U] = p.qty + G(p)[U \ {p}]
            BY <4>2
          <5> QED  BY <3>1, <4>2, <5>2, <5>3
        <4> QED  BY <4>1, <4>2
      <3>2. CASE T # U
        <4>1. PICK x \in U : x \notin T
          BY <3>2
        <4>2. h[T] = G(x)[T]
          BY <2>2, <4>1
        <4>3. T # {} => h[T \ {Pick(T)}] = G(x)[T \ {Pick(T)}]
          BY <2>2, <4>1
        <4>4. Adds(G(x), U \ {x}) /\ T \in SUBSET (U \ {x})
          BY <2>1, <4>1
        <4> HIDE DEF G, h
        <4> QED  BY <4>2, <4>3, <4>4 DEF Adds
      <3> QED  BY <3>1, <3>2
    <2>4. Adds(h, U)
      <3> HIDE DEF h
      <3> QED  BY <2>3 DEF Adds
    <2> QED  BY <2>4
  <1>2. \A T \in SUBSET S : T \in Good
    <2> HIDE DEF Good
    <2> QED  BY <1>1, SubsetInduction
  <1> QED  BY <1>2

LEMMA QuantityAdds ==
    ASSUME NEW S, IsFiniteSet(S)
    PROVE  \E g : Adds(g, S) /\ Quantity(S) = g[S]
  <1> DEFINE F(g) == [T \in SUBSET S |-> IF T = {} THEN 0 ELSE Pick(T).qty + g[T \ {Pick(T)}]]
  <1>1. \E g : g = F(g)
    <2>1. PICK g : Adds(g, S)
      BY AddsExists
    <2>2. PICK h : h = [T \in SUBSET S |-> g[T]]
      OBVIOUS
    <2>3. \A T \in SUBSET S : h[T] = IF T = {} THEN 0 ELSE Pick(T).qty + h[T \ {Pick(T)}]
      BY <2>1, <2>2 DEF Adds
    <2>4. h = F(h)
      BY <2>2, <2>3
    <2> QED  BY <2>4
  <1>2. PICK g : g = (CHOOSE f : f = F(f))
    OBVIOUS
  <1>3. g = F(g)
    BY <1>1, <1>2
  <1>4. Adds(g, S)
    BY <1>3 DEF Adds
  <1>5. Quantity(S) = g[S]
    BY <1>2, QuantityUnfolded
  <1> QED  BY <1>4, <1>5

LEMMA QuantityPick ==
    ASSUME NEW S, IsFiniteSet(S)
    PROVE  Quantity(S) = IF S = {} THEN 0 ELSE Pick(S).qty + Quantity(S \ {Pick(S)})
  <1>1. PICK g : Adds(g, S) /\ Quantity(S) = g[S]
    BY QuantityAdds
  <1>2. CASE S = {}
    BY <1>1, <1>2 DEF Adds
  <1>3. CASE S # {}
    <2> PICK U : U = S \ {Pick(S)}
      OBVIOUS
    <2>1. IsFiniteSet(U) /\ U \in SUBSET S
      BY FS_Subset
    <2>2. PICK h : Adds(h, U) /\ Quantity(U) = h[U]
      BY <2>1, QuantityAdds
    <2>3. Adds(g, U)
      BY <1>1, <2>1 DEF Adds
    <2>4. g[U] = h[U]
      BY <2>1, <2>2, <2>3, AddsUnique
    <2> QED  BY <1>1, <1>3, <2>2, <2>4 DEF Adds
  <1> QED  BY <1>2, <1>3

LEMMA QuantityType ==
    ASSUME NEW S, IsFiniteSet(S), \A r \in S : r.qty \in Int
    PROVE  Quantity(S) \in Int
  <1> DEFINE Good == {T \in SUBSET S : Quantity(T) \in Int}
  <1>1. ASSUME NEW T \in SUBSET S, \A V \in SUBSET T : V # T => V \in Good
        PROVE  T \in Good
    <2>1. IsFiniteSet(T)
      BY FS_Subset
    <2>2. CASE T = {}
      <3>1. Quantity(T) = 0
        BY <2>1, <2>2, QuantityPick
      <3> QED  BY <3>1
    <2>3. CASE T # {}
      <3>1. Pick(T) \in T
        BY <2>3 DEF Pick
      <3>2. T \ {Pick(T)} \in Good
        BY <1>1, <3>1
      <3>3. Quantity(T) = Pick(T).qty + Quantity(T \ {Pick(T)})
        BY <2>1, <2>3, QuantityPick
      <3> QED  BY <3>1, <3>2, <3>3
    <2> QED  BY <2>2, <2>3
  <1>2. \A T \in SUBSET S : T \in Good
    <2> HIDE DEF Good
    <2> QED  BY <1>1, SubsetInduction
  <1> QED  BY <1>2

\* The order in which a set is added up does not matter.
LEMMA QuantityWithout ==
    ASSUME NEW S, IsFiniteSet(S), \A r \in S : r.qty \in Int, NEW x \in S
    PROVE  Quantity(S) = x.qty + Quantity(S \ {x})
  <1> DEFINE Good == {T \in SUBSET S : \A y \in T : Quantity(T) = y.qty + Quantity(T \ {y})}
  <1>1. ASSUME NEW T \in SUBSET S, \A V \in SUBSET T : V # T => V \in Good
        PROVE  T \in Good
    <2> SUFFICES ASSUME NEW y \in T
                 PROVE  Quantity(T) = y.qty + Quantity(T \ {y})
      OBVIOUS
    <2> PICK p : p = Pick(T)
      OBVIOUS
    <2>1. p \in T /\ IsFiniteSet(T)
      BY FS_Subset DEF Pick
    <2>2. Quantity(T) = p.qty + Quantity(T \ {p})
      BY <2>1, QuantityPick
    <2>3. CASE y = p
      BY <2>2, <2>3
    <2>4. CASE y # p
      <3>1. T \ {p} \in Good /\ T \ {y} \in Good
        BY <1>1, <2>1
      <3>2. Quantity(T \ {p}) = y.qty + Quantity((T \ {p}) \ {y})
        BY <3>1, <2>4
      <3>3. Quantity(T \ {y}) = p.qty + Quantity((T \ {y}) \ {p})
        BY <3>1, <2>1, <2>4
      <3>4. (T \ {y}) \ {p} = (T \ {p}) \ {y}
        OBVIOUS
      <3>5. Quantity((T \ {p}) \ {y}) \in Int
        <4> PICK V : V = (T \ {p}) \ {y}
          OBVIOUS
        <4>1. IsFiniteSet(V) /\ \A r \in V : r.qty \in Int
          BY FS_Subset
        <4> QED  BY <4>1, QuantityType
      <3>6. y.qty \in Int /\ p.qty \in Int
        BY <2>1
      <3> PICK q : q = Quantity((T \ {p}) \ {y})
        OBVIOUS
      <3>7. Quantity(T) = p.qty + (y.qty + q)
        BY <2>2, <3>2
      <3>8. Quantity(T \ {y}) = p.qty + q
        BY <3>3, <3>4
      <3>9. p.qty + (y.qty + q) = y.qty + (p.qty + q)
        BY <3>5, <3>6
      <3> QED  BY <3>7, <3>8, <3>9
    <2> QED  BY <2>3, <2>4
  <1>2. \A T \in SUBSET S : T \in Good
    <2> HIDE DEF Good
    <2> QED  BY <1>1, SubsetInduction
  <1> QED  BY <1>2

LEMMA QuantityAdded ==
    ASSUME NEW S, IsFiniteSet(S), \A r \in S : r.qty \in Int, NEW s, s \notin S, s.qty \in Int
    PROVE  Quantity(S \cup {s}) = Quantity(S) + s.qty
  <1> PICK U : U = S \cup {s}
    OBVIOUS
  <1>1. IsFiniteSet(U) /\ (\A r \in U : r.qty \in Int) /\ s \in U /\ U \ {s} = S
    BY FS_AddElement
  <1>2. Quantity(U) = s.qty + Quantity(S)
    BY <1>1, QuantityWithout
  <1> PICK q : q = Quantity(S)
    OBVIOUS
  <1>3. q \in Int /\ Quantity(U) = s.qty + q
    BY <1>2, QuantityType
  <1>4. s.qty + q = q + s.qty
    BY <1>3
  <1> QED  BY <1>3, <1>4

LEMMA QuantityRemoved ==
    ASSUME NEW S, IsFiniteSet(S), \A r \in S : r.qty \in Int, NEW r \in S
    PROVE  Quantity(S \ {r}) = Quantity(S) - r.qty
  <1>1. Quantity(S) = r.qty + Quantity(S \ {r})
    BY QuantityWithout
  <1> PICK U : U = S \ {r}
    OBVIOUS
  <1>2. Quantity(U) \in Int
    BY FS_Subset, QuantityType
  <1> QED  BY <1>1, <1>2

LEMMA QuantityReplaced ==
    ASSUME NEW S, IsFiniteSet(S), \A r \in S : r.qty \in Int, NEW r \in S,
           NEW s, s \notin S \ {r}, s.qty \in Int
    PROVE  Quantity((S \ {r}) \cup {s}) = Quantity(S) + (s.qty - r.qty)
  <1> PICK U : U = S \ {r}
    OBVIOUS
  <1>1. IsFiniteSet(U) /\ (\A q \in U : q.qty \in Int) /\ s \notin U
    BY FS_Subset
  <1>2. Quantity(U \cup {s}) = Quantity(U) + s.qty
    BY <1>1, QuantityAdded
  <1>3. Quantity(U) = Quantity(S) - r.qty
    BY QuantityRemoved
  <1>4. Quantity(S) \in Int
    BY QuantityType
  <1> QED  BY <1>2, <1>3, <1>4

-----------------------------------------------------------------------------
(* What an avatar has of an item.                                          *)

\* Ids name rows, and there are finitely many.
LEMMA ItemsFinite ==
    ASSUME InventoryInv
    PROVE  IsFiniteSet(items)
  <1> PICK f : f = [r \in items |-> r.id]
    OBVIOUS
  <1>1. f \in [items -> 1 .. MaxRow]
    BY DEF InventoryInv, TypeOK, ItemRow, RowId
  <1>2. \A r, q \in items : f[r] = f[q] => r = q
    BY DEF InventoryInv, TablesFit, RowsFit
  <1>3. f \in Injection(items, 1 .. MaxRow)
    BY <1>1, <1>2 DEF Injection, IsInjective
  <1>4. IsFiniteSet(1 .. MaxRow)
    BY FS_Interval
  <1> QED  BY <1>3, <1>4, FS_Injection

Owned(id, a) == \E i \in instances : i.id = id /\ i.name = a

LEMMA OwnRowsAre ==
    ASSUME NEW a, NEW k
    PROVE  /\ OwnRows(a, k) = {r \in items : Owned(r.inst, a) /\ r.item = k}
           /\ OwnRows(a, k)' = {r \in items' : Owned(r.inst, a)' /\ r.item = k}
  BY DEF OwnRows, InstanceRows, ItemRows, Owned

LEMMA OwnRowsThen ==
    ASSUME NEW a, NEW k, instances' = instances
    PROVE  OwnRows(a, k)' = {r \in items' : Owned(r.inst, a) /\ r.item = k}
  <1>1. \A r : Owned(r.inst, a)' <=> Owned(r.inst, a)
    BY DEF Owned
  <1> QED  BY <1>1, OwnRowsAre

LEMMA StockedFacts ==
    ASSUME InventoryInv, NEW a, NEW k
    PROVE  /\ IsFiniteSet(OwnRows(a, k)) /\ \A r \in OwnRows(a, k) : r.qty \in Int
           /\ Stocked(a, k) \in Int
  <1>1. OwnRows(a, k) \subseteq items
    BY OwnRowsAre
  <1>2. IsFiniteSet(OwnRows(a, k))
    BY <1>1, ItemsFinite, FS_Subset
  <1>3. \A r \in OwnRows(a, k) : r.qty \in Int
    BY <1>1 DEF InventoryInv, TypeOK, ItemRow, Int64
  <1>4. Stocked(a, k) \in Int
    <2> PICK S : S = OwnRows(a, k)
      OBVIOUS
    <2> QED  BY <1>2, <1>3, QuantityType DEF Stocked
  <1> QED  BY <1>2, <1>3, <1>4

\* An id belongs to one avatar.
LEMMA OwnedBy ==
    ASSUME StockInv, NEW id, NEW a, Exists(id, a), NEW b
    PROVE  Owned(id, b) <=> b = a
  BY DEF StockInv, StocksSole, Exists, Owned

LEMMA StockedSame ==
    ASSUME UNCHANGED <<items, instances>>, NEW b, NEW l
    PROVE  Stocked(b, l)' = Stocked(b, l)
  <1>1. items' = items /\ instances' = instances
    OBVIOUS
  <1>2. OwnRows(b, l)' = {r \in items' : Owned(r.inst, b) /\ r.item = l}
    BY <1>1, OwnRowsThen
  <1>3. OwnRows(b, l)' = OwnRows(b, l)
    BY <1>1, <1>2, OwnRowsAre
  <1> QED  BY <1>3 DEF Stocked

\* The avatar b has x more of the item l, if they are a and k.
Gains(a, k, x, b, l) ==
    Stocked(b, l)' = Stocked(b, l) + (IF b = a /\ l = k THEN x ELSE 0)

LEMMA AddedGains ==
    ASSUME InventoryInv, StockInv, NEW a, NEW s, Exists(s.inst, a), s \notin items,
           s.qty \in Int, items' = items \cup {s}, instances' = instances, NEW b, NEW l
    PROVE  Gains(a, s.item, s.qty, b, l)
  <1> PICK S : S = OwnRows(b, l)
    OBVIOUS
  <1>1. IsFiniteSet(S) /\ (\A r \in S : r.qty \in Int) /\ s \notin S /\ Stocked(b, l) \in Int
    BY StockedFacts, OwnRowsAre
  <1>2. OwnRows(b, l)' = IF b = a /\ l = s.item THEN S \cup {s} ELSE S
    <2>1. /\ OwnRows(b, l)' = {r \in items' : Owned(r.inst, b) /\ r.item = l}
          /\ S = {r \in items : Owned(r.inst, b) /\ r.item = l}
      BY OwnRowsAre, OwnRowsThen
    <2>2. Owned(s.inst, b) <=> b = a
      BY OwnedBy
    <2> QED  BY <2>1, <2>2
  <1>3. Quantity(S \cup {s}) = Quantity(S) + s.qty
    BY <1>1, QuantityAdded
  <1>4. Stocked(b, l)' = Quantity(OwnRows(b, l)') /\ Stocked(b, l) = Quantity(S)
    BY DEF Stocked
  <1> QED  BY <1>1, <1>2, <1>3, <1>4 DEF Gains

LEMMA RemovedGains ==
    ASSUME InventoryInv, StockInv, NEW a, NEW r \in items, Exists(r.inst, a),
           items' = items \ {r}, instances' = instances, NEW b, NEW l
    PROVE  Gains(a, r.item, 0 - r.qty, b, l)
  <1> PICK S : S = OwnRows(b, l)
    OBVIOUS
  <1>1. IsFiniteSet(S) /\ (\A q \in S : q.qty \in Int) /\ Stocked(b, l) \in Int
    BY StockedFacts
  <1>2. r \in S <=> b = a /\ l = r.item
    BY OwnRowsAre, OwnedBy
  <1>3. OwnRows(b, l)' = S \ {r}
    BY OwnRowsAre, OwnRowsThen
  <1>4. r \in S => Quantity(S \ {r}) = Quantity(S) - r.qty
    BY <1>1, QuantityRemoved
  <1>5. r \notin S => S \ {r} = S
    OBVIOUS
  <1>6. Stocked(b, l)' = Quantity(OwnRows(b, l)') /\ Stocked(b, l) = Quantity(S)
    BY DEF Stocked
  <1>7. r.qty \in Int
    BY DEF InventoryInv, TypeOK, ItemRow, Int64
  <1> PICK x, n : x = Stocked(b, l) /\ n = r.qty
    OBVIOUS
  <1>8. x - n = x + (0 - n) /\ x + 0 = x
    BY <1>1, <1>7
  <1>9. Stocked(b, l)' = IF r \in S THEN x - n ELSE x
    BY <1>3, <1>4, <1>5, <1>6
  <1> QED  BY <1>2, <1>8, <1>9 DEF Gains

LEMMA ReplacedGains ==
    ASSUME InventoryInv, StockInv, NEW a, NEW r \in items, Exists(r.inst, a),
           NEW s, Replaced(r, s), s.qty \in Int, instances' = instances, NEW b, NEW l
    PROVE  Gains(a, r.item, s.qty - r.qty, b, l)
  <1> PICK S : S = OwnRows(b, l)
    OBVIOUS
  <1>1. IsFiniteSet(S) /\ (\A q \in S : q.qty \in Int) /\ Stocked(b, l) \in Int
    BY StockedFacts
  <1>2. r \in S <=> b = a /\ l = r.item
    BY OwnRowsAre, OwnedBy
  <1>3. OwnRows(b, l)' = IF r \in S THEN (S \ {r}) \cup {s} ELSE S
    <2>1. /\ OwnRows(b, l)' = {q \in items' : Owned(q.inst, b) /\ q.item = l}
          /\ S = {q \in items : Owned(q.inst, b) /\ q.item = l}
      BY OwnRowsAre, OwnRowsThen
    <2>2. items' = (items \ {r}) \cup {s} /\ s.inst = r.inst /\ s.item = r.item
      BY DEF Replaced
    <2> QED  BY <2>1, <2>2
  <1>4. s \notin S \ {r}
    BY OwnRowsAre DEF Replaced, InventoryInv, TablesFit, RowsFit
  <1>5. r \in S => Quantity((S \ {r}) \cup {s}) = Quantity(S) + (s.qty - r.qty)
    BY <1>1, <1>4, QuantityReplaced
  <1>6. Stocked(b, l)' = Quantity(OwnRows(b, l)') /\ Stocked(b, l) = Quantity(S)
    BY DEF Stocked
  <1> QED  BY <1>1, <1>2, <1>3, <1>5, <1>6 DEF Gains

-----------------------------------------------------------------------------
(* What the steps do to it.                                                *)

\* Steps that write neither items nor avatars.
LEMMA ReadsStay ==
    ASSUME NEW c \in Client,
           \/ Receive(c) \/ Reject(c) \/ CreateRefused(c) \/ CreateReply(c) \/ DeleteFind(c)
           \/ Lookup(c) \/ GrantFind(c) \/ ActivatePower(c)
    PROVE  UNCHANGED <<items, instances>>
  BY DEF Receive, Reject, CreateRefused, CreateReply, DeleteFind, Lookup, FindAvatar, FindRow,
         FindItem, GrantFind, ActivatePower, tables

\* A new avatar has nothing.
LEMMA InsertedStocks ==
    ASSUME InventoryInv, NEW a, InsertInstance(a), NEW b, NEW l
    PROVE  Stocked(b, l)' = Stocked(b, l)
  <1>1. instances' = instances \cup {NewInstance(a)} /\ items' = items
    BY DEF InsertInstance
  <1>2. \A r \in items : r.inst # nextInst
    BY DEF InventoryInv, TypeOK, TablesFit, RowsFit, ItemRow, InstanceId
  <1>3. \A r \in items : Owned(r.inst, b)' <=> Owned(r.inst, b)
    BY <1>1, <1>2 DEF Owned, NewInstance
  <1>4. /\ OwnRows(b, l) = {r \in items : Owned(r.inst, b) /\ r.item = l}
        /\ OwnRows(b, l)' = {r \in items' : Owned(r.inst, b)' /\ r.item = l}
    BY OwnRowsAre
  <1>5. OwnRows(b, l)' = OwnRows(b, l)
    BY <1>1, <1>3, <1>4
  <1> QED  BY <1>5 DEF Stocked

\* A deletion takes from the deleted avatar alone.
LEMMA DeletedStocks ==
    ASSUME InventoryInv, StockInv, NEW c \in Client, DeletePurge(c) \/ DeleteRemove(c),
           NEW b, b # task[c].req.a, NEW l
    PROVE  Stocked(b, l)' = Stocked(b, l)
  <1>1. Exists(task[c].inst, task[c].req.a)
    BY DEF DeletePurge, DeleteRemove, At, StockInv, StockFits, SnapshotFits
  <1>2. ~Owned(task[c].inst, b)
    BY <1>1, OwnedBy
  <1>3. CASE DeletePurge(c)
    <2>1. instances' = instances /\ (items' = items \/ items' = Purged(task[c].inst))
      BY <1>3 DEF DeletePurge, StoreItems
    <2>2. \A r : r.inst # task[c].inst => (r \in items' <=> r \in items)
      BY <2>1 DEF Purged
    <2>3. items' \subseteq items
      BY <2>1 DEF Purged
    <2>4. OwnRows(b, l)' = {r \in items' : Owned(r.inst, b) /\ r.item = l}
      BY <2>1, OwnRowsThen
    <2>5. OwnRows(b, l)' = OwnRows(b, l)
      BY <1>2, <2>2, <2>3, <2>4, OwnRowsAre
    <2> QED  BY <2>5 DEF Stocked
  <1>4. CASE DeleteRemove(c)
    <2>1. items' = items /\ (instances' = instances \/ instances' = Remove(instances, task[c].inst))
      BY <1>4 DEF DeleteRemove
    <2>2. \A id : Owned(id, b)' <=> Owned(id, b)
      BY <1>2, <2>1 DEF Owned, Remove
    <2>3. /\ OwnRows(b, l) = {r \in items : Owned(r.inst, b) /\ r.item = l}
          /\ OwnRows(b, l)' = {r \in items' : Owned(r.inst, b)' /\ r.item = l}
      BY OwnRowsAre
    <2>4. OwnRows(b, l)' = OwnRows(b, l)
      BY <2>1, <2>2, <2>3
    <2> QED  BY <2>4 DEF Stocked
  <1> QED  BY <1>3, <1>4

\* AddRow under the id of an existing avatar.
LEMMA AddRowGains ==
    ASSUME InventoryInv, StockInv, NEW i, NEW a, Exists(i, a), NEW k, NEW n \in Int,
           AddRow(TRUE, i, k, n), NEW b, NEW l
    PROVE  Gains(a, k, n, b, l)
  <1> PICK s : s = NewRow(i, k, n)
    OBVIOUS
  <1>1. items' = items \cup {s} /\ instances' = instances
    BY DEF AddRow
  <1>2. s.inst = i /\ s.item = k /\ s.qty = n /\ s.id = nextRow
    BY DEF NewRow
  <1>3. s \notin items
    BY <1>2 DEF InventoryInv, TypeOK, TablesFit, RowsFit, ItemRow, RowId
  <1> QED  BY <1>1, <1>2, <1>3, AddedGains

LEMMA KitGains ==
    ASSUME InventoryInv, StockInv, NEW c \in Client, CreateKit(c), NEW b, NEW l
    PROVE  \/ Stocked(b, l)' = Stocked(b, l)
           \/ \E e \in task[c].req.kit : Gains(task[c].req.a, e.k, e.n, b, l)
  <1>1. PICK e \in task[c].todo, ok \in BOOLEAN : AddRow(ok, task[c].inst, e.k, e.n)
    BY DEF CreateKit
  <1>2. CASE ~ok
    <2>1. UNCHANGED <<items, instances>>
      BY <1>1, <1>2 DEF AddRow
    <2> QED  BY <2>1, StockedSame
  <1>3. CASE ok
    <2>1. At(c, "create", "kit") /\ task[c] \in Task /\ task[c].todo \subseteq task[c].req.kit
      BY TaskFacts DEF CreateKit, At, TaskFits, RequestFits
    <2>2. Exists(task[c].inst, task[c].req.a)
      BY <2>1, TaskFacts DEF At, TaskFits, FoundFits, StockInv, StockFits, SnapshotFits
    <2>3. e.n \in Int
      BY <2>1 DEF Task, Stock, Int64
    <2>4. Gains(task[c].req.a, e.k, e.n, b, l)
      BY <1>1, <1>3, <2>2, <2>3, AddRowGains
    <2> QED  BY <2>1, <2>4
  <1> QED  BY <1>2, <1>3

\* A handler about to write has found its avatar.
LEMMA WriterExists ==
    ASSUME InventoryInv, StockInv, NEW c \in Client, task[c].pc \in {"store", "spend"}
    PROVE  Exists(task[c].inst, task[c].req.a)
  BY WriteFacts DEF StockInv, StockFits, SnapshotFits

LEMMA GrantRowGains ==
    ASSUME InventoryInv, StockInv, NEW c \in Client, GrantRow(c), NEW b, NEW l
    PROVE  \/ faults' # 0 /\ Stocked(b, l)' = Stocked(b, l)
           \/ Gains(task[c].req.a, task[c].req.k, Capped(task[c].def, 0, task[c].req.n), b, l)
  <1> PICK n : n = Capped(task[c].def, 0, task[c].req.n)
    OBVIOUS
  <1>1. PICK ok \in BOOLEAN : Statement(ok) /\ AddRow(ok, task[c].inst, task[c].req.k, n)
    BY DEF GrantRow
  <1>2. CASE ~ok
    <2>1. UNCHANGED <<items, instances>>
      BY <1>1, <1>2 DEF AddRow
    <2>2. faults' # 0
      BY <1>1, <1>2, StatementGrows
    <2> QED  BY <2>1, <2>2, StockedSame
  <1>3. CASE ok
    <2>1. At(c, "grant", "store")
      BY DEF GrantRow
    <2>2. Exists(task[c].inst, task[c].req.a)
      BY <2>1, WriterExists DEF At
    <2>3. 0 \in Int64
      BY DEF Int64
    <2>4. n \in Int
      BY <2>1, <2>3, WriteFacts, CappedLegal DEF At, WellFormed, Int64
    <2> QED  BY <1>1, <1>3, <2>2, <2>4, AddRowGains
  <1> QED  BY <1>2, <1>3

LEMMA GrantStackGains ==
    ASSUME InventoryInv, StockInv, NEW c \in Client, GrantStack(c), NEW b, NEW l
    PROVE  \/ faults' # 0 /\ Stocked(b, l)' = Stocked(b, l)
           \/ Gains(task[c].req.a, task[c].req.k,
                    Capped(task[c].def, task[c].row.qty, task[c].req.n) - task[c].row.qty, b, l)
  <1> PICK n : n = Capped(task[c].def, task[c].row.qty, task[c].req.n)
    OBVIOUS
  <1>1. PICK ok \in BOOLEAN :
          /\ Statement(ok)
          /\ StoreItems(IF ok THEN SetQuantity(items, task[c].row.id, n) ELSE items)
    BY DEF GrantStack
  <1>2. At(c, "grant", "store") /\ task[c].row.id # 0
    BY DEF GrantStack
  <1>3. instances' = instances
    BY <1>1 DEF StoreItems
  <1>4. CASE ~ok
    <2>1. UNCHANGED <<items, instances>>
      BY <1>1, <1>4 DEF StoreItems
    <2>2. faults' # 0
      BY <1>1, <1>4, StatementGrows
    <2> QED  BY <2>1, <2>2, StockedSame
  <1>5. CASE ok
    <2>1. PICK r \in items : /\ r.id = task[c].row.id /\ r.qty = task[c].row.qty
                             /\ r.inst = task[c].inst /\ r.item = task[c].req.k
      BY <1>2, HeldRow
    <2> PICK s : s = [r EXCEPT !.qty = n]
      OBVIOUS
    <2>2. s.id = r.id /\ s.inst = r.inst /\ s.item = r.item /\ s.qty = n
      BY DEF InventoryInv, TypeOK, ItemRow
    <2>3. Replaced(r, s)
      <3>1. items' = (items \ {r}) \cup {s}
        BY <1>1, <1>5, <2>1, OneRowWritten DEF StoreItems
      <3> QED  BY <2>2, <3>1 DEF Replaced
    <2>4. Exists(r.inst, task[c].req.a)
      BY <1>2, <2>1, WriterExists DEF At
    <2>5. s.qty \in Int
      BY <1>2, <2>2, WriteFacts, CappedLegal DEF At, WellFormed, Int64
    <2>6. Gains(task[c].req.a, r.item, s.qty - r.qty, b, l)
      BY <1>3, <2>3, <2>4, <2>5, ReplacedGains
    <2> QED  BY <2>1, <2>2, <2>6
  <1> QED  BY <1>4, <1>5

LEMMA EquipGains ==
    ASSUME InventoryInv, StockInv, NEW c \in Client, NEW op \in {"equip", "unequip"},
           MarkEquipped(c, op), NEW b, NEW l
    PROVE  Stocked(b, l)' = Stocked(b, l)
  <1>1. PICK ok \in BOOLEAN :
          StoreItems(IF ok THEN SetEquipped(items, task[c].row.id, op = "equip") ELSE items)
    BY DEF MarkEquipped
  <1>2. task[c].pc = "store" /\ task[c].row.id # 0
    BY TaskFacts DEF MarkEquipped, At, TaskFits, FoundFits
  <1>3. instances' = instances
    BY <1>1 DEF StoreItems
  <1>4. CASE ~ok
    <2>1. UNCHANGED <<items, instances>>
      BY <1>1, <1>4 DEF StoreItems
    <2> QED  BY <2>1, StockedSame
  <1>5. CASE ok
    <2>1. PICK r \in items : r.id = task[c].row.id /\ r.inst = task[c].inst
      BY <1>2, HeldRow
    <2> PICK s : s = [r EXCEPT !.equipped = (op = "equip")]
      OBVIOUS
    <2>2. s.id = r.id /\ s.inst = r.inst /\ s.item = r.item /\ s.qty = r.qty /\ r.qty \in Int
      BY DEF InventoryInv, TypeOK, ItemRow, Int64
    <2>3. Replaced(r, s)
      <3>1. items' = (items \ {r}) \cup {s}
        BY <1>1, <1>5, <2>1, OneRowWritten DEF StoreItems
      <3> QED  BY <2>2, <3>1 DEF Replaced
    <2>4. Exists(r.inst, task[c].req.a)
      BY <1>2, <2>1, WriterExists
    <2>5. Gains(task[c].req.a, r.item, s.qty - r.qty, b, l)
      BY <1>3, <2>2, <2>3, <2>4, ReplacedGains
    <2>6. s.qty - r.qty = 0 /\ Stocked(b, l) \in Int
      BY <2>2, StockedFacts
    <2> QED  BY <2>5, <2>6 DEF Gains
  <1> QED  BY <1>4, <1>5

LEMMA SpendGains ==
    ASSUME InventoryInv, StockInv, NEW c \in Client, ActivateSpend(c), task[c].row.qty >= 1,
           NEW b, NEW l
    PROVE  \/ faults' # 0 /\ Stocked(b, l)' = Stocked(b, l)
           \/ Gains(task[c].req.a, task[c].req.k, -1, b, l)
  <1>1. PICK ok \in BOOLEAN :
          Statement(ok) /\ StoreItems(IF ok THEN Spent(task[c].row) ELSE items)
    BY DEF ActivateSpend
  <1>2. task[c].pc = "spend" /\ task[c].row.id # 0
    BY TaskFacts DEF ActivateSpend, At, TaskFits, FoundFits
  <1>3. instances' = instances
    BY <1>1 DEF StoreItems
  <1>4. CASE ~ok
    <2>1. UNCHANGED <<items, instances>>
      BY <1>1, <1>4 DEF StoreItems
    <2>2. faults' # 0
      BY <1>1, <1>4, StatementGrows
    <2> QED  BY <2>1, <2>2, StockedSame
  <1>5. CASE ok
    <2>1. PICK r \in items : /\ r.id = task[c].row.id /\ r.qty = task[c].row.qty
                             /\ r.inst = task[c].inst /\ r.item = task[c].req.k
      BY <1>2, HeldRow
    <2>2. items' = IF r.qty <= 1 THEN items \ {r}
                   ELSE (items \ {r}) \cup {[r EXCEPT !.qty = r.qty - 1]}
      BY <1>1, <1>5, <2>1, SpentFacts DEF StoreItems
    <2>3. Exists(r.inst, task[c].req.a) /\ r.qty \in Int
      BY <1>2, <2>1, WriterExists DEF InventoryInv, TypeOK, ItemRow, Int64
    <2>4. CASE r.qty <= 1
      <3>1. 0 - r.qty = -1
        BY <2>1, <2>3, <2>4
      <3>2. Gains(task[c].req.a, r.item, 0 - r.qty, b, l)
        BY <1>3, <2>2, <2>3, <2>4, RemovedGains
      <3> QED  BY <2>1, <3>1, <3>2
    <2>5. CASE ~(r.qty <= 1)
      <3> PICK s : s = [r EXCEPT !.qty = r.qty - 1]
        OBVIOUS
      <3>1. s.id = r.id /\ s.inst = r.inst /\ s.item = r.item /\ s.qty = r.qty - 1
        BY DEF InventoryInv, TypeOK, ItemRow
      <3>2. Replaced(r, s) /\ s.qty \in Int /\ s.qty - r.qty = -1
        BY <2>2, <2>3, <2>5, <3>1 DEF Replaced
      <3>3. Gains(task[c].req.a, r.item, s.qty - r.qty, b, l)
        BY <1>3, <2>3, <3>2, ReplacedGains
      <3> QED  BY <2>1, <3>2, <3>3
    <2> QED  BY <2>4, <2>5
  <1> QED  BY <1>4, <1>5

-----------------------------------------------------------------------------
(* Grants and activations are exact, and nothing else takes items.         *)

\* A regular item's rows are never empty.
LEMMA RegularRows ==
    ASSUME InventoryInv, StockInv, NEW r \in items, Regular(r.item)
    PROVE  r.qty >= 1
  <1>1. CASE Loose(r.item)
    BY <1>1 DEF StockInv, StocksSole
  <1>2. CASE Limited(r.item) /\ Moderate(r.item)
    BY <1>2 DEF InventoryInv, TablesFit, RowsFit, Legal, Fits
  <1> QED  BY <1>1, <1>2 DEF Regular

\* A grant to a stack of a regular item: it fits into int64, and the limit is
\* not below what the stack holds.
LEMMA RegularGrant ==
    ASSUME InventoryInv, StockInv, NEW c \in Client, At(c, "grant", "store"),
           task[c].def.stackable \/ task[c].row.id # 0, Regular(task[c].req.k)
    PROVE  LET t == task[c]
           IN  /\ Limited(t.req.k) /\ Sole(t.req.k)
               /\ t.def.stackable /\ t.def.max \in Int /\ t.def.max > 0
               /\ t.row.id # 0 =>
                    /\ Plus(t.row.qty, t.req.n) = t.row.qty + t.req.n
                    /\ t.row.qty >= 1
                    /\ \E d \in Declared[t.req.k] : t.row.qty <= d.max
  <1> PICK t : t = task[c]
    OBVIOUS
  <1>1. /\ t \in Task /\ t.def \in Declared[t.req.k] /\ t.req.k \in Item
        /\ t.req \in Workload[c] /\ t.req.n \in Int64 /\ t.req.n > 0
        /\ t.row.qty \in Int64 /\ (t.row.id # 0 => Legal(t.req.k, t.row.qty))
    BY WriteFacts DEF At, WellFormed
  <1>2. t.def.stackable
    BY DEF At, StockInv, StockFits, InsertFits
  <1>3. Limited(t.req.k) /\ Moderate(t.req.k) /\ OneKit(t.req.k)
    BY <1>1, <1>2 DEF Regular, Loose
  <1>4. Sole(t.req.k)
    BY <1>3 DEF Sole, Stacked, Limited
  <1>5. \A d \in Declared[t.req.k] : d.max \in Int
    BY <1>1 DEF Definition, Int64
  <1>6. ASSUME t.row.id # 0
        PROVE  /\ Plus(t.row.qty, t.req.n) = t.row.qty + t.req.n
               /\ t.row.qty >= 1
               /\ \E d \in Declared[t.req.k] : t.row.qty <= d.max
    <2>1. t.row.qty >= 1 /\ \E d \in Declared[t.req.k] : t.row.qty <= d.max
      BY <1>1, <1>3, <1>6 DEF Legal, Fits
    <2>2. \A d \in Declared[t.req.k] : d.max + t.req.n < IntLimit
      BY <1>1, <1>3 DEF Moderate
    <2>3. t.row.qty + t.req.n < IntLimit
      BY <1>1, <1>5, <2>1, <2>2 DEF Int64
    <2> QED  BY <1>1, <2>1, <2>3, PlusFacts
  <1>7. t.def.max \in Int /\ t.def.max > 0
    BY <1>1, <1>3, <1>5 DEF Limited
  <1> QED  BY <1>2, <1>3, <1>4, <1>6, <1>7

LEMMA MinOfTwo ==
    ASSUME NEW x \in Int, NEW y \in Int
    PROVE  Min({x, y}) = IF y > x THEN x ELSE y
  BY DEF Min

\* Every handler's step goes on with its own local variables or responds.
LEMMA ClientSteps ==
    ASSUME NEW d \in Client, Receive(d) \/ Reject(d) \/ Step(d)
    PROVE  (\E t : Continue(d, t)) \/ (\E ok : Respond(d, ok))
  <1>1. Refuse(d) => \E ok : Respond(d, ok)
    BY DEF Refuse
  <1>2. CASE Receive(d)
    BY <1>2 DEF Receive
  <1>3. CASE Reject(d) \/ CreateRefused(d) \/ CreateConflict(d)
    BY <1>1, <1>3 DEF Reject, CreateRefused, CreateConflict
  <1>4. CASE CreateInsert(d)
    BY <1>4 DEF CreateInsert
  <1>5. CASE CreateKit(d)
    BY <1>1, <1>5 DEF CreateKit
  <1>6. CASE CreateReply(d)
    BY <1>6 DEF CreateReply
  <1>7. CASE DeleteFind(d)
    BY <1>1, <1>7 DEF DeleteFind
  <1>8. CASE DeletePurge(d) \/ DeleteRemove(d)
    BY <1>8 DEF DeletePurge, DeleteRemove
  <1>9. CASE FindAvatar(d)
    BY <1>1, <1>9 DEF FindAvatar
  <1>10. CASE FindRow(d)
    BY <1>1, <1>10 DEF FindRow
  <1>11. CASE FindItem(d)
    BY <1>1, <1>11 DEF FindItem
  <1>12. CASE GrantFind(d)
    BY <1>12 DEF GrantFind
  <1>13. CASE GrantStack(d) \/ GrantRow(d)
    BY <1>13 DEF GrantStack, GrantRow
  <1>14. CASE Equip(d) \/ Unequip(d)
    BY <1>14 DEF Equip, Unequip, MarkEquipped
  <1>15. CASE ActivatePower(d)
    BY <1>1, <1>15 DEF ActivatePower
  <1>16. CASE ActivateSpend(d)
    BY <1>16 DEF ActivateSpend
  <1> QED  BY <1>2, <1>3, <1>4, <1>5, <1>6, <1>7, <1>8, <1>9, <1>10, <1>11, <1>12, <1>13,
              <1>14, <1>15, <1>16
           DEF Step, Create, Delete, Lookup, Grant, Activate

\* Only a handler's own last step answers its request.
LEMMA AcknowledgedBy ==
    ASSUME InventoryInv, [Next]_vars, NEW c \in Client, Acknowledged(c)
    PROVE  /\ At(c, "grant", "store") => GrantStack(c) \/ GrantRow(c)
           /\ At(c, "activate", "spend") => ActivateSpend(c)
  <1>1. task \in [Client -> Task] /\ task[c] # Idle /\ task'[c] = Idle /\ reply'
    BY DEF InventoryInv, TypeOK, Acknowledged, Idle
  <1>2. ~UNCHANGED vars
    BY <1>1 DEF vars
  <1>3. ~Crash /\ \A k \in Item : ~DefineItem(k) /\ ~DropItem(k)
    BY <1>1 DEF Crash, DefineItem, DropItem
  <1>4. PICK d \in Client : Receive(d) \/ Reject(d) \/ Step(d)
    BY <1>2, <1>3 DEF Next
  <1>5. d = c
    BY <1>1, <1>4, ClientSteps DEF Continue, Respond
  <1>6. At(c, "grant", "store") => GrantStack(c) \/ GrantRow(c)
    BY <1>4, <1>5
    DEF At, Receive, Reject, Step, Create, CreateRefused, CreateInsert, CreateConflict, CreateKit,
        CreateReply, Delete, DeleteFind, DeletePurge, DeleteRemove, Lookup, FindAvatar, FindRow,
        FindItem, Grant, GrantFind, Equip, Unequip, MarkEquipped, Activate, ActivatePower,
        ActivateSpend
  <1>7. At(c, "activate", "spend") => ActivateSpend(c)
    BY <1>4, <1>5
    DEF At, Receive, Reject, Step, Create, CreateRefused, CreateInsert, CreateConflict, CreateKit,
        CreateReply, Delete, DeleteFind, DeletePurge, DeleteRemove, Lookup, FindAvatar, FindRow,
        FindItem, Grant, GrantFind, GrantStack, GrantRow, Equip, Unequip, MarkEquipped, Activate,
        ActivatePower
  <1> QED  BY <1>6, <1>7

\* What an untroubled grant leaves.
LEMMA GrantExact ==
    ASSUME InventoryInv, StockInv, NEW c \in Client, At(c, "grant", "store"),
           GrantStack(c) \/ GrantRow(c), faults' = 0, faults = 0, Regular(task[c].req.k),
           NEW a, NEW k, NEW d, NEW n, a = task[c].req.a, k = task[c].req.k,
           d = task[c].def, n = task[c].req.n
    PROVE  Stocked(a, k)' = IF d.stackable /\ d.max > 0 THEN Min({d.max, Stocked(a, k) + n})
                            ELSE Stocked(a, k) + n
  <1>1. /\ n \in Int64 /\ n > 0 /\ n \in Int /\ d.max \in Int
        /\ Exists(task[c].inst, a) /\ Stocked(a, k) \in Int
    BY WriteFacts, WriterExists, StockedFacts DEF At, WellFormed, Task, Definition, Int64
  <1>2. OwnRows(a, k) = ItemRows(task[c].inst, k)
    BY <1>1, OwnRowsOf
  <1>3. CASE GrantRow(c)
    <2>1. Plus(0, n) = n
      BY <1>1, PlusFacts DEF Int64
    <2>2. Gains(a, k, Capped(d, 0, n), a, k)
      BY <1>3, GrantRowGains
    <2>3. Stocked(a, k)' = Stocked(a, k) + Capped(d, 0, n)
      BY <2>2 DEF Gains
    <2>4. CASE d.stackable
      <3>1. task[c].row.id = 0
        BY <1>3 DEF GrantRow
      <3>2. Sole(k) /\ d.max > 0
        BY <2>4, RegularGrant
      <3>3. ItemRows(task[c].inst, k) = {}
        BY <3>1, <3>2 DEF At, StockInv, StockFits, InsertFits
      <3>4. Stocked(a, k) = 0
        <4>1. IsFiniteSet({})
          BY FS_EmptySet
        <4>2. Quantity({}) = 0
          BY <4>1, QuantityPick
        <4> QED  BY <1>2, <3>3, <4>2 DEF Stocked
      <3>5. Capped(d, 0, n) = IF n > d.max THEN d.max ELSE n
        BY <2>1, <2>4, <3>2 DEF Capped
      <3>6. Min({d.max, n}) = IF n > d.max THEN d.max ELSE n
        BY <1>1, MinOfTwo
      <3>7. 0 + n = n /\ 0 + Min({d.max, n}) = Min({d.max, n})
        BY <1>1, <3>6
      <3> QED  BY <2>3, <2>4, <3>2, <3>4, <3>5, <3>6, <3>7
    <2>5. CASE ~d.stackable
      BY <2>1, <2>3, <2>5 DEF Capped
    <2> QED  BY <2>4, <2>5
  <1>4. CASE GrantStack(c)
    <2>1. task[c].row.id # 0
      BY <1>4 DEF GrantStack
    <2> PICK q : q = task[c].row.qty
      OBVIOUS
    <2>2. Sole(k) /\ d.stackable /\ d.max > 0 /\ Plus(q, n) = q + n /\ q \in Int
      BY <2>1, RegularGrant, WriteFacts DEF At, Int64
    <2>3. Gains(a, k, Capped(d, q, n) - q, a, k)
      BY <1>4, GrantStackGains
    <2>4. PICK r \in items : r.qty = q /\ r.inst = task[c].inst /\ r.item = k
      BY <2>1, HeldRow
    <2>5. OwnRows(a, k) = {r}
      BY <1>2, <2>2, <2>4 DEF ItemRows, StockInv, StocksSole
    <2>6. Stocked(a, k) = q
      <3>1. IsFiniteSet({}) /\ IsFiniteSet({r}) /\ {r} \ {r} = {}
        BY FS_EmptySet, FS_Singleton
      <3>2. Quantity({}) = 0
        BY <3>1, QuantityPick
      <3>3. Quantity({r}) = r.qty + Quantity({r} \ {r})
        BY <2>2, <2>4, <3>1, QuantityWithout
      <3>4. Quantity({r}) = q + 0
        BY <2>4, <3>1, <3>2, <3>3
      <3> QED  BY <2>2, <2>5, <3>4 DEF Stocked
    <2>7. Capped(d, q, n) = IF q + n > d.max THEN d.max ELSE q + n
      BY <2>2 DEF Capped
    <2>8. Min({d.max, q + n}) = IF q + n > d.max THEN d.max ELSE q + n
      BY <1>1, <2>2, MinOfTwo
    <2>9. Stocked(a, k)' = q + (Capped(d, q, n) - q)
      BY <2>3, <2>6 DEF Gains
    <2>10. q + (Capped(d, q, n) - q) = Capped(d, q, n)
      BY <1>1, <2>2, <2>7
    <2> QED  BY <2>2, <2>6, <2>7, <2>8, <2>9, <2>10
  <1> QED  BY <1>3, <1>4

\* A grant answered with 200 has added exactly its quantity, up to the limit.
THEOREM GrantsAddExactly ==
    ASSUME Exclusive, \A k \in Item : Regular(k)
    PROVE  Spec => GrantsAdd
  <1>1. ASSUME InventoryInv, InventoryInv', StockInv, [Next]_vars,
               NEW c \in Client, NEW a \in Avatar, NEW k \in Item,
               Acknowledged(c), At(c, "grant", "store"), faults' = 0,
               task[c].req.a = a, task[c].req.k = k
        PROVE  LET d == task[c].def
                   sum == Stocked(a, k) + task[c].req.n
               IN  Stocked(a, k)' = IF d.stackable /\ d.max > 0 THEN Min({d.max, sum}) ELSE sum
    <2>1. GrantStack(c) \/ GrantRow(c)
      BY <1>1, AcknowledgedBy
    <2>2. faults = 0
      BY <1>1, <2>1, StatementGrows DEF GrantStack, GrantRow
    <2> QED  BY <1>1, <2>1, <2>2, GrantExact
  <1>2. InventoryInv /\ InventoryInv' /\ StockInv /\ [Next]_vars =>
          [\A c \in Client, a \in Avatar, k \in Item :
             (/\ Acknowledged(c) /\ At(c, "grant", "store") /\ faults' = 0
              /\ task[c].req.a = a /\ task[c].req.k = k)
             => LET d == task[c].def
                    sum == Stocked(a, k) + task[c].req.n
                IN  Stocked(a, k)' = IF d.stackable /\ d.max > 0 THEN Min({d.max, sum})
                                     ELSE sum]_vars
    BY <1>1
  <1> QED  BY <1>2, StockInvariantHolds, PTL DEF Spec, GrantsAdd

\* An activation answered with 200 has taken exactly one item.
THEOREM ActivationsSpend ==
    ASSUME Exclusive, \A k \in Item : Regular(k)
    PROVE  Spec => ActivationsSpendUnlessFaults
  <1>1. ASSUME InventoryInv, StockInv, [Next]_vars,
               NEW c \in Client, NEW a \in Avatar, NEW k \in Item,
               Acknowledged(c), At(c, "activate", "spend"), faults' = 0,
               task[c].req.a = a, task[c].req.k = k
        PROVE  Stocked(a, k)' = Stocked(a, k) - 1
    <2>1. ActivateSpend(c)
      BY <1>1, AcknowledgedBy
    <2>2. task[c].row.id # 0
      BY <1>1, TaskFacts DEF At, TaskFits, FoundFits
    <2>3. task[c].row.qty >= 1
      BY <1>1, <2>2, HeldRow, RegularRows
    <2>4. Gains(a, k, -1, a, k)
      BY <1>1, <2>1, <2>3, SpendGains
    <2>5. Stocked(a, k) \in Int
      BY <1>1, StockedFacts
    <2> QED  BY <2>4, <2>5 DEF Gains
  <1>2. InventoryInv /\ StockInv /\ [Next]_vars =>
          [\A c \in Client, a \in Avatar, k \in Item :
             (/\ Acknowledged(c) /\ At(c, "activate", "spend") /\ faults' = 0
              /\ task[c].req.a = a /\ task[c].req.k = k)
             => Stocked(a, k)' = Stocked(a, k) - 1]_vars
    BY <1>1
  <1> QED  BY <1>2, StockInvariantHolds, PTL DEF Spec, ActivationsSpendUnlessFaults

\* Kits and grants never take anything.
LEMMA KitKeepsStock ==
    ASSUME InventoryInv, StockInv, NEW c \in Client, CreateKit(c), NEW a, NEW k, Regular(k)
    PROVE  Stocked(a, k)' \in Int /\ Stocked(a, k)' >= Stocked(a, k)
  <1>1. Stocked(a, k) \in Int
    BY StockedFacts
  <1>2. CASE Stocked(a, k)' = Stocked(a, k)
    BY <1>1, <1>2
  <1>3. CASE \E e \in task[c].req.kit : Gains(task[c].req.a, e.k, e.n, a, k)
    <2>1. PICK e \in task[c].req.kit : Gains(task[c].req.a, e.k, e.n, a, k)
      BY <1>3
    <2>2. task[c].req \in Workload[c] /\ task[c].req \in Request
      BY TaskFacts DEF CreateKit, At
    <2>3. e.n \in Int /\ e.k \in Item
      BY <2>2 DEF Request, Stock, Int64
    <2>4. e.k = k => e.n >= 1
      BY <2>2 DEF Regular, Loose, Moderate, Fits
    <2> QED  BY <1>1, <2>1, <2>3, <2>4 DEF Gains
  <1> QED  BY <1>2, <1>3, KitGains

LEMMA GrantKeepsStock ==
    ASSUME InventoryInv, StockInv, NEW c \in Client, GrantStack(c) \/ GrantRow(c),
           NEW a, NEW k, Regular(task[c].req.k), Steady(task[c].req.k)
    PROVE  Stocked(a, k)' \in Int /\ Stocked(a, k)' >= Stocked(a, k)
  <1> PICK d, n, q : d = task[c].def /\ n = task[c].req.n /\ q = task[c].row.qty
    OBVIOUS
  <1>1. At(c, "grant", "store")
    BY DEF GrantStack, GrantRow
  <1>2. /\ n \in Int64 /\ n \in Int /\ n > 0 /\ q \in Int /\ d.max \in Int
        /\ d \in Declared[task[c].req.k] /\ Stocked(a, k) \in Int
    BY <1>1, WriteFacts, StockedFacts DEF At, WellFormed, Task, Definition, Int64
  <1>3. ASSUME NEW x \in Int, x >= 0, Gains(task[c].req.a, task[c].req.k, x, a, k)
        PROVE  Stocked(a, k)' \in Int /\ Stocked(a, k)' >= Stocked(a, k)
    BY <1>2, <1>3 DEF Gains
  <1>4. CASE GrantRow(c)
    <2>1. Plus(0, n) = n
      BY <1>2, PlusFacts DEF Int64
    <2>2. Capped(d, 0, n) \in Int /\ Capped(d, 0, n) >= 0
      BY <1>2, <2>1 DEF Capped
    <2>3. \/ Stocked(a, k)' = Stocked(a, k)
          \/ Gains(task[c].req.a, task[c].req.k, Capped(d, 0, n), a, k)
      BY <1>4, GrantRowGains
    <2> QED  BY <1>2, <1>3, <2>2, <2>3
  <1>5. CASE GrantStack(c)
    <2>1. task[c].row.id # 0
      BY <1>5 DEF GrantStack
    <2>2. /\ d.stackable /\ d.max > 0 /\ Plus(q, n) = q + n
          /\ \E x \in Declared[task[c].req.k] : q <= x.max
      BY <1>1, <2>1, RegularGrant
    <2>3. q <= d.max
      BY <1>2, <2>2 DEF Steady
    <2>4. Capped(d, q, n) - q \in Int /\ Capped(d, q, n) - q >= 0
      BY <1>2, <2>2, <2>3 DEF Capped
    <2>5. \/ Stocked(a, k)' = Stocked(a, k)
          \/ Gains(task[c].req.a, task[c].req.k, Capped(d, q, n) - q, a, k)
      BY <1>5, GrantStackGains
    <2> QED  BY <1>2, <1>3, <2>4, <2>5
  <1> QED  BY <1>4, <1>5

\* Which handler takes items.
LEMMA StockTaken ==
    ASSUME InventoryInv, StockInv, [Next]_vars, NEW a \in Avatar, NEW k \in Item,
           \A l \in Item : Regular(l) /\ Steady(l), Stocked(a, k)' < Stocked(a, k)
    PROVE  \E c \in Client :
              /\ task[c].pc # "idle" /\ task[c].req.a = a
              /\ \/ task[c].pc \in {"purge", "remove"}
                 \/ /\ At(c, "activate", "spend") /\ task[c].req.k = k
                    /\ Stocked(a, k)' = Stocked(a, k) - 1
  <1>1. Stocked(a, k) \in Int /\ ~(Stocked(a, k)' \in Int /\ Stocked(a, k)' >= Stocked(a, k))
    BY StockedFacts
  <1>2. Stocked(a, k)' # Stocked(a, k)
    BY <1>1
  <1>3. ~UNCHANGED <<items, instances>>
    BY <1>2, StockedSame
  <1>4. ~UNCHANGED vars /\ ~Crash /\ \A l \in Item : ~DefineItem(l) /\ ~DropItem(l)
    BY <1>3 DEF vars, Crash, DefineItem, DropItem, tables
  <1>5. PICK c \in Client : Receive(c) \/ Reject(c) \/ Step(c)
    BY <1>4 DEF Next
  <1>6. \/ CreateInsert(c) \/ CreateConflict(c) \/ CreateKit(c)
        \/ DeletePurge(c) \/ DeleteRemove(c) \/ GrantStack(c) \/ GrantRow(c)
        \/ MarkEquipped(c, "equip") \/ MarkEquipped(c, "unequip") \/ ActivateSpend(c)
    BY <1>3, <1>5, ReadsStay DEF Step, Create, Delete, Grant, Equip, Unequip, Activate
  <1>7. ~CreateInsert(c) /\ ~CreateConflict(c)
    <2>1. ~InsertInstance(task[c].req.a)
      <3> PICK b : b = task[c].req.a
        OBVIOUS
      <3>1. ~InsertInstance(b)
        BY <1>2, InsertedStocks
      <3> QED  BY <3>1
    <2> QED  BY <1>3, <2>1 DEF CreateInsert, CreateConflict, tables
  <1>8. ~CreateKit(c)
    BY <1>1, KitKeepsStock
  <1>9. ~GrantStack(c) /\ ~GrantRow(c)
    <2> SUFFICES ASSUME GrantStack(c) \/ GrantRow(c)
                 PROVE  FALSE
      OBVIOUS
    <2>1. task[c].req.k \in Item
      BY WriteFacts DEF GrantStack, GrantRow, At
    <2> QED  BY <1>1, <2>1, GrantKeepsStock
  <1>10. ~MarkEquipped(c, "equip") /\ ~MarkEquipped(c, "unequip")
    BY <1>2, EquipGains
  <1>11. CASE DeletePurge(c) \/ DeleteRemove(c)
    <2>1. task[c].req.a = a
      BY <1>2, <1>11, DeletedStocks
    <2>2. task[c].pc \in {"purge", "remove"}
      BY <1>11 DEF DeletePurge, DeleteRemove, At
    <2> QED  BY <2>1, <2>2
  <1>12. CASE ActivateSpend(c)
    <2>1. At(c, "activate", "spend")
      BY <1>12 DEF ActivateSpend
    <2>2. task[c].row.id # 0 /\ task[c].req.k \in Item
      BY <2>1, TaskFacts DEF At, TaskFits, FoundFits
    <2>3. task[c].row.qty >= 1
      BY <2>2, HeldRow, RegularRows
    <2>4. Gains(task[c].req.a, task[c].req.k, -1, a, k)
      BY <1>2, <1>12, <2>3, SpendGains
    <2>5. task[c].req.a = a /\ task[c].req.k = k /\ Stocked(a, k)' = Stocked(a, k) - 1
      BY <1>1, <1>2, <2>4 DEF Gains
    <2> QED  BY <2>1, <2>5 DEF At
  <1> QED  BY <1>6, <1>7, <1>8, <1>9, <1>10, <1>11, <1>12

\* Items leave an avatar with its deletion, or one by one with an activation,
\* also when statements fail and handlers are cut off.
THEOREM StockIsKept ==
    ASSUME Exclusive, \A k \in Item : Regular(k) /\ Steady(k)
    PROVE  Spec => StockKept
  <1>1. ASSUME InventoryInv, StockInv, [Next]_vars, NEW a \in Avatar, NEW k \in Item,
               Stocked(a, k)' < Stocked(a, k)
        PROVE  \E c \in Client :
                 /\ task[c].req # NoRequest /\ task[c].req.a = a
                 /\ \/ task[c].pc \in {"purge", "remove"}
                    \/ /\ At(c, "activate", "spend") /\ task[c].req.k = k
                       /\ Stocked(a, k)' = Stocked(a, k) - 1
    <2>1. PICK c \in Client :
            /\ task[c].pc # "idle" /\ task[c].req.a = a
            /\ \/ task[c].pc \in {"purge", "remove"}
               \/ /\ At(c, "activate", "spend") /\ task[c].req.k = k
                  /\ Stocked(a, k)' = Stocked(a, k) - 1
      BY <1>1, StockTaken
    <2>2. task[c].req # NoRequest
      BY <1>1, <2>1, TaskFacts
    <2> QED  BY <2>1, <2>2
  <1>2. InventoryInv /\ StockInv /\ [Next]_vars =>
          [\A a \in Avatar, k \in Item :
             Stocked(a, k)' < Stocked(a, k) =>
                 \E c \in Client :
                    /\ task[c].req # NoRequest /\ task[c].req.a = a
                    /\ \/ task[c].pc \in {"purge", "remove"}
                       \/ /\ At(c, "activate", "spend") /\ task[c].req.k = k
                          /\ Stocked(a, k)' = Stocked(a, k) - 1]_vars
    BY <1>1
  <1> QED  BY <1>2, StockInvariantHolds, PTL DEF Spec, StockKept
=============================================================================
