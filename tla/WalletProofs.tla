---------------------------- MODULE WalletProofs ----------------------------
(***************************************************************************)
(* Proofs about Wallet for every value of its constants.  IInv is shown to *)
(* be inductive; type correctness and the safety properties follow.        *)
(***************************************************************************)
EXTENDS WalletInvariant, TLAPS

USE WalletAssumption DEF WalletAssumption

-----------------------------------------------------------------------------
(* The operators the actions are built from.                               *)

\* Adding a positive amount to a balance gives an int64, and the sum itself
\* unless it leaves int64.
LEMMA PlusFacts ==
    ASSUME NEW x \in Int64, NEW n \in Int64, n > 0
    PROVE  /\ Plus(x, n) \in Int64
           /\ x + n < IntLimit => Plus(x, n) = x + n
  BY DEF Plus, Int64

\* A lookup by name yields 0 or the id of an instance of that name.
LEMMA NamedFacts ==
    ASSUME TypeOK, NEW a \in Avatar, NEW ok \in BOOLEAN, NEW id \in Named(a, ok)
    PROVE  id = 0 \/ \E i \in instances : i.id = id /\ i.name = a
  BY DEF Named, Answer, First, InstanceRows

\* A lookup of a wallet row yields no row or a snapshot of one of the pair's.
LEMMA HeldFacts ==
    ASSUME NEW i, NEW k, NEW ok \in BOOLEAN, NEW held \in Held(i, k, ok)
    PROVE  \/ held = NoRow
           \/ \E w \in wallets : /\ w.inst = i /\ w.cur = k
                                 /\ held = [id |-> w.id, bal |-> w.bal]
  BY DEF Held, Answer, First, WalletRows

\* The tables of t after a change that keeps the owners of the rows known
\* before: what a handler knows about its rows stays true.
Evolved(rows, ni, nr) ==
    /\ nextInst <= ni /\ nextRow <= nr
    /\ \A w \in rows : \/ w.id >= nextRow
                       \/ \E v \in wallets : v.id = w.id /\ v.inst = w.inst /\ v.cur = w.cur

LEMMA TaskFitsEvolved ==
    ASSUME IInv, NEW c \in Client, NEW t \in Task,
           NEW rows \in SUBSET Balance, NEW ni \in Int, NEW nr \in Int, Evolved(rows, ni, nr),
           TaskFits(c, t, wallets, nextInst, nextRow)
    PROVE  TaskFits(c, t, rows, ni, nr)
  <1>1. nextInst \in Int /\ nextRow \in Int /\ wallets \subseteq Balance
    BY DEF IInv, TypeOK
  <1>2. IdsFit(t, rows, ni, nr)
    <2>0. /\ t.pc \notin {"store", "peer", "commit"} => t.row.id = 0
          /\ t.pc # "commit" => t.peerRow.id = 0
      BY DEF TaskFits, IdsFit
    <2>1. t.inst < ni /\ t.peer < ni /\ t.row.id < nr /\ t.peerRow.id < nr
      BY <1>1 DEF TaskFits, IdsFit, Evolved, Task, Snapshot, InstanceId, RowId
    <2>2. ASSUME NEW w \in rows
          PROVE  /\ t.row.id = w.id => w.inst = t.inst /\ w.cur = t.req.c
                 /\ t.peerRow.id = w.id => w.inst = t.peer /\ w.cur = t.req.c
      BY <1>1, <2>2 DEF TaskFits, IdsFit, Evolved, Task, Snapshot, RowId, Balance
    <2> QED  BY <2>0, <2>1, <2>2 DEF IdsFit
  <1> QED  BY <1>2 DEF TaskFits

-----------------------------------------------------------------------------
(* Steps of a handler.                                                     *)

\* The tables after a step are of their types and hold what TablesFit asks.
TablesKept ==
    /\ instances' \subseteq Instance /\ wallets' \subseteq Balance
    /\ defs' \in [Currency -> SUBSET Definition]
    /\ nextInst' \in 1 .. MaxInstance + 1 /\ nextRow' \in 1 .. MaxRow + 1
    /\ TablesFit'
    /\ Evolved(wallets', nextInst', nextRow')

LEMMA UnchangedTables ==
    ASSUME IInv, UNCHANGED tables
    PROVE  TablesKept
  BY DEF IInv, TypeOK, tables, TablesKept, TablesFit, RowsFit, Evolved

LEMMA StatementFacts ==
    ASSUME IInv, NEW ok \in BOOLEAN, Statement(ok)
    PROVE  faults' \in 0 .. MaxFaults
  BY DEF IInv, TypeOK, Statement

\* A handler that goes on with fitting local variables keeps the invariant.
LEMMA StepKeeps ==
    ASSUME IInv, NEW c \in Client, NEW t \in Task,
           task' = [task EXCEPT ![c] = t], reply' \in Reply, faults' \in 0 .. MaxFaults,
           TablesKept, TaskFits(c, t, wallets', nextInst', nextRow')
    PROVE  IInv'
  <1>1. task \in [Client -> Task]
    BY DEF IInv, TypeOK
  <1>2. TypeOK'
    BY <1>1 DEF TypeOK, TablesKept
  <1>3. ASSUME NEW d \in Client
        PROVE  TaskFits(d, task'[d], wallets', nextInst', nextRow')
    <2>1. CASE d = c
      BY <1>1, <2>1
    <2>2. CASE d # c
      <3>1. task'[d] = task[d] /\ task[d] \in Task
        BY <1>1, <2>2
      <3>2. TaskFits(d, task[d], wallets, nextInst, nextRow)
        BY DEF IInv
      <3>3. /\ wallets' \in SUBSET Balance /\ nextInst' \in Int /\ nextRow' \in Int
            /\ Evolved(wallets', nextInst', nextRow')
        BY DEF TablesKept
      <3> QED  BY <3>1, <3>2, <3>3, TaskFitsEvolved
    <2> QED  BY <2>1, <2>2
  <1> QED  BY <1>2, <1>3 DEF IInv, TablesKept

LEMMA IdleFits ==
    ASSUME NEW c \in Client, NEW rows \in SUBSET Balance,
           NEW ni \in Int, NEW nr \in Int, ni >= 1, nr >= 1
    PROVE  Idle \in Task /\ TaskFits(c, Idle, rows, ni, nr)
  <1>1. Idle \in Task
    BY DEF Idle, Task, PC, InstanceId, Definition, NoDefinition, Snapshot, NoRow, RowId, Int64
  <1>2. IdsFit(Idle, rows, ni, nr)
    BY DEF IdsFit, Idle, NoRow, Balance
  <1>3. RequestFits(c, Idle) /\ FoundFits(Idle) /\ TermsFit(Idle) /\ AmountsFit(Idle)
    BY DEF RequestFits, FoundFits, TermsFit, AmountsFit, Idle
  <1> QED  BY <1>1, <1>2, <1>3 DEF TaskFits

LEMMA RespondKeeps ==
    ASSUME IInv, NEW c \in Client, NEW ok \in BOOLEAN, NEW bal \in Int64,
           Respond(c, ok, bal), faults' \in 0 .. MaxFaults, TablesKept
    PROVE  IInv'
  <1>1. Idle \in Task /\ TaskFits(c, Idle, wallets', nextInst', nextRow')
    BY IdleFits DEF TablesKept
  <1>2. task' = [task EXCEPT ![c] = Idle] /\ reply' \in Reply
    BY DEF Respond, Reply
  <1> QED  BY <1>1, <1>2, StepKeeps

LEMMA RefuseKeeps ==
    ASSUME IInv, NEW c \in Client, Refuse(c), faults' \in 0 .. MaxFaults, TablesKept
    PROVE  IInv'
  <1>1. 0 \in Int64
    BY DEF Int64
  <1>2. Respond(c, FALSE, 0)
    BY DEF Refuse
  <1> QED  BY <1>1, <1>2, RespondKeeps

LEMMA ContinueKeeps ==
    ASSUME IInv, NEW c \in Client, NEW t \in Task, Continue(c, t),
           faults' \in 0 .. MaxFaults, TablesKept,
           TaskFits(c, t, wallets', nextInst', nextRow')
    PROVE  IInv'
  <1>1. task' = [task EXCEPT ![c] = t] /\ reply' \in Reply
    BY DEF Continue, NoReply, Reply, Int64
  <1> QED  BY <1>1, StepKeeps

-----------------------------------------------------------------------------
(* Steps that store wallet rows.                                           *)

\* Rows that may take the place of the wallets: those known before keep
\* their owners, and at most one is new.
Storable(rows) ==
    /\ \A w \in rows :
         /\ w \in [id : Nat \ {0}, inst : InstanceId \ {0}, cur : Currency, bal : Int64]
         /\ w.id <= nextRow /\ w.inst < nextInst /\ Legal(w.cur, w.bal)
         /\ \/ w.id = nextRow
            \/ \E v \in wallets : v.id = w.id /\ v.inst = w.inst /\ v.cur = w.cur
    /\ \A v, w \in rows : v.id = w.id => v = w

LEMMA WalletsStorable ==
    ASSUME IInv
    PROVE  Storable(wallets) /\ \A w \in wallets : w.id < nextRow
  BY DEF Storable, IInv, TypeOK, TablesFit, RowsFit, Balance, RowId

LEMMA SetBalanceStorable ==
    ASSUME NEW rows, Storable(rows), NEW id, NEW n \in Int64,
           \A w \in rows : w.id = id => Legal(w.cur, n)
    PROVE  /\ Storable(SetBalance(rows, id, n))
           /\ (\A w \in rows : w.id < nextRow)
                => \A w \in SetBalance(rows, id, n) : w.id < nextRow
  <1> DEFINE new == SetBalance(rows, id, n)
  <1>1. ASSUME NEW w \in new
        PROVE  \E v \in rows : w = IF v.id = id THEN [v EXCEPT !.bal = n] ELSE v
    BY <1>1 DEF SetBalance
  <1>2. ASSUME NEW v \in rows, NEW w, w = IF v.id = id THEN [v EXCEPT !.bal = n] ELSE v
        PROVE  /\ w \in [id : Nat \ {0}, inst : InstanceId \ {0}, cur : Currency, bal : Int64]
               /\ w.id = v.id /\ w.inst = v.inst /\ w.cur = v.cur
               /\ Legal(w.cur, w.bal)
    BY <1>2 DEF Storable
  <1> HIDE DEF new
  <1>3. ASSUME NEW w \in new
        PROVE  /\ w \in [id : Nat \ {0}, inst : InstanceId \ {0}, cur : Currency, bal : Int64]
               /\ w.id <= nextRow /\ w.inst < nextInst /\ Legal(w.cur, w.bal)
               /\ \/ w.id = nextRow
                  \/ \E v \in wallets : v.id = w.id /\ v.inst = w.inst /\ v.cur = w.cur
               /\ (\A v \in rows : v.id < nextRow) => w.id < nextRow
    <2>1. PICK v \in rows : w = IF v.id = id THEN [v EXCEPT !.bal = n] ELSE v
      BY <1>1, <1>3
    <2> QED  BY <1>2, <2>1 DEF Storable
  <1>4. ASSUME NEW v \in new, NEW w \in new, v.id = w.id
        PROVE  v = w
    <2>1. PICK x \in rows : v = IF x.id = id THEN [x EXCEPT !.bal = n] ELSE x
      BY <1>1, <1>4
    <2>2. PICK y \in rows : w = IF y.id = id THEN [y EXCEPT !.bal = n] ELSE y
      BY <1>1, <1>4
    <2>3. x.id = y.id
      BY <1>2, <1>4, <2>1, <2>2
    <2> QED  BY <2>1, <2>2, <2>3 DEF Storable
  <1>5. Storable(new)
    BY <1>3, <1>4 DEF Storable
  <1> QED  BY <1>3, <1>5 DEF new

LEMMA InsertStorable ==
    ASSUME IInv, NEW rows, Storable(rows), \A w \in rows : w.id < nextRow,
           NEW i \in InstanceId \ {0}, i < nextInst, NEW k \in Currency, NEW n \in Int64,
           Legal(k, n)
    PROVE  Storable(InsertWallet(rows, i, k, n))
  <1>1. nextRow \in Nat \ {0}
    BY DEF IInv, TypeOK
  <1> QED  BY <1>1 DEF Storable, InsertWallet

LEMMA StoreKeepsTables ==
    ASSUME IInv, NEW rows, Storable(rows), StoreWallets(rows)
    PROVE  TablesKept
  <1>1. /\ nextRow \in 1 .. MaxRow + 1 /\ nextRow' \in 1 .. MaxRow + 1 /\ nextRow <= nextRow'
        /\ \A w \in rows : w.id < nextRow'
    BY DEF IInv, TypeOK, StoreWallets, Storable
  <1>2. /\ wallets' = rows /\ instances' = instances /\ defs' = defs /\ nextInst' = nextInst
    BY DEF StoreWallets
  <1>3. wallets' \subseteq Balance
    BY <1>1, <1>2 DEF Storable, Balance, RowId
  <1>4. TablesFit'
    BY <1>1, <1>2 DEF IInv, TablesFit, RowsFit, Storable
  <1>5. Evolved(wallets', nextInst', nextRow')
    BY <1>1, <1>2 DEF Evolved, Storable, IInv, TypeOK
  <1> QED  BY <1>1, <1>2, <1>3, <1>4, <1>5 DEF IInv, TypeOK, TablesKept

-----------------------------------------------------------------------------
(* Every action keeps the invariant: arrival, creation and deletion.       *)

LEMMA TaskFacts ==
    ASSUME IInv, NEW c \in Client
    PROVE  /\ task[c] \in Task
           /\ TaskFits(c, task[c], wallets, nextInst, nextRow)
           /\ task[c].pc # "idle" => task[c].req \in Request /\ WellFormed(task[c].req)
  <1>1. task[c] \in Task /\ TaskFits(c, task[c], wallets, nextInst, nextRow)
    BY DEF IInv, TypeOK
  <1>2. task[c].pc # "idle" => task[c].req \in Request /\ WellFormed(task[c].req)
    BY <1>1 DEF TaskFits, RequestFits
  <1> QED  BY <1>1, <1>2

\* What LocalStep needs of the tables, when the step leaves them alone.
LEMMA SameTables ==
    ASSUME IInv, UNCHANGED tables
    PROVE  /\ TablesKept
           /\ wallets' = wallets /\ nextInst' = nextInst /\ nextRow' = nextRow
  BY UnchangedTables DEF tables

LEMMA InsertKeepsTables ==
    ASSUME IInv, NEW a \in Avatar, InsertInstance(a)
    PROVE  TablesKept
  <1>1. /\ instances' = instances \cup {[id |-> nextInst, name |-> a]}
        /\ nextInst \in 1 .. MaxInstance /\ nextInst' = nextInst + 1
        /\ wallets' = wallets /\ defs' = defs /\ nextRow' = nextRow
    BY DEF InsertInstance, NewInstance, IInv, TypeOK
  <1>2. instances' \subseteq Instance
    BY <1>1 DEF IInv, TypeOK, Instance, InstanceId
  <1>3. TablesFit'
    BY <1>1 DEF IInv, TypeOK, TablesFit, RowsFit, Balance, InstanceId, Instance
  <1> QED  BY <1>1, <1>2, <1>3 DEF IInv, TypeOK, TablesKept, Evolved

LEMMA ReceiveKeeps ==
    ASSUME IInv, NEW c \in Client, Receive(c)
    PROVE  IInv'
  <1>1. PICK r \in Workload[c] :
          WellFormed(r) /\ Continue(c, [Idle EXCEPT !.pc = FirstStep(r), !.req = r])
    BY DEF Receive
  <1> DEFINE t == [Idle EXCEPT !.pc = FirstStep(r), !.req = r]
  <1>2. TablesKept /\ wallets' = wallets /\ nextInst' = nextInst /\ nextRow' = nextRow
    BY SameTables DEF Receive
  <1>3. faults' \in 0 .. MaxFaults
    BY DEF Receive, IInv, TypeOK
  <1>4. r \in Request /\ FirstStep(r) \in {"insert", "target", "currency", "avatar"}
    BY DEF FirstStep
  <1>5. Idle \in Task /\ TaskFits(c, Idle, wallets, nextInst, nextRow)
    BY IdleFits DEF IInv, TypeOK
  <1>6. t \in Task
    BY <1>4, <1>5 DEF Task, Idle, PC
  <1>7. TaskFits(c, t, wallets, nextInst, nextRow)
    <2>1. RequestFits(c, t) /\ FoundFits(t) /\ TermsFit(t) /\ AmountsFit(t)
      BY <1>1, <1>4 DEF RequestFits, FoundFits, FirstStep, TermsFit, AmountsFit, Idle
    <2>2. IdsFit(t, wallets, nextInst, nextRow)
      BY <1>5 DEF TaskFits, IdsFit, Idle, NoRow, IInv, TypeOK, Balance
    <2> QED  BY <2>1, <2>2 DEF TaskFits
  <1> QED  BY <1>1, <1>2, <1>3, <1>6, <1>7, ContinueKeeps

\* Changing the program counter to a step that asks for nothing new.
LEMMA PcOnly ==
    ASSUME NEW c \in Client, NEW t \in Task, NEW rows, NEW ni, NEW nr,
           TaskFits(c, t, rows, ni, nr),
           t.pc \notin {"idle", "store", "peer", "commit"},
           NEW p \in {"list", "endow", "remove"}, t.inst # 0 \/ p = "remove"
    PROVE  /\ [t EXCEPT !.pc = p] \in Task
           /\ TaskFits(c, [t EXCEPT !.pc = p], rows, ni, nr)
  BY DEF TaskFits, RequestFits, FoundFits, IdsFit, TermsFit, AmountsFit, Task, PC

LEMMA RejectKeeps ==
    ASSUME IInv, NEW c \in Client, Reject(c) \/ CreateRefused(c)
    PROVE  IInv'
  <1>1. Refuse(c) /\ UNCHANGED tables /\ faults' = faults
    BY DEF Reject, CreateRefused
  <1> QED  BY <1>1, SameTables, RefuseKeeps DEF IInv, TypeOK

LEMMA CreateChildrenKeeps ==
    ASSUME IInv, NEW c \in Client, CreateChildren(c)
    PROVE  IInv'
  <1>1. PICK ok \in BOOLEAN :
          /\ Statement(ok)
          /\ IF ok THEN Continue(c, [task[c] EXCEPT !.pc = "list"]) ELSE Refuse(c)
    BY DEF CreateChildren
  <1>2. faults' \in 0 .. MaxFaults
    BY <1>1, StatementFacts
  <1>3. TablesKept /\ wallets' = wallets /\ nextInst' = nextInst /\ nextRow' = nextRow
    BY SameTables DEF CreateChildren
  <1>4. CASE ~ok
    BY <1>1, <1>2, <1>3, <1>4, RefuseKeeps
  <1>5. CASE ok
    <2> DEFINE t == [task[c] EXCEPT !.pc = "list"]
    <2>1. t \in Task /\ TaskFits(c, t, wallets, nextInst, nextRow)
      <3>1. task[c] \in Task /\ TaskFits(c, task[c], wallets, nextInst, nextRow)
        BY TaskFacts
      <3>2. task[c].pc = "children" /\ task[c].inst # 0
        BY <3>1 DEF CreateChildren, At, TaskFits, FoundFits
      <3> QED  BY <3>1, <3>2, PcOnly
    <2>2. Continue(c, t)
      BY <1>1, <1>5
    <2> HIDE DEF t
    <2> QED  BY <1>2, <1>3, <2>1, <2>2, ContinueKeeps
  <1> QED  BY <1>4, <1>5

LEMMA CreateInsertKeeps ==
    ASSUME IInv, NEW c \in Client, CreateInsert(c)
    PROVE  IInv'
  <1> DEFINE t == [task[c] EXCEPT !.pc = "children", !.inst = nextInst]
  <1>0. task[c].req.a \in Avatar
    BY TaskFacts DEF CreateInsert, At, Request
  <1>1. TablesKept
    BY <1>0, InsertKeepsTables DEF CreateInsert
  <1>2. task[c] \in Task /\ TaskFits(c, task[c], wallets, nextInst, nextRow)
    BY TaskFacts
  <1>3. /\ nextInst \in 1 .. MaxInstance /\ nextInst' = nextInst + 1
        /\ wallets' = wallets /\ nextRow' = nextRow
    BY DEF CreateInsert, InsertInstance, IInv, TypeOK
  <1>4. t \in Task
    <2>1. task[c] \in Task /\ nextInst \in InstanceId
      BY <1>2, <1>3 DEF InstanceId
    <2> QED  BY <2>1 DEF Task, PC
  <1>5. wallets \subseteq Balance
    BY DEF IInv, TypeOK
  <1>6. IdsFit(t, wallets', nextInst', nextRow')
    BY <1>2, <1>3, <1>5 DEF TaskFits, IdsFit, Task, InstanceId, Balance, RowId, At, CreateInsert
  <1>7. RequestFits(c, t) /\ FoundFits(t) /\ TermsFit(t) /\ AmountsFit(t)
    BY <1>2, <1>3 DEF TaskFits, RequestFits, FoundFits, TermsFit, AmountsFit, Task, At, CreateInsert
  <1>8. TaskFits(c, t, wallets', nextInst', nextRow')
    BY <1>6, <1>7 DEF TaskFits
  <1>9. Continue(c, t) /\ faults' \in 0 .. MaxFaults
    BY DEF CreateInsert, IInv, TypeOK
  <1> HIDE DEF t
  <1> QED  BY <1>1, <1>4, <1>8, <1>9, ContinueKeeps

LEMMA CreateConflictKeeps ==
    ASSUME IInv, NEW c \in Client, CreateConflict(c)
    PROVE  IInv'
  <1>0. task[c].req.a \in Avatar
    BY TaskFacts DEF CreateConflict, At, Request
  <1>1. TablesKept
    BY <1>0, InsertKeepsTables, UnchangedTables DEF CreateConflict, tables
  <1>2. faults' \in 0 .. MaxFaults
    BY StatementFacts DEF CreateConflict, IInv, TypeOK
  <1>3. Refuse(c)
    BY DEF CreateConflict
  <1> QED  BY <1>1, <1>2, <1>3, RefuseKeeps

LEMMA CreateListKeeps ==
    ASSUME IInv, NEW c \in Client, CreateList(c)
    PROVE  IInv'
  <1>1. PICK ok \in BOOLEAN :
          /\ Statement(ok)
          /\ Continue(c, [task[c] EXCEPT !.pc = "endow",
                                         !.todo = IF ok THEN Endowments ELSE {}])
    BY DEF CreateList
  <1> DEFINE t == [task[c] EXCEPT !.pc = "endow", !.todo = IF ok THEN Endowments ELSE {}]
  <1>2. faults' \in 0 .. MaxFaults
    BY <1>1, StatementFacts
  <1>3. TablesKept /\ wallets' = wallets /\ nextInst' = nextInst /\ nextRow' = nextRow
    BY SameTables DEF CreateList
  <1>4. task[c] \in Task /\ TaskFits(c, task[c], wallets, nextInst, nextRow)
    BY TaskFacts
  <1>5. ASSUME NEW e \in Endowments
        PROVE  /\ e \in [cur : Currency, n : Int64]
               /\ \E d \in Declared[e.cur] : e.n = d.initial /\ e.n > 0
    <2>1. PICK k \in Currency :
            \E d \in defs[k] : e = [cur |-> k, n |-> d.initial] /\ d.initial > 0
      BY <1>5 DEF Endowments
    <2>2. PICK d \in defs[k] : e = [cur |-> k, n |-> d.initial] /\ d.initial > 0
      BY <2>1
    <2>3. d \in Declared[k] /\ d \in Definition
      BY <2>2 DEF IInv, TablesFit, TypeOK
    <2> QED  BY <2>2, <2>3 DEF Definition
  <1>6. t \in Task
    BY <1>4, <1>5 DEF Task, PC
  <1>7. RequestFits(c, t) /\ FoundFits(t) /\ AmountsFit(t) /\ IdsFit(t, wallets, nextInst, nextRow)
    BY <1>4 DEF TaskFits, RequestFits, FoundFits, AmountsFit, IdsFit, Task, At, CreateList
  <1>8. TermsFit(t)
    BY <1>4, <1>5 DEF TermsFit, Task
  <1>9. Continue(c, t) /\ TaskFits(c, t, wallets, nextInst, nextRow)
    BY <1>1, <1>7, <1>8 DEF TaskFits
  <1> HIDE DEF t
  <1> QED  BY <1>2, <1>3, <1>6, <1>9, ContinueKeeps

LEMMA CreateReplyKeeps ==
    ASSUME IInv, NEW c \in Client, CreateReply(c)
    PROVE  IInv'
  <1>1. Respond(c, TRUE, 0) /\ UNCHANGED tables
    BY DEF CreateReply
  <1>2. faults' \in 0 .. MaxFaults /\ 0 \in Int64
    BY DEF CreateReply, IInv, TypeOK, Int64
  <1> QED  BY <1>1, <1>2, SameTables, RespondKeeps

LEMMA CreateEndowKeeps ==
    ASSUME IInv, NEW c \in Client, CreateEndow(c)
    PROVE  IInv'
  <1>1. PICK e \in task[c].todo, ok \in BOOLEAN :
          /\ Statement(ok)
          /\ StoreWallets(IF ok THEN InsertWallet(wallets, task[c].inst, e.cur, e.n)
                          ELSE wallets)
          /\ Continue(c, [task[c] EXCEPT !.todo = @ \ {e}])
    BY DEF CreateEndow
  <1> DEFINE t == [task[c] EXCEPT !.todo = @ \ {e}]
             rows == IF ok THEN InsertWallet(wallets, task[c].inst, e.cur, e.n) ELSE wallets
  <1>2. task[c] \in Task /\ TaskFits(c, task[c], wallets, nextInst, nextRow)
    BY TaskFacts
  <1>3. task[c].pc = "endow" /\ task[c].inst \in InstanceId \ {0} /\ task[c].inst < nextInst
    BY <1>2 DEF CreateEndow, At, TaskFits, FoundFits, IdsFit, Task
  <1>4. e.cur \in Currency /\ e.n \in Int64 /\ Legal(e.cur, e.n)
    <2>1. e \in [cur : Currency, n : Int64]
      BY <1>2 DEF Task
    <2>2. PICK d \in Declared[e.cur] : e.n = d.initial /\ e.n > 0
      BY <1>2 DEF TaskFits, TermsFit
    <2>3. d \in Definition
      BY <2>1
    <2> QED  BY <2>1, <2>2, <2>3 DEF Legal, Capped, Bounded, Definition, Int64
  <1>5. Storable(rows)
    BY <1>3, <1>4, WalletsStorable, InsertStorable
  <1>6. StoreWallets(rows)
    BY <1>1
  <1> HIDE DEF rows
  <1>7. TablesKept
    BY <1>5, <1>6, StoreKeepsTables
  <1>8. t \in Task
    BY <1>2 DEF Task
  <1>9. TaskFits(c, t, wallets, nextInst, nextRow)
    BY <1>2 DEF TaskFits, RequestFits, FoundFits, IdsFit, TermsFit, AmountsFit, Task
  <1>10. Continue(c, t) /\ faults' \in 0 .. MaxFaults
    BY <1>1, StatementFacts
  <1> HIDE DEF t
  <1>11. TaskFits(c, t, wallets', nextInst', nextRow')
    BY <1>7, <1>8, <1>9, TaskFitsEvolved DEF TablesKept
  <1> QED  BY <1>7, <1>8, <1>10, <1>11, ContinueKeeps

\* An id found by name is one of an instance.
LEMMA NamedIds ==
    ASSUME IInv, NEW a \in Avatar, NEW ok \in BOOLEAN, NEW id \in Named(a, ok), id # 0
    PROVE  id \in InstanceId \ {0} /\ id < nextInst
  BY NamedFacts DEF IInv, TypeOK, TablesFit, Instance

LEMMA DeleteFindKeeps ==
    ASSUME IInv, NEW c \in Client, DeleteFind(c)
    PROVE  IInv'
  <1>0. PICK ok \in BOOLEAN :
          /\ Statement(ok)
          /\ \E id \in Named(task[c].req.a, ok) :
               IF id = 0 THEN Refuse(c)
               ELSE Continue(c, [task[c] EXCEPT !.pc = "purge", !.inst = id])
    BY DEF DeleteFind
  <1>1. PICK id \in Named(task[c].req.a, ok) :
          IF id = 0 THEN Refuse(c)
          ELSE Continue(c, [task[c] EXCEPT !.pc = "purge", !.inst = id])
    BY <1>0
  <1>2. TablesKept /\ wallets' = wallets /\ nextInst' = nextInst /\ nextRow' = nextRow
    BY SameTables DEF DeleteFind
  <1>3. faults' \in 0 .. MaxFaults
    BY <1>0, StatementFacts
  <1>4. CASE id = 0
    BY <1>1, <1>2, <1>3, <1>4, RefuseKeeps
  <1>5. CASE id # 0
    <2> DEFINE t == [task[c] EXCEPT !.pc = "purge", !.inst = id]
    <2>1. /\ task[c] \in Task /\ TaskFits(c, task[c], wallets, nextInst, nextRow)
          /\ task[c].pc = "target" /\ task[c].req.a \in Avatar
      BY TaskFacts DEF DeleteFind, At, Request
    <2>2. id \in InstanceId \ {0} /\ id < nextInst
      BY <1>1, <1>5, <2>1, NamedIds
    <2>3. t \in Task
      BY <2>1, <2>2 DEF Task, PC
    <2>4. TaskFits(c, t, wallets, nextInst, nextRow)
      BY <2>1, <2>2 DEF TaskFits, RequestFits, FoundFits, IdsFit, TermsFit, AmountsFit, Task,
                        IInv, TypeOK, Balance
    <2>5. Continue(c, t)
      BY <1>1, <1>5
    <2> HIDE DEF t
    <2> QED  BY <1>2, <1>3, <2>3, <2>4, <2>5, ContinueKeeps
  <1> QED  BY <1>4, <1>5

LEMMA DeletePurgeKeeps ==
    ASSUME IInv, NEW c \in Client, DeletePurge(c)
    PROVE  IInv'
  <1> DEFINE t == [task[c] EXCEPT !.pc = "remove"]
  <1>1. /\ wallets' \subseteq wallets /\ instances' = instances /\ defs' = defs
        /\ nextInst' = nextInst /\ nextRow' = nextRow /\ faults' \in 0 .. MaxFaults
    BY StatementFacts DEF DeletePurge, Purged
  <1>2. TablesKept
    BY <1>1 DEF IInv, TypeOK, TablesKept, TablesFit, RowsFit, Evolved
  <1>3. task[c] \in Task /\ TaskFits(c, task[c], wallets, nextInst, nextRow)
    BY TaskFacts
  <1>4. t \in Task /\ TaskFits(c, t, wallets, nextInst, nextRow)
    BY <1>3, PcOnly DEF DeletePurge, At
  <1>5. Continue(c, t)
    BY DEF DeletePurge
  <1> HIDE DEF t
  <1>6. TaskFits(c, t, wallets', nextInst', nextRow')
    BY <1>2, <1>4, TaskFitsEvolved DEF TablesKept
  <1> QED  BY <1>1, <1>2, <1>4, <1>5, <1>6, ContinueKeeps

LEMMA DeleteRemoveKeeps ==
    ASSUME IInv, NEW c \in Client, DeleteRemove(c)
    PROVE  IInv'
  <1>1. /\ instances' \subseteq instances /\ wallets' = wallets /\ defs' = defs
        /\ nextInst' = nextInst /\ nextRow' = nextRow /\ faults' \in 0 .. MaxFaults
    BY StatementFacts DEF DeleteRemove
  <1>2. TablesKept
    BY <1>1 DEF IInv, TypeOK, TablesKept, TablesFit, RowsFit, Evolved
  <1>3. 0 \in Int64
    BY DEF Int64
  <1>4. Respond(c, TRUE, 0)
    BY DEF DeleteRemove
  <1> QED  BY <1>1, <1>2, <1>3, <1>4, RespondKeeps

-----------------------------------------------------------------------------
(* Every action keeps the invariant: credits, debits and transfers.        *)

\* A sum that passes the check of the maximum is one a credit may arrive at.
LEMMA CreditLegal ==
    ASSUME NEW c \in Client, NEW r \in Workload[c], r.n > 0,
           NEW d \in Declared[r.c], NEW bal \in Int64, bal = 0 \/ Legal(r.c, bal),
           ~ExceedsMax(d, bal, r.n)
    PROVE  Creditable(r.c, Plus(bal, r.n))
  <1> SUFFICES ASSUME Capped(r.c), SmallAmounts(r.c)
               PROVE  Plus(bal, r.n) >= 0 /\ \E x \in Declared[r.c] : Plus(bal, r.n) <= x.max
    BY DEF Creditable
  <1>1. r \in Request /\ r.n \in Int64 /\ r.c \in Currency
    BY DEF Request
  <1>2. \A x \in Declared[r.c] : x \in Definition /\ x.max \in Int64 /\ x.initial \in Int64
    BY <1>1 DEF Definition
  <1>3. bal >= 0 /\ bal + r.n < IntLimit
    <2>1. CASE bal = 0
      BY <1>1, <2>1 DEF Int64
    <2>2. CASE Legal(r.c, bal)
      <3>1. bal >= 0 /\ \E x \in Declared[r.c] : bal <= x.max \/ bal <= x.initial
        BY <2>2 DEF Legal, Bounded
      <3>2. PICK x \in Declared[r.c] : bal <= x.max \/ bal <= x.initial
        BY <3>1
      <3>3. x.max + r.n < IntLimit /\ x.initial + r.n < IntLimit
        BY DEF SmallAmounts
      <3> QED  BY <1>1, <1>2, <3>1, <3>2, <3>3 DEF Int64
    <2> QED  BY <2>1, <2>2
  <1>4. Plus(bal, r.n) = bal + r.n
    BY <1>1, <1>3, PlusFacts
  <1>5. d.max > 0 /\ bal + r.n <= d.max
    BY <1>1, <1>2, <1>4 DEF Capped, ExceedsMax, Int64
  <1> QED  BY <1>1, <1>3, <1>4, <1>5 DEF Int64

\* And it may be stored.
LEMMA CreditableIsLegal ==
    ASSUME NEW k, NEW n, Creditable(k, n)
    PROVE  Legal(k, n)
  BY DEF Creditable, Legal, Bounded

\* What is left after taking an amount that is there may be stored.
LEMMA DebitLegal ==
    ASSUME NEW k \in Currency, NEW bal \in Int64, NEW n \in Int64, n > 0, n <= bal, Legal(k, bal)
    PROVE  bal - n \in Int64 /\ Legal(k, bal - n)
  <1>1. bal - n \in Int64
    BY DEF Int64
  <1>2. \A d \in Declared[k] : d.max \in Int64 /\ d.initial \in Int64
    BY DEF Definition
  <1> QED  BY <1>1, <1>2 DEF Legal, Bounded, Int64

\* A snapshot that was just read is one of the pair's row.
LEMMA HeldLegal ==
    ASSUME IInv, NEW i, NEW k \in Currency, NEW ok \in BOOLEAN, NEW held \in Held(i, k, ok)
    PROVE  /\ held \in Snapshot /\ held.id < nextRow
           /\ held.bal = 0 \/ Legal(k, held.bal)
           /\ held.id # 0 => Legal(k, held.bal)
           /\ \A w \in wallets : held.id = w.id => w.inst = i /\ w.cur = k
  <1>1. CASE held = NoRow
    BY <1>1 DEF NoRow, Snapshot, RowId, Int64, IInv, TypeOK, Balance
  <1>2. CASE held # NoRow
    <2>1. PICK w \in wallets : w.inst = i /\ w.cur = k /\ held = [id |-> w.id, bal |-> w.bal]
      BY <1>2, HeldFacts
    <2>2. w \in Balance /\ w.id < nextRow /\ Legal(w.cur, w.bal)
          /\ \A v \in wallets : v.id = w.id => v = w
      BY DEF IInv, TypeOK, TablesFit, RowsFit
    <2> QED  BY <2>1, <2>2 DEF Balance, Snapshot, RowId
  <1> QED  BY <1>1, <1>2

LEMMA FindAvatarKeeps ==
    ASSUME IInv, NEW c \in Client, FindAvatar(c)
    PROVE  IInv'
  <1>0. PICK ok \in BOOLEAN :
          /\ Statement(ok)
          /\ \E id \in Named(task[c].req.a, ok) :
               IF id = 0 THEN Refuse(c)
               ELSE Continue(c, [task[c] EXCEPT !.pc = "currency", !.inst = id])
    BY DEF FindAvatar
  <1>1. PICK id \in Named(task[c].req.a, ok) :
          IF id = 0 THEN Refuse(c)
          ELSE Continue(c, [task[c] EXCEPT !.pc = "currency", !.inst = id])
    BY <1>0
  <1>2. TablesKept /\ wallets' = wallets /\ nextInst' = nextInst /\ nextRow' = nextRow
    BY SameTables DEF FindAvatar
  <1>3. faults' \in 0 .. MaxFaults
    BY <1>0, StatementFacts
  <1>4. CASE id = 0
    BY <1>1, <1>2, <1>3, <1>4, RefuseKeeps
  <1>5. CASE id # 0
    <2> DEFINE t == [task[c] EXCEPT !.pc = "currency", !.inst = id]
    <2>1. /\ task[c] \in Task /\ TaskFits(c, task[c], wallets, nextInst, nextRow)
          /\ task[c].pc = "avatar" /\ task[c].req.a \in Avatar
      BY TaskFacts DEF FindAvatar, At, Request
    <2>2. id \in InstanceId \ {0} /\ id < nextInst
      BY <1>1, <1>5, <2>1, NamedIds
    <2>3. t \in Task
      BY <2>1, <2>2 DEF Task, PC
    <2>4. TaskFits(c, t, wallets, nextInst, nextRow)
      BY <2>1, <2>2 DEF TaskFits, RequestFits, FoundFits, IdsFit, TermsFit, AmountsFit, Task,
                        IInv, TypeOK, Balance
    <2>5. Continue(c, t)
      BY <1>1, <1>5
    <2> HIDE DEF t
    <2> QED  BY <1>2, <1>3, <2>3, <2>4, <2>5, ContinueKeeps
  <1> QED  BY <1>4, <1>5

LEMMA TransferSenderKeeps ==
    ASSUME IInv, NEW c \in Client, TransferSender(c)
    PROVE  IInv'
  <1>0. PICK ok \in BOOLEAN :
          /\ Statement(ok)
          /\ \E id \in Named(task[c].req.a, ok) :
               IF id = 0 THEN Refuse(c)
               ELSE Continue(c, [task[c] EXCEPT !.pc = "receiver", !.inst = id])
    BY DEF TransferSender
  <1>1. PICK id \in Named(task[c].req.a, ok) :
          IF id = 0 THEN Refuse(c)
          ELSE Continue(c, [task[c] EXCEPT !.pc = "receiver", !.inst = id])
    BY <1>0
  <1>2. TablesKept /\ wallets' = wallets /\ nextInst' = nextInst /\ nextRow' = nextRow
    BY SameTables DEF TransferSender
  <1>3. faults' \in 0 .. MaxFaults
    BY <1>0, StatementFacts
  <1>4. CASE id = 0
    BY <1>1, <1>2, <1>3, <1>4, RefuseKeeps
  <1>5. CASE id # 0
    <2> DEFINE t == [task[c] EXCEPT !.pc = "receiver", !.inst = id]
    <2>1. /\ task[c] \in Task /\ TaskFits(c, task[c], wallets, nextInst, nextRow)
          /\ task[c].pc = "sender" /\ task[c].req.a \in Avatar
      BY TaskFacts DEF TransferSender, At, Request
    <2>2. id \in InstanceId \ {0} /\ id < nextInst
      BY <1>1, <1>5, <2>1, NamedIds
    <2>3. t \in Task
      BY <2>1, <2>2 DEF Task, PC
    <2>4. TaskFits(c, t, wallets, nextInst, nextRow)
      BY <2>1, <2>2 DEF TaskFits, RequestFits, FoundFits, IdsFit, TermsFit, AmountsFit, Task,
                        IInv, TypeOK, Balance
    <2>5. Continue(c, t)
      BY <1>1, <1>5
    <2> HIDE DEF t
    <2> QED  BY <1>2, <1>3, <2>3, <2>4, <2>5, ContinueKeeps
  <1> QED  BY <1>4, <1>5

LEMMA TransferReceiverKeeps ==
    ASSUME IInv, NEW c \in Client, TransferReceiver(c)
    PROVE  IInv'
  <1>0. PICK ok \in BOOLEAN :
          /\ Statement(ok)
          /\ \E id \in Named(task[c].req.b, ok) :
               IF id = 0 THEN Refuse(c)
               ELSE Continue(c, [task[c] EXCEPT !.pc = "funds", !.peer = id])
    BY DEF TransferReceiver
  <1>1. PICK id \in Named(task[c].req.b, ok) :
          IF id = 0 THEN Refuse(c)
          ELSE Continue(c, [task[c] EXCEPT !.pc = "funds", !.peer = id])
    BY <1>0
  <1>2. TablesKept /\ wallets' = wallets /\ nextInst' = nextInst /\ nextRow' = nextRow
    BY SameTables DEF TransferReceiver
  <1>3. faults' \in 0 .. MaxFaults
    BY <1>0, StatementFacts
  <1>4. CASE id = 0
    BY <1>1, <1>2, <1>3, <1>4, RefuseKeeps
  <1>5. CASE id # 0
    <2> DEFINE t == [task[c] EXCEPT !.pc = "funds", !.peer = id]
    <2>1. /\ task[c] \in Task /\ TaskFits(c, task[c], wallets, nextInst, nextRow)
          /\ task[c].pc = "receiver" /\ task[c].req.b \in Avatar
      BY TaskFacts DEF TransferReceiver, At, Request
    <2>2. id \in InstanceId \ {0} /\ id < nextInst
      BY <1>1, <1>5, <2>1, NamedIds
    <2>3. t \in Task
      BY <2>1, <2>2 DEF Task, PC
    <2>4. TaskFits(c, t, wallets, nextInst, nextRow)
      BY <2>1, <2>2 DEF TaskFits, RequestFits, FoundFits, IdsFit, TermsFit, AmountsFit, Task,
                        IInv, TypeOK, Balance
    <2>5. Continue(c, t)
      BY <1>1, <1>5
    <2> HIDE DEF t
    <2> QED  BY <1>2, <1>3, <2>3, <2>4, <2>5, ContinueKeeps
  <1> QED  BY <1>4, <1>5

LEMMA FindCurrencyKeeps ==
    ASSUME IInv, NEW c \in Client, FindCurrency(c)
    PROVE  IInv'
  <1> DEFINE usable == {d \in defs[task[c].req.c] : task[c].req.op = "transfer" => d.tradeable}
             next == IF task[c].req.op = "transfer" THEN "sender" ELSE "balance"
  <1>1. PICK ok \in BOOLEAN :
          /\ Statement(ok)
          /\ IF ok /\ usable # {}
             THEN \E d \in usable : Continue(c, [task[c] EXCEPT !.pc = next, !.def = d])
             ELSE Refuse(c)
    BY DEF FindCurrency
  <1>2. TablesKept /\ wallets' = wallets /\ nextInst' = nextInst /\ nextRow' = nextRow
    BY SameTables DEF FindCurrency
  <1>3. faults' \in 0 .. MaxFaults
    BY <1>1, StatementFacts
  <1>4. CASE ~(ok /\ usable # {})
    BY <1>1, <1>2, <1>3, <1>4, RefuseKeeps
  <1>5. CASE ok /\ usable # {}
    <2>1. PICK d \in usable : Continue(c, [task[c] EXCEPT !.pc = next, !.def = d])
      BY <1>1, <1>5
    <2> DEFINE t == [task[c] EXCEPT !.pc = next, !.def = d]
    <2>2. /\ task[c] \in Task /\ TaskFits(c, task[c], wallets, nextInst, nextRow)
          /\ task[c].pc = "currency" /\ task[c].req.c \in Currency
      BY TaskFacts DEF FindCurrency, Request
    <2>3. d \in Declared[task[c].req.c] /\ d \in Definition
      BY <2>1, <2>2 DEF IInv, TypeOK, TablesFit
    <2>4. t \in Task
      BY <2>2, <2>3 DEF Task, PC
    <2>5. TaskFits(c, t, wallets, nextInst, nextRow)
      BY <2>2, <2>3 DEF TaskFits, RequestFits, FoundFits, IdsFit, TermsFit, AmountsFit, Task
    <2>6. Continue(c, t)
      BY <2>1
    <2> HIDE DEF t
    <2> QED  BY <1>2, <1>3, <2>4, <2>5, <2>6, ContinueKeeps
  <1> QED  BY <1>4, <1>5

LEMMA CreditBalanceKeeps ==
    ASSUME IInv, NEW c \in Client, CreditBalance(c)
    PROVE  IInv'
  <1>0. PICK ok \in BOOLEAN :
          /\ Statement(ok)
          /\ \E held \in Held(task[c].inst, task[c].req.c, ok) :
               IF ExceedsMax(task[c].def, held.bal, task[c].req.n)
               THEN Refuse(c)
               ELSE Continue(c, [task[c] EXCEPT !.pc = "store", !.row = held])
    BY DEF CreditBalance
  <1>1. PICK held \in Held(task[c].inst, task[c].req.c, ok) :
          IF ExceedsMax(task[c].def, held.bal, task[c].req.n)
          THEN Refuse(c)
          ELSE Continue(c, [task[c] EXCEPT !.pc = "store", !.row = held])
    BY <1>0
  <1>2. TablesKept /\ wallets' = wallets /\ nextInst' = nextInst /\ nextRow' = nextRow
    BY SameTables DEF CreditBalance
  <1>3. faults' \in 0 .. MaxFaults
    BY <1>0, StatementFacts
  <1>4. CASE ExceedsMax(task[c].def, held.bal, task[c].req.n)
    BY <1>1, <1>2, <1>3, <1>4, RefuseKeeps
  <1>5. CASE ~(ExceedsMax(task[c].def, held.bal, task[c].req.n))
    <2> DEFINE t == [task[c] EXCEPT !.pc = "store", !.row = held]
    <2>1. /\ task[c] \in Task /\ TaskFits(c, task[c], wallets, nextInst, nextRow)
          /\ task[c].pc = "balance" /\ task[c].req.op = "credit"
          /\ task[c].req \in Workload[c]
      BY TaskFacts DEF CreditBalance, At, TaskFits, RequestFits
    <2>2. /\ task[c].req.c \in Currency /\ task[c].req.n \in Int64 /\ task[c].req.n > 0
      BY <2>1, TaskFacts DEF Request, WellFormed
    <2>3. /\ held \in Snapshot /\ held.id < nextRow
          /\ held.bal = 0 \/ Legal(task[c].req.c, held.bal)
          /\ held.id # 0 => Legal(task[c].req.c, held.bal)
          /\ \A w \in wallets : held.id = w.id => w.inst = task[c].inst /\ w.cur = task[c].req.c
      BY <1>1, <2>2, HeldLegal
    <2>4. Creditable(task[c].req.c, Plus(held.bal, task[c].req.n))
      <3>1. task[c].def \in Declared[task[c].req.c]
        BY <2>1 DEF TaskFits, TermsFit
      <3>2. held.bal \in Int64
        BY <2>3 DEF Snapshot
      <3> QED  BY <1>5, <2>1, <2>2, <2>3, <3>1, <3>2, CreditLegal
    <2>5. t \in Task
      BY <2>1, <2>3 DEF Task, PC
    <2>6. TaskFits(c, t, wallets, nextInst, nextRow)
      <3>1. RequestFits(c, t) /\ FoundFits(t) /\ TermsFit(t)
        BY <2>1 DEF TaskFits, RequestFits, FoundFits, TermsFit, Task
      <3>2. IdsFit(t, wallets, nextInst, nextRow)
        BY <2>1, <2>3 DEF TaskFits, IdsFit, Task, Snapshot
      <3>3. AmountsFit(t)
        BY <2>1, <2>4 DEF TaskFits, AmountsFit, Task
      <3> QED  BY <3>1, <3>2, <3>3 DEF TaskFits
    <2>7. Continue(c, t)
      BY <1>1, <1>5
    <2> HIDE DEF t
    <2> QED  BY <1>2, <1>3, <2>5, <2>6, <2>7, ContinueKeeps
  <1> QED  BY <1>4, <1>5

LEMMA DebitBalanceKeeps ==
    ASSUME IInv, NEW c \in Client, DebitBalance(c)
    PROVE  IInv'
  <1>0. PICK ok \in BOOLEAN :
          /\ Statement(ok)
          /\ \E held \in Held(task[c].inst, task[c].req.c, ok) :
               IF held.id = 0 \/ held.bal < task[c].req.n
               THEN Refuse(c)
               ELSE Continue(c, [task[c] EXCEPT !.pc = "store", !.row = held])
    BY DEF DebitBalance
  <1>1. PICK held \in Held(task[c].inst, task[c].req.c, ok) :
          IF held.id = 0 \/ held.bal < task[c].req.n
          THEN Refuse(c)
          ELSE Continue(c, [task[c] EXCEPT !.pc = "store", !.row = held])
    BY <1>0
  <1>2. TablesKept /\ wallets' = wallets /\ nextInst' = nextInst /\ nextRow' = nextRow
    BY SameTables DEF DebitBalance
  <1>3. faults' \in 0 .. MaxFaults
    BY <1>0, StatementFacts
  <1>4. CASE held.id = 0 \/ held.bal < task[c].req.n
    BY <1>1, <1>2, <1>3, <1>4, RefuseKeeps
  <1>5. CASE ~(held.id = 0 \/ held.bal < task[c].req.n)
    <2> DEFINE t == [task[c] EXCEPT !.pc = "store", !.row = held]
    <2>1. /\ task[c] \in Task /\ TaskFits(c, task[c], wallets, nextInst, nextRow)
          /\ task[c].pc = "balance" /\ task[c].req.op = "debit"
          /\ task[c].req \in Workload[c]
      BY TaskFacts DEF DebitBalance, At, TaskFits, RequestFits
    <2>2. /\ task[c].req.c \in Currency /\ task[c].req.n \in Int64 /\ task[c].req.n > 0
      BY <2>1, TaskFacts DEF Request, WellFormed
    <2>3. /\ held \in Snapshot /\ held.id < nextRow
          /\ held.bal = 0 \/ Legal(task[c].req.c, held.bal)
          /\ held.id # 0 => Legal(task[c].req.c, held.bal)
          /\ \A w \in wallets : held.id = w.id => w.inst = task[c].inst /\ w.cur = task[c].req.c
      BY <1>1, <2>2, HeldLegal
    <2>4. task[c].req.n <= held.bal /\ Legal(task[c].req.c, held.bal - task[c].req.n)
      <3>1. held.bal \in Int64 /\ held.id # 0 /\ task[c].req.n <= held.bal
        BY <1>5, <2>2, <2>3 DEF Snapshot, Int64
      <3>2. Legal(task[c].req.c, held.bal)
        BY <2>3, <3>1
      <3> QED  BY <2>2, <3>1, <3>2, DebitLegal
    <2>5. t \in Task
      BY <2>1, <2>3 DEF Task, PC
    <2>6. TaskFits(c, t, wallets, nextInst, nextRow)
      <3>1. RequestFits(c, t) /\ FoundFits(t) /\ TermsFit(t)
        BY <2>1 DEF TaskFits, RequestFits, FoundFits, TermsFit, Task
      <3>2. IdsFit(t, wallets, nextInst, nextRow)
        BY <2>1, <2>3 DEF TaskFits, IdsFit, Task, Snapshot
      <3>3. AmountsFit(t)
        BY <2>1, <2>4 DEF TaskFits, AmountsFit, Task
      <3> QED  BY <3>1, <3>2, <3>3 DEF TaskFits
    <2>7. Continue(c, t)
      BY <1>1, <1>5
    <2> HIDE DEF t
    <2> QED  BY <1>2, <1>3, <2>5, <2>6, <2>7, ContinueKeeps
  <1> QED  BY <1>4, <1>5

LEMMA TransferFundsKeeps ==
    ASSUME IInv, NEW c \in Client, TransferFunds(c)
    PROVE  IInv'
  <1>0. PICK ok \in BOOLEAN :
          /\ Statement(ok)
          /\ \E held \in Held(task[c].inst, task[c].req.c, ok) :
               IF held.id = 0 \/ held.bal < task[c].req.n
               THEN Refuse(c)
               ELSE Continue(c, [task[c] EXCEPT !.pc = "peer", !.row = held])
    BY DEF TransferFunds
  <1>1. PICK held \in Held(task[c].inst, task[c].req.c, ok) :
          IF held.id = 0 \/ held.bal < task[c].req.n
          THEN Refuse(c)
          ELSE Continue(c, [task[c] EXCEPT !.pc = "peer", !.row = held])
    BY <1>0
  <1>2. TablesKept /\ wallets' = wallets /\ nextInst' = nextInst /\ nextRow' = nextRow
    BY SameTables DEF TransferFunds
  <1>3. faults' \in 0 .. MaxFaults
    BY <1>0, StatementFacts
  <1>4. CASE held.id = 0 \/ held.bal < task[c].req.n
    BY <1>1, <1>2, <1>3, <1>4, RefuseKeeps
  <1>5. CASE ~(held.id = 0 \/ held.bal < task[c].req.n)
    <2> DEFINE t == [task[c] EXCEPT !.pc = "peer", !.row = held]
    <2>1. /\ task[c] \in Task /\ TaskFits(c, task[c], wallets, nextInst, nextRow)
          /\ task[c].pc = "funds" /\ task[c].req.op = "transfer"
          /\ task[c].req \in Workload[c]
      BY TaskFacts DEF TransferFunds, At, TaskFits, RequestFits
    <2>2. /\ task[c].req.c \in Currency /\ task[c].req.n \in Int64 /\ task[c].req.n > 0
      BY <2>1, TaskFacts DEF Request, WellFormed
    <2>3. /\ held \in Snapshot /\ held.id < nextRow
          /\ held.bal = 0 \/ Legal(task[c].req.c, held.bal)
          /\ held.id # 0 => Legal(task[c].req.c, held.bal)
          /\ \A w \in wallets : held.id = w.id => w.inst = task[c].inst /\ w.cur = task[c].req.c
      BY <1>1, <2>2, HeldLegal
    <2>4. task[c].req.n <= held.bal /\ Legal(task[c].req.c, held.bal - task[c].req.n)
      <3>1. held.bal \in Int64 /\ held.id # 0 /\ task[c].req.n <= held.bal
        BY <1>5, <2>2, <2>3 DEF Snapshot, Int64
      <3>2. Legal(task[c].req.c, held.bal)
        BY <2>3, <3>1
      <3> QED  BY <2>2, <3>1, <3>2, DebitLegal
    <2>5. t \in Task
      BY <2>1, <2>3 DEF Task, PC
    <2>6. TaskFits(c, t, wallets, nextInst, nextRow)
      <3>1. RequestFits(c, t) /\ FoundFits(t) /\ TermsFit(t)
        BY <2>1 DEF TaskFits, RequestFits, FoundFits, TermsFit, Task
      <3>2. IdsFit(t, wallets, nextInst, nextRow)
        BY <2>1, <2>3 DEF TaskFits, IdsFit, Task, Snapshot
      <3>3. AmountsFit(t)
        BY <2>1, <2>4 DEF TaskFits, AmountsFit, Task
      <3> QED  BY <3>1, <3>2, <3>3 DEF TaskFits
    <2>7. Continue(c, t)
      BY <1>1, <1>5
    <2> HIDE DEF t
    <2> QED  BY <1>2, <1>3, <2>5, <2>6, <2>7, ContinueKeeps
  <1> QED  BY <1>4, <1>5

LEMMA TransferPeerKeeps ==
    ASSUME IInv, NEW c \in Client, TransferPeer(c)
    PROVE  IInv'
  <1>0. PICK ok \in BOOLEAN :
          /\ Statement(ok)
          /\ \E held \in Held(task[c].peer, task[c].req.c, ok) :
               IF ExceedsMax(task[c].def, held.bal, task[c].req.n)
               THEN Refuse(c)
               ELSE Continue(c, [task[c] EXCEPT !.pc = "commit", !.peerRow = held])
    BY DEF TransferPeer
  <1>1. PICK held \in Held(task[c].peer, task[c].req.c, ok) :
          IF ExceedsMax(task[c].def, held.bal, task[c].req.n)
          THEN Refuse(c)
          ELSE Continue(c, [task[c] EXCEPT !.pc = "commit", !.peerRow = held])
    BY <1>0
  <1>2. TablesKept /\ wallets' = wallets /\ nextInst' = nextInst /\ nextRow' = nextRow
    BY SameTables DEF TransferPeer
  <1>3. faults' \in 0 .. MaxFaults
    BY <1>0, StatementFacts
  <1>4. CASE ExceedsMax(task[c].def, held.bal, task[c].req.n)
    BY <1>1, <1>2, <1>3, <1>4, RefuseKeeps
  <1>5. CASE ~(ExceedsMax(task[c].def, held.bal, task[c].req.n))
    <2> DEFINE t == [task[c] EXCEPT !.pc = "commit", !.peerRow = held]
    <2>1. /\ task[c] \in Task /\ TaskFits(c, task[c], wallets, nextInst, nextRow)
          /\ task[c].pc = "peer" /\ task[c].req.op = "transfer"
          /\ task[c].req \in Workload[c]
      BY TaskFacts DEF TransferPeer, At, TaskFits, RequestFits
    <2>2. /\ task[c].req.c \in Currency /\ task[c].req.n \in Int64 /\ task[c].req.n > 0
      BY <2>1, TaskFacts DEF Request, WellFormed
    <2>3. /\ held \in Snapshot /\ held.id < nextRow
          /\ held.bal = 0 \/ Legal(task[c].req.c, held.bal)
          /\ held.id # 0 => Legal(task[c].req.c, held.bal)
          /\ \A w \in wallets : held.id = w.id => w.inst = task[c].peer /\ w.cur = task[c].req.c
      BY <1>1, <2>2, HeldLegal
    <2>4. Creditable(task[c].req.c, Plus(held.bal, task[c].req.n))
      <3>1. task[c].def \in Declared[task[c].req.c]
        BY <2>1 DEF TaskFits, TermsFit
      <3>2. held.bal \in Int64
        BY <2>3 DEF Snapshot
      <3> QED  BY <1>5, <2>1, <2>2, <2>3, <3>1, <3>2, CreditLegal
    <2>5. t \in Task
      BY <2>1, <2>3 DEF Task, PC
    <2>6. TaskFits(c, t, wallets, nextInst, nextRow)
      <3>1. RequestFits(c, t) /\ FoundFits(t) /\ TermsFit(t)
        BY <2>1 DEF TaskFits, RequestFits, FoundFits, TermsFit, Task
      <3>2. IdsFit(t, wallets, nextInst, nextRow)
        BY <2>1, <2>3 DEF TaskFits, IdsFit, Task, Snapshot
      <3>3. AmountsFit(t)
        BY <2>1, <2>4 DEF TaskFits, AmountsFit, Task
      <3> QED  BY <3>1, <3>2, <3>3 DEF TaskFits
    <2>7. Continue(c, t)
      BY <1>1, <1>5
    <2> HIDE DEF t
    <2> QED  BY <1>2, <1>3, <2>5, <2>6, <2>7, ContinueKeeps
  <1> QED  BY <1>4, <1>5

\* What a handler knows when it is about to write.
LEMMA StoreFacts ==
    ASSUME IInv, NEW c \in Client, task[c].pc \in {"store", "commit"}
    PROVE  LET t == task[c]
           IN  /\ t \in Task /\ t.req \in Request /\ WellFormed(t.req)
               /\ t.req.c \in Currency /\ t.req.n \in Int64
               /\ t.row.bal \in Int64 /\ t.peerRow.bal \in Int64
               /\ t.inst \in InstanceId \ {0} /\ t.inst < nextInst
               /\ IdsFit(t, wallets, nextInst, nextRow) /\ AmountsFit(t)
  <1>1. /\ task[c] \in Task /\ TaskFits(c, task[c], wallets, nextInst, nextRow)
        /\ task[c].req \in Request /\ WellFormed(task[c].req)
    BY TaskFacts
  <1>2. task[c].req.c \in Currency /\ task[c].req.n \in Int64
    BY <1>1 DEF Request
  <1>3. task[c].row.bal \in Int64 /\ task[c].peerRow.bal \in Int64
    BY <1>1 DEF Task, Snapshot
  <1>4. task[c].inst \in InstanceId \ {0} /\ task[c].inst < nextInst
    BY <1>1 DEF TaskFits, FoundFits, IdsFit, Task
  <1> QED  BY <1>1, <1>2, <1>3, <1>4 DEF TaskFits

LEMMA CreditStoreKeeps ==
    ASSUME IInv, NEW c \in Client, CreditStore(c)
    PROVE  IInv'
  <1> DEFINE t == task[c]
             new == Plus(t.row.bal, t.req.n)
             Rows(ok) == IF ~ok THEN wallets
                         ELSE IF t.row.id = 0 THEN InsertWallet(wallets, t.inst, t.req.c, new)
                         ELSE SetBalance(wallets, t.row.id, new)
  <1>1. PICK ok \in BOOLEAN : Statement(ok) /\ StoreWallets(Rows(ok))
    BY DEF CreditStore
  <1>2. t.pc = "store" /\ t.req.op = "credit"
    BY DEF CreditStore, At
  <1>3. /\ t.req.c \in Currency /\ t.req.n \in Int64 /\ t.req.n > 0 /\ t.row.bal \in Int64
        /\ t.inst \in InstanceId \ {0} /\ t.inst < nextInst
        /\ IdsFit(t, wallets, nextInst, nextRow) /\ AmountsFit(t)
    BY <1>2, StoreFacts DEF WellFormed
  <1>4. new \in Int64 /\ Legal(t.req.c, new)
    BY <1>2, <1>3, PlusFacts, CreditableIsLegal DEF AmountsFit
  <1>5. Storable(Rows(ok))
    <2>1. CASE ~ok
      BY <2>1, WalletsStorable
    <2>2. CASE ok /\ t.row.id = 0
      <3> HIDE DEF new
      <3> QED  BY <1>3, <1>4, <2>2, WalletsStorable, InsertStorable
    <2>3. CASE ok /\ t.row.id # 0
      <3>1. \A w \in wallets : w.id = t.row.id => Legal(w.cur, new)
        BY <1>3, <1>4 DEF IdsFit
      <3> HIDE DEF new
      <3> QED  BY <1>4, <2>3, <3>1, WalletsStorable, SetBalanceStorable
    <2> QED  BY <2>1, <2>2, <2>3
  <1>6. Respond(c, TRUE, new)
    BY DEF CreditStore
  <1> HIDE DEF Rows, new
  <1>7. TablesKept
    BY <1>1, <1>5, StoreKeepsTables
  <1> QED  BY <1>1, <1>4, <1>6, <1>7, StatementFacts, RespondKeeps

LEMMA DebitStoreKeeps ==
    ASSUME IInv, NEW c \in Client, DebitStore(c)
    PROVE  IInv'
  <1> DEFINE t == task[c]
             new == t.row.bal - t.req.n
             Rows(ok) == IF ok THEN SetBalance(wallets, t.row.id, new) ELSE wallets
  <1>1. PICK ok \in BOOLEAN : Statement(ok) /\ StoreWallets(Rows(ok))
    BY DEF DebitStore
  <1>2. t.pc = "store" /\ t.req.op = "debit"
    BY DEF DebitStore, At
  <1>3. /\ t.req.n \in Int64 /\ t.req.n > 0 /\ t.row.bal \in Int64
        /\ IdsFit(t, wallets, nextInst, nextRow) /\ AmountsFit(t)
    BY <1>2, StoreFacts DEF WellFormed
  <1>4. new \in Int64 /\ Legal(t.req.c, new)
    BY <1>2, <1>3 DEF AmountsFit, Int64
  <1>5. Storable(Rows(ok))
    <2>1. \A w \in wallets : w.id = t.row.id => Legal(w.cur, new)
      BY <1>3, <1>4 DEF IdsFit
    <2> HIDE DEF new
    <2> QED  BY <1>4, <2>1, WalletsStorable, SetBalanceStorable
  <1>6. Respond(c, TRUE, new)
    BY DEF DebitStore
  <1> HIDE DEF Rows, new
  <1>7. TablesKept
    BY <1>1, <1>5, StoreKeepsTables
  <1> QED  BY <1>1, <1>4, <1>6, <1>7, StatementFacts, RespondKeeps

LEMMA TransferCommitKeeps ==
    ASSUME IInv, NEW c \in Client, TransferCommit(c)
    PROVE  IInv'
  <1> DEFINE t == task[c]
             left == t.row.bal - t.req.n
             debited == SetBalance(wallets, t.row.id, left)
             new == Plus(t.peerRow.bal, t.req.n)
             Rows(ok) == IF ok THEN Transferred(t) ELSE wallets
  <1>1. PICK ok \in BOOLEAN : Statement(ok) /\ StoreWallets(Rows(ok))
    BY DEF TransferCommit
  <1>2. t.pc = "commit" /\ t.req.op = "transfer"
    BY DEF TransferCommit, At
  <1>3. /\ t.req.c \in Currency /\ t.req.n \in Int64 /\ t.req.n > 0
        /\ t.row.bal \in Int64 /\ t.peerRow.bal \in Int64
        /\ IdsFit(t, wallets, nextInst, nextRow) /\ AmountsFit(t)
    BY <1>2, StoreFacts DEF WellFormed
  <1>4. left \in Int64 /\ Legal(t.req.c, left)
    BY <1>2, <1>3 DEF AmountsFit, Int64
  <1>5. new \in Int64 /\ Legal(t.req.c, new)
    BY <1>2, <1>3, PlusFacts, CreditableIsLegal DEF AmountsFit
  <1>6. t.peer \in InstanceId \ {0} /\ t.peer < nextInst
    BY <1>2, <1>3, TaskFacts DEF TaskFits, FoundFits, IdsFit, Task
  <1>7. Storable(debited) /\ \A w \in debited : w.id < nextRow
    <2>1. \A w \in wallets : w.id = t.row.id => Legal(w.cur, left)
      BY <1>3, <1>4 DEF IdsFit
    <2> HIDE DEF left
    <2> QED  BY <1>4, <2>1, WalletsStorable, SetBalanceStorable
  <1>8. \A w \in debited : w.id = t.peerRow.id => Legal(w.cur, new)
    <2>1. \A w \in debited : \E v \in wallets : v.id = w.id /\ v.cur = w.cur
      BY <1>7 DEF Storable, IInv, TypeOK
    <2> QED  BY <1>3, <1>5, <2>1 DEF IdsFit
  <1>9. Storable(Rows(ok))
    <2>1. Rows(ok) = IF ~ok THEN wallets
                     ELSE IF t.peerRow.id # 0 THEN SetBalance(debited, t.peerRow.id, new)
                     ELSE IF WalletRows(t.peer, t.req.c) # {} THEN wallets
                     ELSE InsertWallet(debited, t.peer, t.req.c, new)
      BY DEF Transferred
    <2> HIDE DEF Rows, debited, new
    <2>2. Storable(SetBalance(debited, t.peerRow.id, new))
      BY <1>5, <1>7, <1>8, SetBalanceStorable
    <2>3. Storable(InsertWallet(debited, t.peer, t.req.c, new))
      BY <1>3, <1>5, <1>6, <1>7, InsertStorable
    <2> QED  BY <2>1, <2>2, <2>3, WalletsStorable
  <1>10. Respond(c, TRUE, left)
    BY DEF TransferCommit
  <1> HIDE DEF Rows, left
  <1>11. TablesKept
    BY <1>1, <1>9, StoreKeepsTables
  <1> QED  BY <1>1, <1>4, <1>10, <1>11, StatementFacts, RespondKeeps

-----------------------------------------------------------------------------
(* The reconciler and the crash.                                           *)

\* What one row of currency_definitions becomes is among the declared ones.
LEMMA DefineKeeps ==
    ASSUME IInv, NEW k \in Currency, DefineCurrency(k) \/ DropCurrency(k)
    PROVE  IInv'
  <1>1. /\ UNCHANGED <<instances, wallets, nextInst, nextRow, faults, task>>
        /\ reply' = NoReply
    BY DEF DefineCurrency, DropCurrency
  <1>2. /\ defs' \in [Currency -> SUBSET Definition]
        /\ \A x \in Currency : defs'[x] \subseteq Declared[x]
    BY DEF IInv, TypeOK, TablesFit, DefineCurrency, DropCurrency
  <1>3. reply' \in Reply
    BY <1>1 DEF NoReply, Reply, Int64
  <1>4. TypeOK'
    BY <1>1, <1>2, <1>3 DEF IInv, TypeOK
  <1> QED  BY <1>1, <1>2, <1>4 DEF IInv, TablesFit

LEMMA CrashKeeps ==
    ASSUME IInv, Crash
    PROVE  IInv'
  <1>1. /\ UNCHANGED <<instances, wallets, defs, nextInst, nextRow, faults>>
        /\ task' = [c \in Client |-> Idle] /\ reply' = NoReply
    BY DEF Crash, tables
  <1>2. \A c \in Client : Idle \in Task /\ TaskFits(c, Idle, wallets, nextInst, nextRow)
    BY IdleFits DEF IInv, TypeOK
  <1>3. reply' \in Reply
    BY <1>1 DEF NoReply, Reply, Int64
  <1>4. TypeOK'
    BY <1>1, <1>2, <1>3 DEF IInv, TypeOK
  <1> QED  BY <1>1, <1>2, <1>4 DEF IInv, TablesFit

-----------------------------------------------------------------------------
(* The theorems.                                                           *)

LEMMA InitEstablishes == Init => IInv
  <1> SUFFICES ASSUME Init PROVE IInv
    OBVIOUS
  <1>1. \A c \in Client : Idle \in Task /\ TaskFits(c, Idle, {}, 1, 1)
    BY IdleFits
  <1>2. NoReply \in Reply
    BY DEF NoReply, Reply, Int64
  <1>3. TypeOK
    BY <1>1, <1>2 DEF Init, TypeOK
  <1>4. TablesFit
    BY DEF Init, TablesFit, RowsFit
  <1> QED  BY <1>1, <1>3, <1>4 DEF Init, IInv

LEMMA NextKeeps == IInv /\ [Next]_vars => IInv'
  <1> SUFFICES ASSUME IInv, [Next]_vars PROVE IInv'
    OBVIOUS
  <1>1. ASSUME NEW c \in Client, Receive(c) \/ Reject(c) PROVE IInv'
    BY <1>1, ReceiveKeeps, RejectKeeps
  <1>2. ASSUME NEW c \in Client, Create(c) PROVE IInv'
    BY <1>2, RejectKeeps, CreateInsertKeeps, CreateConflictKeeps, CreateChildrenKeeps,
       CreateListKeeps, CreateEndowKeeps, CreateReplyKeeps DEF Create
  <1>3. ASSUME NEW c \in Client, Delete(c) PROVE IInv'
    BY <1>3, DeleteFindKeeps, DeletePurgeKeeps, DeleteRemoveKeeps DEF Delete
  <1>4. ASSUME NEW c \in Client, FindAvatar(c) \/ FindCurrency(c) PROVE IInv'
    BY <1>4, FindAvatarKeeps, FindCurrencyKeeps
  <1>5. ASSUME NEW c \in Client, Credit(c) \/ Debit(c) PROVE IInv'
    BY <1>5, CreditBalanceKeeps, CreditStoreKeeps, DebitBalanceKeeps, DebitStoreKeeps
       DEF Credit, Debit
  <1>6. ASSUME NEW c \in Client, Transfer(c) PROVE IInv'
    BY <1>6, TransferSenderKeeps, TransferReceiverKeeps, TransferFundsKeeps,
       TransferPeerKeeps, TransferCommitKeeps DEF Transfer
  <1>7. ASSUME NEW k \in Currency, DefineCurrency(k) \/ DropCurrency(k) PROVE IInv'
    BY <1>7, DefineKeeps
  <1>8. CASE Crash
    BY <1>8, CrashKeeps
  <1>9. CASE UNCHANGED vars
    BY <1>9 DEF vars, IInv, TypeOK, TablesFit
  <1> QED  BY <1>1, <1>2, <1>3, <1>4, <1>5, <1>6, <1>7, <1>8, <1>9 DEF Next, Step

\* avatar_instances grows by CreateAvatarInstance alone, one row at a time.
LEMMA InstancesChange ==
    ASSUME IInv, [Next]_vars, instances' # instances
    PROVE  \/ instances' \subseteq instances
           \/ /\ wallets' = wallets
              /\ \E a \in Avatar : instances' = instances \cup {NewInstance(a)}
  <1>1. PICK c \in Client : CreateInsert(c) \/ CreateConflict(c) \/ DeleteRemove(c)
    BY DEF Next, Step, Create, Delete, Credit, Debit, Transfer, Receive, Reject,
           CreateRefused, CreateChildren, CreateList, CreateEndow, CreateReply,
           DeleteFind, DeletePurge, FindAvatar, FindCurrency, CreditBalance, CreditStore,
           DebitBalance, DebitStore, TransferSender, TransferReceiver, TransferFunds,
           TransferPeer, TransferCommit, StoreWallets, DefineCurrency, DropCurrency, Crash,
           tables, vars
  <1>2. CASE DeleteRemove(c)
    BY <1>2 DEF DeleteRemove
  <1>3. CASE CreateInsert(c) \/ CreateConflict(c)
    <2>1. task[c].req.a \in Avatar
      BY <1>3, TaskFacts DEF CreateInsert, CreateConflict, At, Request
    <2> QED  BY <1>3, <2>1 DEF CreateInsert, CreateConflict, InsertInstance, tables
  <1> QED  BY <1>1, <1>2, <1>3

\* The invariant holds in every reachable state, for any number of clients,
\* avatars and currencies, any workload and any number of failed statements.
THEOREM InvariantHolds == Spec => []IInv
  <1>1. Init => IInv
    BY InitEstablishes
  <1>2. IInv /\ [Next]_vars => IInv'
    BY NextKeeps
  <1> QED  BY <1>1, <1>2, PTL DEF Spec

\* Type correctness: in particular no handler computes beyond int64.
THEOREM TypeCorrect == Spec => []TypeOK
  <1>1. IInv => TypeOK
    BY DEF IInv
  <1> QED  BY <1>1, InvariantHolds, PTL

\* If every version of a currency has a maximum and sums stay in int64, its
\* balances stay between 0 and a declared maximum or initial balance, however
\* CreditWallet, DebitWallet and TransferWallet overlap.
THEOREM BalancesBounded == Spec => []BalanceBounds
  <1>1. IInv => BalanceBounds
    BY DEF IInv, TablesFit, RowsFit, Legal, BalanceBounds
  <1> QED  BY <1>1, InvariantHolds, PTL

\* A row id that a handler has read never comes to name another wallet.
THEOREM RowsKeepOwners == Spec => []HeldRowsStable
  <1>1. IInv => HeldRowsStable
    BY DEF IInv, TaskFits, IdsFit, HeldRowsStable
  <1> QED  BY <1>1, InvariantHolds, PTL

\* A new avatar instance finds no wallet rows under its id.
THEOREM NothingInherited == Spec => NoInheritance
  <1>1. ASSUME IInv, [Next]_vars
        PROVE  [\A i \in instances' \ instances : \A w \in wallets' : w.inst # i.id]_vars
    <2>1. CASE UNCHANGED instances
      BY <2>1
    <2>2. CASE instances' # instances
      <3>1. \/ instances' \subseteq instances
            \/ /\ wallets' = wallets
               /\ \E a \in Avatar : instances' = instances \cup {NewInstance(a)}
        BY <1>1, <2>2, InstancesChange
      <3>2. \A w \in wallets : w.inst < nextInst
        BY <1>1 DEF IInv, TablesFit, RowsFit
      <3>3. wallets \subseteq Balance /\ nextInst \in Int
        BY <1>1 DEF IInv, TypeOK
      <3> QED  BY <3>1, <3>2, <3>3 DEF NewInstance, Balance, InstanceId
    <2> QED  BY <2>1, <2>2
  <1> QED  BY <1>1, InvariantHolds, PTL DEF Spec, NoInheritance
=============================================================================
