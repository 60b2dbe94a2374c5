---------------------------- MODULE LedgerProofs ----------------------------
(***************************************************************************)
(* Proofs about Wallet under an exclusive workload, for every value of the *)
(* constants: no wallet is orphaned, answers are true until a statement    *)
(* fails, and the handlers implement Ledger whatever fails.                *)
(***************************************************************************)
EXTENDS LedgerInvariant, WalletProofs

USE WalletAssumption DEF WalletAssumption

-----------------------------------------------------------------------------
(* What a write does to a table with unique keys.                          *)

Row == [id : Nat, inst : Nat, cur : Currency, bal : Int64]

\* A set of rows that could be the table of wallets.
Table(rows) ==
    /\ rows \subseteq Row
    /\ \A v, w \in rows : v.id = w.id => v = w
    /\ Keyed(rows)

\* new differs from old in that the wallet of instance i in currency k, and
\* no other, has the balance n.
Wrote(old, new, i, k, n) ==
    /\ \A w \in Row : w.inst # i \/ w.cur # k => (w \in new <=> w \in old)
    /\ \E w \in new : w.inst = i /\ w.cur = k /\ w.bal = n
    /\ Table(new)

LEMMA WalletsTable ==
    ASSUME IInv, LedgerInv
    PROVE  Table(wallets)
  <1>1. wallets \subseteq Row
    BY DEF IInv, TypeOK, Balance, Row, RowId, InstanceId
  <1> QED  BY <1>1 DEF Table, IInv, TablesFit, RowsFit, LedgerInv, TablesSole

LEMMA SetBalanceWrites ==
    ASSUME NEW rows, Table(rows), NEW v \in rows, NEW n \in Int64
    PROVE  Wrote(rows, SetBalance(rows, v.id, n), v.inst, v.cur, n)
  <1> DEFINE new == SetBalance(rows, v.id, n)
  <1>1. v \in Row /\ rows \subseteq Row
    BY DEF Table
  <1>2. PICK u \in Row : u = [v EXCEPT !.bal = n]
    BY <1>1 DEF Row
  <1>3. u.id = v.id /\ u.inst = v.inst /\ u.cur = v.cur /\ u.bal = n
    BY <1>1, <1>2 DEF Row
  <1>4. \A w : w \in new <=> w = u \/ (w \in rows /\ w # v)
    <2>1. \A r \in rows : (IF r.id = v.id THEN [r EXCEPT !.bal = n] ELSE r)
                          = (IF r = v THEN u ELSE r)
      BY <1>2 DEF Table
    <2>2. ASSUME NEW w PROVE w \in new <=> \E r \in rows : w = IF r = v THEN u ELSE r
      BY <2>1 DEF SetBalance
    <2> QED  BY <2>2
  <1> HIDE DEF new
  <1>5. \A w \in new : w \in Row
    BY <1>1, <1>4
  <1>6. \A x, y \in new : x.id = y.id => x = y
    BY <1>3, <1>4 DEF Table
  <1>7. Keyed(new)
    BY <1>3, <1>4 DEF Table, Keyed
  <1>8. \A w \in Row : w.inst # v.inst \/ w.cur # v.cur => (w \in new <=> w \in rows)
    BY <1>3, <1>4
  <1>9. \E w \in new : w.inst = v.inst /\ w.cur = v.cur /\ w.bal = n
    BY <1>3, <1>4
  <1>10. Wrote(rows, new, v.inst, v.cur, n)
    BY <1>5, <1>6, <1>7, <1>8, <1>9 DEF Wrote, Table
  <1> QED  BY <1>10 DEF new

LEMMA InsertWrites ==
    ASSUME IInv, NEW rows, Table(rows), \A w \in rows : w.id < nextRow,
           NEW i \in Nat, NEW k \in Currency, NEW n \in Int64,
           \A w \in rows : w.inst # i \/ w.cur # k
    PROVE  Wrote(rows, InsertWallet(rows, i, k, n), i, k, n)
  <1>0. nextRow \in Nat
    BY DEF IInv, TypeOK
  <1>1. PICK u \in Row : u = [id |-> nextRow, inst |-> i, cur |-> k, bal |-> n]
    BY <1>0 DEF Row
  <1>2. u.id = nextRow /\ u.inst = i /\ u.cur = k /\ u.bal = n
    BY <1>1
  <1>3. InsertWallet(rows, i, k, n) = rows \cup {u}
    BY <1>1 DEF InsertWallet
  <1>4. \A w \in rows : w.id # nextRow /\ w \in Row
    BY <1>0 DEF Table, Row
  <1>5. Table(rows \cup {u})
    <2>1. rows \cup {u} \subseteq Row
      BY <1>4
    <2>2. \A v, w \in rows \cup {u} : v.id = w.id => v = w
      BY <1>2, <1>4 DEF Table
    <2>3. Keyed(rows \cup {u})
      BY <1>2, <1>4 DEF Table, Keyed
    <2> QED  BY <2>1, <2>2, <2>3 DEF Table
  <1> QED  BY <1>2, <1>3, <1>5 DEF Wrote

-----------------------------------------------------------------------------
(* What the other handlers know survives the step of one.                  *)

\* The step of c leaves every wallet row alone that is not one of the avatars
\* c works on, every other avatar, and every other handler; failures add up.
Footprint(c) ==
    /\ \A w \in Row : w.inst \notin {task[c].inst, task[c].peer}
                      => (w \in wallets' <=> w \in wallets)
    /\ \A i \in Instance : i.name # task[c].req.a => (i \in instances' <=> i \in instances)
    /\ \A d \in Client \ {c} : task'[d] = task[d]
    /\ faults' = 0 => faults = 0

\* An avatar that another client found is none of those the step touches.
LEMMA Apart ==
    ASSUME Exclusive, IInv, LedgerInv, NEW c \in Client, NEW d \in Client, d # c,
           task[c].pc # "idle", task[d].pc # "idle",
           NEW id, NEW a \in Touches(task[d].req), Exists(id, a)
    PROVE  a # task[c].req.a /\ id \notin {task[c].inst, task[c].peer}
  <1>1. Touches(task[c].req) \cap Touches(task[d].req) = {}
    BY TaskFacts DEF Exclusive, TaskFits, RequestFits
  <1>2. /\ task[c].req.a \in Touches(task[c].req)
        /\ task[c].req.op = "transfer" => task[c].req.b \in Touches(task[c].req)
    BY DEF Touches
  <1>3. SoleFits(task[c])
    BY DEF LedgerInv
  <1>4. \A i, j \in instances : i.id = j.id => i = j
    BY DEF LedgerInv, TablesSole
  <1>5. \A b : Exists(id, b) => b = a
    BY <1>4 DEF Exists
  <1>6. id # 0
    BY DEF Exists, IInv, TypeOK, Instance
  <1> QED  BY <1>1, <1>2, <1>3, <1>5, <1>6 DEF SoleFits

LEMMA OthersKeep ==
    ASSUME Exclusive, IInv, IInv', LedgerInv, NEW c \in Client, task[c].pc # "idle",
           Footprint(c), NEW d \in Client, d # c
    PROVE  SoleFits(task[d])'
  <1>1. task'[d] = task[d] /\ SoleFits(task[d]) /\ task[d] \in Task
    BY TaskFacts DEF Footprint, LedgerInv
  <1>2. CASE task[d].pc = "idle"
    BY <1>1, <1>2 DEF SoleFits
  <1>3. CASE task[d].pc # "idle"
    <2> DEFINE t == task[d]
    <2>1. ASSUME NEW id \in InstanceId \ {0}, NEW a \in Touches(t.req), Exists(id, a)
          PROVE  /\ Exists(id, a)'
                 /\ \A w \in Row : w.inst = id => (w \in wallets' <=> w \in wallets)
      <3>1. a # task[c].req.a /\ id \notin {task[c].inst, task[c].peer}
        BY <1>3, <2>1, Apart
      <3>2. [id |-> id, name |-> a] \in Instance
        BY <2>1 DEF Exists, IInv, TypeOK
      <3> QED  BY <2>1, <3>1, <3>2 DEF Footprint, Exists
    <2>2. wallets \subseteq Row /\ wallets' \subseteq Row /\ t.req.c \in Currency
      BY <1>3, TaskFacts DEF IInv, TypeOK, Balance, Row, RowId, InstanceId, Request
    <2>3. /\ t.inst # 0 => Exists(t.inst, t.req.a) /\ t.req.a \in Touches(t.req)
          /\ t.peer # 0 => Exists(t.peer, t.req.b) /\ t.req.b \in Touches(t.req)
          /\ t.inst \in InstanceId /\ t.peer \in InstanceId
          /\ t.row \in Snapshot /\ t.peerRow \in Snapshot
      BY <1>1 DEF SoleFits, Touches, Task
    <2>4. ASSUME NEW id \in InstanceId \ {0}, NEW row \in Snapshot,
                 \A w \in Row : w.inst = id => (w \in wallets' <=> w \in wallets),
                 Current(row, id, t.req.c)
          PROVE  Current(row, id, t.req.c)'
      <3>1. [id |-> row.id, inst |-> id, cur |-> t.req.c, bal |-> row.bal] \in Row
        BY <2>2 DEF Snapshot, RowId, InstanceId, Row
      <3> QED  BY <1>1, <2>2, <2>4, <3>1 DEF Current, WalletRows, Footprint
    <2>5. FoundFits(t)
      BY TaskFacts DEF TaskFits
    <2> HIDE DEF t
    <2>6. t.pc \in {"store", "peer", "commit"} => Current(t.row, t.inst, t.req.c)'
      BY <1>1, <2>1, <2>3, <2>4, <2>5 DEF FoundFits, SoleFits, t
    <2>7. t.pc = "commit" => Current(t.peerRow, t.peer, t.req.c)'
      BY <1>1, <2>1, <2>3, <2>4, <2>5 DEF FoundFits, SoleFits, t
    <2>8. t.pc = "remove" /\ faults' = 0 => \A w \in wallets' : w.inst # t.inst
      BY <1>1, <2>1, <2>2, <2>3 DEF SoleFits, Footprint, t
    <2> QED  BY <1>1, <2>1, <2>3, <2>6, <2>7, <2>8 DEF SoleFits, t
  <1> QED  BY <1>2, <1>3

\* A step of c to the local variables t.
LEMMA StepTo ==
    ASSUME IInv, LedgerInv, NEW c \in Client, NEW t, task' = [task EXCEPT ![c] = t],
           \A d \in Client \ {c} : SoleFits(task[d])',
           TablesSole', SoleFits(t)', TradeFits(t)
    PROVE  LedgerInv'
  <1>1. task \in [Client -> Task]
    BY DEF IInv, TypeOK
  <1>2. task'[c] = t /\ \A d \in Client \ {c} : task'[d] = task[d]
    BY <1>1
  <1>3. ASSUME NEW d \in Client, d # c PROVE SoleFits(task[d])' /\ TradeFits(task[d])'
    BY <1>2, <1>3 DEF LedgerInv, TradeFits
  <1>4. SoleFits(task[c])' /\ TradeFits(task[c])'
    BY <1>2 DEF SoleFits, TradeFits, Current
  <1> QED  BY <1>3, <1>4 DEF LedgerInv

LEMMA IdleSole == SoleFits(Idle)' /\ TradeFits(Idle)
  BY DEF SoleFits, TradeFits, Idle, NoRow

-----------------------------------------------------------------------------
(* Steps that leave the tables alone.                                      *)

Quiet == UNCHANGED <<instances, wallets>> /\ (faults' = 0 => faults = 0)

LEMMA QuietTables ==
    ASSUME LedgerInv, Quiet
    PROVE  TablesSole'
  BY DEF LedgerInv, TablesSole, Quiet, NoOrphanWallets

LEMMA QuietOthers ==
    ASSUME LedgerInv, Quiet, NEW d \in Client, task'[d] = task[d]
    PROVE  SoleFits(task[d])'
  BY DEF LedgerInv, Quiet, SoleFits, Exists, Current, WalletRows

LEMMA QuietStep ==
    ASSUME IInv, LedgerInv, NEW c \in Client, NEW t, task' = [task EXCEPT ![c] = t],
           Quiet, SoleFits(t)', TradeFits(t)
    PROVE  LedgerInv'
  <1>1. \A d \in Client \ {c} : task'[d] = task[d]
    BY DEF IInv, TypeOK
  <1>2. \A d \in Client \ {c} : SoleFits(task[d])'
    BY <1>1, QuietOthers
  <1> QED  BY <1>2, QuietTables, StepTo

LEMMA QuietEnd ==
    ASSUME IInv, LedgerInv, NEW c \in Client, NEW ok, NEW bal, Respond(c, ok, bal), Quiet
    PROVE  LedgerInv'
  <1>1. task' = [task EXCEPT ![c] = Idle]
    BY DEF Respond
  <1> QED  BY <1>1, IdleSole, QuietStep

LEMMA StatementGrows ==
    ASSUME IInv, NEW ok \in BOOLEAN, Statement(ok)
    PROVE  /\ faults' = 0 => faults = 0 /\ ok
           /\ ok => faults' = faults
  BY DEF Statement, IInv, TypeOK

\* A lookup by name finds an avatar of that name.
LEMMA NamedExists ==
    ASSUME IInv, NEW a \in Avatar, NEW ok \in BOOLEAN, NEW id \in Named(a, ok), id # 0
    PROVE  Exists(id, a)
  <1>1. PICK i \in instances : i.id = id /\ i.name = a
    BY NamedFacts DEF IInv
  <1>2. i = [id |-> i.id, name |-> i.name]
    BY DEF IInv, TypeOK, Instance
  <1> QED  BY <1>1, <1>2 DEF Exists

\* With unique keys, what a lookup of a wallet yields is what there is.
LEMMA HeldCurrent ==
    ASSUME IInv, LedgerInv, NEW i, NEW k, NEW ok \in BOOLEAN, Statement(ok),
           NEW held \in Held(i, k, ok), Quiet
    PROVE  Current(held, i, k)'
  <1>1. First(WalletRows(i, k)) = WalletRows(i, k)
    BY DEF First, WalletRows, LedgerInv, TablesSole, Keyed, IInv, TypeOK, Balance, RowId
  <1>2. CASE held = NoRow
    <2>1. ok => WalletRows(i, k) = {}
      <3>1. \A w \in wallets : [id |-> w.id, bal |-> w.bal] # NoRow
        BY DEF IInv, TypeOK, Balance, NoRow
      <3> QED  BY <1>1, <1>2, <3>1 DEF Held, Answer, WalletRows
    <2> QED  BY <1>2, <2>1, StatementGrows DEF NoRow, Current, Quiet, WalletRows
  <1>3. CASE held # NoRow
    <2>1. PICK w \in wallets : w.inst = i /\ w.cur = k /\ held = [id |-> w.id, bal |-> w.bal]
      BY <1>3, HeldFacts
    <2>2. w = [id |-> w.id, inst |-> w.inst, cur |-> w.cur, bal |-> w.bal] /\ w.id # 0
      BY DEF IInv, TypeOK, Balance
    <2> QED  BY <2>1, <2>2 DEF Current, Quiet
  <1> QED  BY <1>2, <1>3

LEMMA ReceiveSole ==
    ASSUME IInv, LedgerInv, NEW c \in Client, Receive(c)
    PROVE  LedgerInv'
  <1>1. PICK r \in Workload[c] :
          Continue(c, [Idle EXCEPT !.pc = FirstStep(r), !.req = r])
    BY DEF Receive
  <1> PICK t : t = [Idle EXCEPT !.pc = FirstStep(r), !.req = r]
    OBVIOUS
  <1>2. FirstStep(r) \in {"insert", "target", "currency", "avatar"}
    BY DEF FirstStep
  <1>3. SoleFits(t)' /\ TradeFits(t)
    BY <1>2 DEF SoleFits, TradeFits, Idle
  <1>4. task' = [task EXCEPT ![c] = t] /\ Quiet
    BY <1>1 DEF Continue, Receive, Quiet, tables
  <1> QED  BY <1>3, <1>4, QuietStep

LEMMA RefusedSole ==
    ASSUME IInv, LedgerInv, NEW c \in Client, Reject(c) \/ CreateRefused(c) \/ CreateReply(c)
    PROVE  LedgerInv'
  <1>1. Quiet
    BY DEF Reject, CreateRefused, CreateReply, Quiet, tables
  <1>2. Respond(c, FALSE, 0) \/ Respond(c, TRUE, 0)
    BY DEF Reject, CreateRefused, CreateReply, Refuse
  <1> QED  BY <1>1, <1>2, QuietEnd

LEMMA CreateChildrenSole ==
    ASSUME IInv, LedgerInv, NEW c \in Client, CreateChildren(c)
    PROVE  LedgerInv'
  <1>1. PICK ok \in BOOLEAN :
          /\ Statement(ok)
          /\ IF ok THEN Continue(c, [task[c] EXCEPT !.pc = "list"]) ELSE Refuse(c)
    BY DEF CreateChildren
  <1>2. Quiet
    BY <1>1, StatementGrows DEF CreateChildren, Quiet, tables
  <1>3. CASE ~ok
    BY <1>1, <1>2, <1>3, QuietEnd DEF Refuse
  <1>4. CASE ok
    <2> PICK t : t = [task[c] EXCEPT !.pc = "list"]
      OBVIOUS
    <2>1. task[c] \in Task /\ SoleFits(task[c]) /\ task[c].pc = "children"
      BY TaskFacts DEF CreateChildren, At, LedgerInv
    <2>2. SoleFits(t)' /\ TradeFits(t)
      BY <1>2, <2>1 DEF SoleFits, TradeFits, Task, Quiet, Exists
    <2>3. task' = [task EXCEPT ![c] = t]
      BY <1>1, <1>4 DEF Continue
    <2> QED  BY <1>2, <2>2, <2>3, QuietStep
  <1> QED  BY <1>3, <1>4

LEMMA CreateListSole ==
    ASSUME IInv, LedgerInv, NEW c \in Client, CreateList(c)
    PROVE  LedgerInv'
  <1>1. PICK ok \in BOOLEAN :
          /\ Statement(ok)
          /\ Continue(c, [task[c] EXCEPT !.pc = "endow",
                                         !.todo = IF ok THEN Endowments ELSE {}])
    BY DEF CreateList
  <1> PICK t : t = [task[c] EXCEPT !.pc = "endow", !.todo = IF ok THEN Endowments ELSE {}]
    OBVIOUS
  <1>2. Quiet
    BY <1>1, StatementGrows DEF CreateList, Quiet, tables
  <1>3. task[c] \in Task /\ SoleFits(task[c]) /\ task[c].pc = "list"
    BY TaskFacts DEF CreateList, At, LedgerInv
  <1>4. SoleFits(t)' /\ TradeFits(t)
    BY <1>2, <1>3 DEF SoleFits, TradeFits, Task, Quiet, Exists
  <1>5. task' = [task EXCEPT ![c] = t]
    BY <1>1 DEF Continue
  <1> QED  BY <1>2, <1>4, <1>5, QuietStep

LEMMA DeleteFindSole ==
    ASSUME IInv, LedgerInv, NEW c \in Client, DeleteFind(c)
    PROVE  LedgerInv'
  <1>0. PICK ok \in BOOLEAN :
          /\ Statement(ok)
          /\ \E id \in Named(task[c].req.a, ok) :
               IF id = 0 THEN Refuse(c)
               ELSE Continue(c, [task[c] EXCEPT !.pc = "purge", !.inst = id])
    BY DEF DeleteFind
  <1>1. PICK id \in Named(task[c].req.a, ok) :
          IF id = 0 THEN Refuse(c)
          ELSE Continue(c, [task[c] EXCEPT !.pc = "purge", !.inst = id])
    BY <1>0
  <1>2. Quiet
    BY <1>0, StatementGrows DEF DeleteFind, Quiet, tables
  <1>3. CASE id = 0
    BY <1>1, <1>2, <1>3, QuietEnd DEF Refuse
  <1>4. CASE id # 0
    <2> PICK t : t = [task[c] EXCEPT !.pc = "purge", !.inst = id]
      OBVIOUS
    <2>1. /\ task[c] \in Task /\ SoleFits(task[c]) /\ TradeFits(task[c])
          /\ task[c].pc \notin {"idle", "store", "peer", "commit", "remove"}
          /\ task[c].req.a \in Avatar
      BY TaskFacts DEF DeleteFind, At, Request, LedgerInv
    <2>2. Exists(id, task[c].req.a)
      BY <1>1, <1>4, <2>1, NamedExists
    <2>3. SoleFits(t)'
      BY <1>2, <1>4, <2>1, <2>2 DEF SoleFits, Task, Quiet, Exists
    <2>4. TradeFits(t)
      BY <2>1 DEF TradeFits, Task
    <2>5. task' = [task EXCEPT ![c] = t]
      BY <1>1, <1>4 DEF Continue
    <2> QED  BY <1>2, <2>3, <2>4, <2>5, QuietStep
  <1> QED  BY <1>3, <1>4

LEMMA FindAvatarSole ==
    ASSUME IInv, LedgerInv, NEW c \in Client, FindAvatar(c)
    PROVE  LedgerInv'
  <1>0. PICK ok \in BOOLEAN :
          /\ Statement(ok)
          /\ \E id \in Named(task[c].req.a, ok) :
               IF id = 0 THEN Refuse(c)
               ELSE Continue(c, [task[c] EXCEPT !.pc = "currency", !.inst = id])
    BY DEF FindAvatar
  <1>1. PICK id \in Named(task[c].req.a, ok) :
          IF id = 0 THEN Refuse(c)
          ELSE Continue(c, [task[c] EXCEPT !.pc = "currency", !.inst = id])
    BY <1>0
  <1>2. Quiet
    BY <1>0, StatementGrows DEF FindAvatar, Quiet, tables
  <1>3. CASE id = 0
    BY <1>1, <1>2, <1>3, QuietEnd DEF Refuse
  <1>4. CASE id # 0
    <2> PICK t : t = [task[c] EXCEPT !.pc = "currency", !.inst = id]
      OBVIOUS
    <2>1. /\ task[c] \in Task /\ SoleFits(task[c]) /\ TradeFits(task[c])
          /\ task[c].pc \notin {"idle", "store", "peer", "commit", "remove"}
          /\ task[c].req.a \in Avatar
      BY TaskFacts DEF FindAvatar, At, Request, LedgerInv
    <2>2. Exists(id, task[c].req.a)
      BY <1>1, <1>4, <2>1, NamedExists
    <2>3. SoleFits(t)'
      BY <1>2, <1>4, <2>1, <2>2 DEF SoleFits, Task, Quiet, Exists
    <2>4. TradeFits(t)
      BY <2>1 DEF TradeFits, Task
    <2>5. task' = [task EXCEPT ![c] = t]
      BY <1>1, <1>4 DEF Continue
    <2> QED  BY <1>2, <2>3, <2>4, <2>5, QuietStep
  <1> QED  BY <1>3, <1>4

LEMMA TransferSenderSole ==
    ASSUME IInv, LedgerInv, NEW c \in Client, TransferSender(c)
    PROVE  LedgerInv'
  <1>0. PICK ok \in BOOLEAN :
          /\ Statement(ok)
          /\ \E id \in Named(task[c].req.a, ok) :
               IF id = 0 THEN Refuse(c)
               ELSE Continue(c, [task[c] EXCEPT !.pc = "receiver", !.inst = id])
    BY DEF TransferSender
  <1>1. PICK id \in Named(task[c].req.a, ok) :
          IF id = 0 THEN Refuse(c)
          ELSE Continue(c, [task[c] EXCEPT !.pc = "receiver", !.inst = id])
    BY <1>0
  <1>2. Quiet
    BY <1>0, StatementGrows DEF TransferSender, Quiet, tables
  <1>3. CASE id = 0
    BY <1>1, <1>2, <1>3, QuietEnd DEF Refuse
  <1>4. CASE id # 0
    <2> PICK t : t = [task[c] EXCEPT !.pc = "receiver", !.inst = id]
      OBVIOUS
    <2>1. /\ task[c] \in Task /\ SoleFits(task[c]) /\ TradeFits(task[c])
          /\ task[c].pc \notin {"idle", "store", "peer", "commit", "remove"}
          /\ task[c].req.a \in Avatar /\ task[c].pc = "sender"
      BY TaskFacts DEF TransferSender, At, Request, LedgerInv
    <2>2. Exists(id, task[c].req.a)
      BY <1>1, <1>4, <2>1, NamedExists
    <2>3. SoleFits(t)'
      BY <1>2, <1>4, <2>1, <2>2 DEF SoleFits, Task, Quiet, Exists
    <2>4. TradeFits(t)
      BY <2>1 DEF TradeFits, Task, TransferSender, At
    <2>5. task' = [task EXCEPT ![c] = t]
      BY <1>1, <1>4 DEF Continue
    <2> QED  BY <1>2, <2>3, <2>4, <2>5, QuietStep
  <1> QED  BY <1>3, <1>4

LEMMA TransferReceiverSole ==
    ASSUME IInv, LedgerInv, NEW c \in Client, TransferReceiver(c)
    PROVE  LedgerInv'
  <1>0. PICK ok \in BOOLEAN :
          /\ Statement(ok)
          /\ \E id \in Named(task[c].req.b, ok) :
               IF id = 0 THEN Refuse(c)
               ELSE Continue(c, [task[c] EXCEPT !.pc = "funds", !.peer = id])
    BY DEF TransferReceiver
  <1>1. PICK id \in Named(task[c].req.b, ok) :
          IF id = 0 THEN Refuse(c)
          ELSE Continue(c, [task[c] EXCEPT !.pc = "funds", !.peer = id])
    BY <1>0
  <1>2. Quiet
    BY <1>0, StatementGrows DEF TransferReceiver, Quiet, tables
  <1>3. CASE id = 0
    BY <1>1, <1>2, <1>3, QuietEnd DEF Refuse
  <1>4. CASE id # 0
    <2> PICK t : t = [task[c] EXCEPT !.pc = "funds", !.peer = id]
      OBVIOUS
    <2>1. /\ task[c] \in Task /\ SoleFits(task[c]) /\ TradeFits(task[c])
          /\ task[c].pc \notin {"idle", "store", "peer", "commit", "remove"}
          /\ task[c].req.b \in Avatar /\ task[c].pc = "receiver"
          /\ task[c].req.op = "transfer"
      BY TaskFacts DEF TransferReceiver, At, Request, LedgerInv
    <2>2. Exists(id, task[c].req.b)
      BY <1>1, <1>4, <2>1, NamedExists
    <2>3. SoleFits(t)'
      BY <1>2, <1>4, <2>1, <2>2 DEF SoleFits, Task, Quiet, Exists
    <2>4. TradeFits(t)
      BY <2>1 DEF TradeFits, Task, TransferReceiver, At
    <2>5. task' = [task EXCEPT ![c] = t]
      BY <1>1, <1>4 DEF Continue
    <2> QED  BY <1>2, <2>3, <2>4, <2>5, QuietStep
  <1> QED  BY <1>3, <1>4

LEMMA FindCurrencySole ==
    ASSUME IInv, LedgerInv, NEW c \in Client, FindCurrency(c)
    PROVE  LedgerInv'
  <1> DEFINE usable == {d \in defs[task[c].req.c] : task[c].req.op = "transfer" => d.tradeable}
             next == IF task[c].req.op = "transfer" THEN "sender" ELSE "balance"
  <1>1. PICK ok \in BOOLEAN :
          /\ Statement(ok)
          /\ IF ok /\ usable # {}
             THEN \E d \in usable : Continue(c, [task[c] EXCEPT !.pc = next, !.def = d])
             ELSE Refuse(c)
    BY DEF FindCurrency
  <1>2. Quiet
    BY <1>1, StatementGrows DEF FindCurrency, Quiet, tables
  <1>3. CASE Refuse(c)
    BY <1>2, <1>3, QuietEnd DEF Refuse
  <1>4. ASSUME NEW d \in usable, Continue(c, [task[c] EXCEPT !.pc = next, !.def = d])
        PROVE  LedgerInv'
    <2> PICK t : t = [task[c] EXCEPT !.pc = next, !.def = d]
      OBVIOUS
    <2>1. task[c] \in Task /\ SoleFits(task[c]) /\ task[c].pc = "currency"
      BY TaskFacts DEF FindCurrency, LedgerInv
    <2>2. SoleFits(t)' /\ TradeFits(t)
      BY <1>2, <1>4, <2>1 DEF SoleFits, TradeFits, Task, Quiet, Exists
    <2>3. task' = [task EXCEPT ![c] = t]
      BY <1>4 DEF Continue
    <2> QED  BY <1>2, <2>2, <2>3, QuietStep
  <1> QED  BY <1>1, <1>3, <1>4

LEMMA CreditBalanceSole ==
    ASSUME IInv, LedgerInv, NEW c \in Client, CreditBalance(c)
    PROVE  LedgerInv'
  <1>0. PICK ok \in BOOLEAN :
          /\ Statement(ok)
          /\ \E held \in Held(task[c].inst, task[c].req.c, ok) :
               IF ExceedsMax(task[c].def, held.bal, task[c].req.n)
               THEN Refuse(c)
               ELSE Continue(c, [task[c] EXCEPT !.pc = "store", !.row = held])
    BY DEF CreditBalance
  <1>1. PICK held \in Held(task[c].inst, task[c].req.c, ok) :
          IF ExceedsMax(task[c].def, held.bal, task[c].req.n)
          THEN Refuse(c)
          ELSE Continue(c, [task[c] EXCEPT !.pc = "store", !.row = held])
    BY <1>0
  <1>2. Quiet
    BY <1>0, StatementGrows DEF CreditBalance, Quiet, tables
  <1>3. CASE ExceedsMax(task[c].def, held.bal, task[c].req.n)
    BY <1>1, <1>2, <1>3, QuietEnd DEF Refuse
  <1>4. CASE ~(ExceedsMax(task[c].def, held.bal, task[c].req.n))
    <2> PICK t : t = [task[c] EXCEPT !.pc = "store", !.row = held]
      OBVIOUS
    <2>1. /\ task[c] \in Task /\ SoleFits(task[c]) /\ TradeFits(task[c])
          /\ task[c].pc = "balance" /\ task[c].req.op = "credit"
      BY TaskFacts DEF CreditBalance, At, LedgerInv
    <2> PICK i, k : i = task[c].inst /\ k = task[c].req.c
      OBVIOUS
    <2>2. Current(held, i, k)'
      BY <1>0, <1>1, <1>2, HeldCurrent
    <2>3. SoleFits(t)'
      BY <1>2, <1>4, <2>1, <2>2 DEF SoleFits, Task, Quiet, Exists, Current, WalletRows
    <2>4. TradeFits(t)
      BY <1>4, <2>1 DEF TradeFits, Task
    <2>5. task' = [task EXCEPT ![c] = t]
      BY <1>1, <1>4 DEF Continue
    <2> QED  BY <1>2, <2>3, <2>4, <2>5, QuietStep
  <1> QED  BY <1>3, <1>4

LEMMA DebitBalanceSole ==
    ASSUME IInv, LedgerInv, NEW c \in Client, DebitBalance(c)
    PROVE  LedgerInv'
  <1>0. PICK ok \in BOOLEAN :
          /\ Statement(ok)
          /\ \E held \in Held(task[c].inst, task[c].req.c, ok) :
               IF held.id = 0 \/ held.bal < task[c].req.n
               THEN Refuse(c)
               ELSE Continue(c, [task[c] EXCEPT !.pc = "store", !.row = held])
    BY DEF DebitBalance
  <1>1. PICK held \in Held(task[c].inst, task[c].req.c, ok) :
          IF held.id = 0 \/ held.bal < task[c].req.n
          THEN Refuse(c)
          ELSE Continue(c, [task[c] EXCEPT !.pc = "store", !.row = held])
    BY <1>0
  <1>2. Quiet
    BY <1>0, StatementGrows DEF DebitBalance, Quiet, tables
  <1>3. CASE held.id = 0 \/ held.bal < task[c].req.n
    BY <1>1, <1>2, <1>3, QuietEnd DEF Refuse
  <1>4. CASE ~(held.id = 0 \/ held.bal < task[c].req.n)
    <2> PICK t : t = [task[c] EXCEPT !.pc = "store", !.row = held]
      OBVIOUS
    <2>1. /\ task[c] \in Task /\ SoleFits(task[c]) /\ TradeFits(task[c])
          /\ task[c].pc = "balance" /\ task[c].req.op = "debit"
      BY TaskFacts DEF DebitBalance, At, LedgerInv
    <2> PICK i, k : i = task[c].inst /\ k = task[c].req.c
      OBVIOUS
    <2>2. Current(held, i, k)'
      BY <1>0, <1>1, <1>2, HeldCurrent
    <2>3. SoleFits(t)'
      BY <1>2, <1>4, <2>1, <2>2 DEF SoleFits, Task, Quiet, Exists, Current, WalletRows
    <2>4. TradeFits(t)
      BY <1>4, <2>1 DEF TradeFits, Task
    <2>5. task' = [task EXCEPT ![c] = t]
      BY <1>1, <1>4 DEF Continue
    <2> QED  BY <1>2, <2>3, <2>4, <2>5, QuietStep
  <1> QED  BY <1>3, <1>4

LEMMA TransferFundsSole ==
    ASSUME IInv, LedgerInv, NEW c \in Client, TransferFunds(c)
    PROVE  LedgerInv'
  <1>0. PICK ok \in BOOLEAN :
          /\ Statement(ok)
          /\ \E held \in Held(task[c].inst, task[c].req.c, ok) :
               IF held.id = 0 \/ held.bal < task[c].req.n
               THEN Refuse(c)
               ELSE Continue(c, [task[c] EXCEPT !.pc = "peer", !.row = held])
    BY DEF TransferFunds
  <1>1. PICK held \in Held(task[c].inst, task[c].req.c, ok) :
          IF held.id = 0 \/ held.bal < task[c].req.n
          THEN Refuse(c)
          ELSE Continue(c, [task[c] EXCEPT !.pc = "peer", !.row = held])
    BY <1>0
  <1>2. Quiet
    BY <1>0, StatementGrows DEF TransferFunds, Quiet, tables
  <1>3. CASE held.id = 0 \/ held.bal < task[c].req.n
    BY <1>1, <1>2, <1>3, QuietEnd DEF Refuse
  <1>4. CASE ~(held.id = 0 \/ held.bal < task[c].req.n)
    <2> PICK t : t = [task[c] EXCEPT !.pc = "peer", !.row = held]
      OBVIOUS
    <2>1. /\ task[c] \in Task /\ SoleFits(task[c]) /\ TradeFits(task[c])
          /\ task[c].pc = "funds" /\ task[c].req.op = "transfer"
      BY TaskFacts DEF TransferFunds, At, LedgerInv
    <2> PICK i, k : i = task[c].inst /\ k = task[c].req.c
      OBVIOUS
    <2>2. Current(held, i, k)'
      BY <1>0, <1>1, <1>2, HeldCurrent
    <2>3. SoleFits(t)'
      BY <1>2, <1>4, <2>1, <2>2 DEF SoleFits, Task, Quiet, Exists, Current, WalletRows
    <2>4. TradeFits(t)
      BY <1>4, <2>1 DEF TradeFits, Task
    <2>5. task' = [task EXCEPT ![c] = t]
      BY <1>1, <1>4 DEF Continue
    <2> QED  BY <1>2, <2>3, <2>4, <2>5, QuietStep
  <1> QED  BY <1>3, <1>4

LEMMA TransferPeerSole ==
    ASSUME IInv, LedgerInv, NEW c \in Client, TransferPeer(c)
    PROVE  LedgerInv'
  <1>0. PICK ok \in BOOLEAN :
          /\ Statement(ok)
          /\ \E held \in Held(task[c].peer, task[c].req.c, ok) :
               IF ExceedsMax(task[c].def, held.bal, task[c].req.n)
               THEN Refuse(c)
               ELSE Continue(c, [task[c] EXCEPT !.pc = "commit", !.peerRow = held])
    BY DEF TransferPeer
  <1>1. PICK held \in Held(task[c].peer, task[c].req.c, ok) :
          IF ExceedsMax(task[c].def, held.bal, task[c].req.n)
          THEN Refuse(c)
          ELSE Continue(c, [task[c] EXCEPT !.pc = "commit", !.peerRow = held])
    BY <1>0
  <1>2. Quiet
    BY <1>0, StatementGrows DEF TransferPeer, Quiet, tables
  <1>3. CASE ExceedsMax(task[c].def, held.bal, task[c].req.n)
    BY <1>1, <1>2, <1>3, QuietEnd DEF Refuse
  <1>4. CASE ~(ExceedsMax(task[c].def, held.bal, task[c].req.n))
    <2> PICK t : t = [task[c] EXCEPT !.pc = "commit", !.peerRow = held]
      OBVIOUS
    <2>1. /\ task[c] \in Task /\ SoleFits(task[c]) /\ TradeFits(task[c])
          /\ task[c].pc = "peer" /\ task[c].req.op = "transfer"
      BY TaskFacts DEF TransferPeer, At, LedgerInv
    <2> PICK i, k : i = task[c].peer /\ k = task[c].req.c
      OBVIOUS
    <2>2. Current(held, i, k)'
      BY <1>0, <1>1, <1>2, HeldCurrent
    <2>3. SoleFits(t)'
      BY <1>2, <1>4, <2>1, <2>2 DEF SoleFits, Task, Quiet, Exists, Current, WalletRows
    <2>4. TradeFits(t)
      BY <1>4, <2>1 DEF TradeFits, Task
    <2>5. task' = [task EXCEPT ![c] = t]
      BY <1>1, <1>4 DEF Continue
    <2> QED  BY <1>2, <2>3, <2>4, <2>5, QuietStep
  <1> QED  BY <1>3, <1>4

-----------------------------------------------------------------------------
(* Steps that write.                                                       *)

LEMMA WriteStep ==
    ASSUME Exclusive, IInv, IInv', LedgerInv, NEW c \in Client, task[c].pc # "idle",
           NEW t, task' = [task EXCEPT ![c] = t], Footprint(c),
           TablesSole', SoleFits(t)', TradeFits(t)
    PROVE  LedgerInv'
  <1>1. \A d \in Client \ {c} : SoleFits(task[d])'
    BY OthersKeep
  <1> QED  BY <1>1, StepTo

LEMMA WriteEnd ==
    ASSUME Exclusive, IInv, IInv', LedgerInv, NEW c \in Client, task[c].pc # "idle",
           NEW ok, NEW bal, Respond(c, ok, bal), Footprint(c), TablesSole'
    PROVE  LedgerInv'
  <1>1. task' = [task EXCEPT ![c] = Idle]
    BY DEF Respond
  <1> QED  BY <1>1, IdleSole, WriteStep

LEMMA OthersStay ==
    ASSUME IInv, NEW c \in Client, NEW t, task' = [task EXCEPT ![c] = t]
    PROVE  task'[c] = t /\ \A d \in Client \ {c} : task'[d] = task[d]
  BY DEF IInv, TypeOK

LEMMA InsertInstanceSole ==
    ASSUME IInv, LedgerInv, NEW a \in Avatar, InsertInstance(a), faults' = 0 => faults = 0
    PROVE  TablesSole' /\ [id |-> nextInst, name |-> a] \in instances'
  <1>1. instances' = instances \cup {[id |-> nextInst, name |-> a]} /\ wallets' = wallets
    BY DEF InsertInstance, NewInstance
  <1>2. \A i \in instances : i.id # nextInst /\ i.name # a
    BY DEF IInv, TypeOK, TablesFit, Instance, InstanceId, InsertInstance, InstanceRows
  <1>3. \A i, j \in instances' : i.id = j.id \/ i.name = j.name => i = j
    BY <1>1, <1>2 DEF LedgerInv, TablesSole
  <1>4. Keyed(wallets)' /\ NoOrphanWallets'
    BY <1>1 DEF LedgerInv, TablesSole, NoOrphanWallets
  <1> QED  BY <1>1, <1>3, <1>4 DEF TablesSole

LEMMA CreateInsertSole ==
    ASSUME Exclusive, IInv, IInv', LedgerInv, NEW c \in Client, CreateInsert(c)
    PROVE  LedgerInv'
  <1> PICK t : t = [task[c] EXCEPT !.pc = "children", !.inst = nextInst]
    OBVIOUS
  <1>1. task' = [task EXCEPT ![c] = t]
    BY DEF CreateInsert, Continue
  <1>2. /\ task[c] \in Task /\ SoleFits(task[c]) /\ TradeFits(task[c])
        /\ task[c].pc = "insert" /\ task[c].req.a \in Avatar
    BY TaskFacts DEF CreateInsert, At, LedgerInv, Request
  <1>3. InsertInstance(task[c].req.a) /\ faults' = faults
    BY DEF CreateInsert
  <1>4. TablesSole' /\ [id |-> nextInst, name |-> task[c].req.a] \in instances'
    BY <1>2, <1>3, InsertInstanceSole
  <1>5. Footprint(c)
    BY <1>1, <1>3, OthersStay DEF Footprint, InsertInstance, NewInstance
  <1>6. SoleFits(t)' /\ TradeFits(t)
    BY <1>2, <1>3, <1>4 DEF SoleFits, TradeFits, Task, Exists, InsertInstance
  <1> QED  BY <1>1, <1>2, <1>4, <1>5, <1>6, WriteStep

LEMMA CreateConflictSole ==
    ASSUME Exclusive, IInv, IInv', LedgerInv, NEW c \in Client, CreateConflict(c)
    PROVE  LedgerInv'
  <1>1. task[c].pc = "insert" /\ task[c].req.a \in Avatar /\ Respond(c, FALSE, 0)
    BY TaskFacts DEF CreateConflict, At, Request, Refuse
  <1>2. faults' = 0 => faults = 0
    BY StatementGrows DEF CreateConflict
  <1>3. CASE UNCHANGED tables
    BY <1>1, <1>2, <1>3, QuietEnd DEF Quiet, tables
  <1>4. CASE InsertInstance(task[c].req.a)
    <2>1. TablesSole'
      BY <1>1, <1>2, <1>4, InsertInstanceSole
    <2>2. Footprint(c)
      BY <1>1, <1>2, <1>4, OthersStay DEF Footprint, InsertInstance, NewInstance, Respond
    <2> QED  BY <1>1, <2>1, <2>2, WriteEnd
  <1> QED  BY <1>3, <1>4 DEF CreateConflict, tables

LEMMA DeletePurgeSole ==
    ASSUME Exclusive, IInv, IInv', LedgerInv, NEW c \in Client, DeletePurge(c)
    PROVE  LedgerInv'
  <1>1. PICK ok \in BOOLEAN :
          Statement(ok) /\ wallets' = IF ok THEN Purged(task[c].inst) ELSE wallets
    BY DEF DeletePurge
  <1> PICK t : t = [task[c] EXCEPT !.pc = "remove"]
    OBVIOUS
  <1>2. task' = [task EXCEPT ![c] = t] /\ instances' = instances
    BY DEF DeletePurge, Continue
  <1>3. /\ task[c] \in Task /\ SoleFits(task[c]) /\ TradeFits(task[c])
        /\ task[c].pc = "purge"
    BY TaskFacts DEF DeletePurge, At, LedgerInv
  <1>4. faults' = 0 => faults = 0 /\ ok
    BY <1>1, StatementGrows
  <1>5. wallets' \subseteq wallets /\ \A w \in wallets : w.inst # task[c].inst => w \in wallets'
    BY <1>1 DEF Purged
  <1>6. TablesSole'
    BY <1>2, <1>4, <1>5 DEF LedgerInv, TablesSole, Keyed, NoOrphanWallets
  <1>7. Footprint(c)
    BY <1>2, <1>4, <1>5, OthersStay DEF Footprint
  <1>8. SoleFits(t)' /\ TradeFits(t)
    BY <1>1, <1>2, <1>3, <1>4 DEF SoleFits, TradeFits, Task, Exists, Purged
  <1> QED  BY <1>2, <1>3, <1>6, <1>7, <1>8, WriteStep

LEMMA DeleteRemoveSole ==
    ASSUME Exclusive, IInv, IInv', LedgerInv, NEW c \in Client, DeleteRemove(c)
    PROVE  LedgerInv'
  <1>1. PICK ok \in BOOLEAN :
          /\ Statement(ok)
          /\ instances' = IF ok THEN {i \in instances : i.id # task[c].inst} ELSE instances
    BY DEF DeleteRemove
  <1>2. Respond(c, TRUE, 0) /\ wallets' = wallets
    BY DEF DeleteRemove
  <1>3. task[c] \in Task /\ SoleFits(task[c]) /\ task[c].pc = "remove"
    BY TaskFacts DEF DeleteRemove, At, LedgerInv
  <1>4. faults' = 0 => faults = 0 /\ ok
    BY <1>1, StatementGrows
  <1>5. TablesSole'
    BY <1>1, <1>2, <1>3, <1>4 DEF LedgerInv, TablesSole, NoOrphanWallets, SoleFits
  <1>6. \A i \in instances : i.id = task[c].inst => i.name = task[c].req.a
    BY <1>3 DEF SoleFits, Exists, LedgerInv, TablesSole
  <1>7. Footprint(c)
    BY <1>1, <1>2, <1>4, <1>6, OthersStay DEF Footprint, Respond
  <1> QED  BY <1>2, <1>3, <1>5, <1>7, WriteEnd

-----------------------------------------------------------------------------
(* What the steps that store wallets do to the table.                      *)

\* What a snapshot says of a table: the balance n, which is 0 without a row.
Holds(rows, i, k, n) ==
    \/ \E w \in rows : w.inst = i /\ w.cur = k /\ w.bal = n
    \/ n = 0 /\ \A w \in rows : w.inst # i \/ w.cur # k

LEMMA CurrentHolds ==
    ASSUME NEW row, NEW i, NEW k, Current(row, i, k),
           row.id # 0 \/ WalletRows(i, k) = {}
    PROVE  Holds(wallets, i, k, row.bal)
  BY DEF Current, Holds, WalletRows

LEMMA SetCurrent ==
    ASSUME NEW rows, Table(rows), NEW id, NEW i, NEW k, NEW bal, NEW n \in Int64,
           [id |-> id, inst |-> i, cur |-> k, bal |-> bal] \in rows
    PROVE  Wrote(rows, SetBalance(rows, id, n), i, k, n)
  <1>1. PICK v \in rows : v = [id |-> id, inst |-> i, cur |-> k, bal |-> bal]
    OBVIOUS
  <1>2. v.id = id /\ v.inst = i /\ v.cur = k
    BY <1>1
  <1> QED  BY <1>2, SetBalanceWrites

\* A credit that changes anything sets the balance to the snapshot plus the
\* amount, and the snapshot is what the avatar has.
LEMMA CreditEffect ==
    ASSUME IInv, LedgerInv, NEW c \in Client, CreditStore(c)
    PROVE  LET t == task[c]
               new == Plus(t.row.bal, t.req.n)
           IN  \/ wallets' = wallets /\ faults' # 0
               \/ /\ Wrote(wallets, wallets', t.inst, t.req.c, new)
                  /\ Holds(wallets, t.inst, t.req.c, t.row.bal)
  <1> PICK t : t = task[c]
    OBVIOUS
  <1> PICK new : new = Plus(t.row.bal, t.req.n)
    OBVIOUS
  <1>1. PICK ok \in BOOLEAN :
          /\ Statement(ok)
          /\ StoreWallets(IF ~ok THEN wallets
                          ELSE IF t.row.id = 0 THEN InsertWallet(wallets, t.inst, t.req.c, new)
                          ELSE SetBalance(wallets, t.row.id, new))
    BY DEF CreditStore
  <1>2. /\ t.pc = "store" /\ t.req.op = "credit" /\ Current(t.row, t.inst, t.req.c)
    BY DEF CreditStore, At, LedgerInv, SoleFits
  <1>3. /\ t.req.c \in Currency /\ t.req.n \in Int64 /\ t.req.n > 0 /\ t.row.bal \in Int64
        /\ t.inst \in Nat
    BY <1>2, StoreFacts DEF WellFormed, InstanceId
  <1>4. new \in Int64
    BY <1>3, PlusFacts
  <1>5. Table(wallets) /\ \A w \in wallets : w.id < nextRow
    BY WalletsTable, WalletsStorable
  <1>6. CASE ~ok
    BY <1>1, <1>6, StatementGrows DEF StoreWallets
  <1>7. CASE ok /\ t.row.id # 0
    <2>1. Wrote(wallets, SetBalance(wallets, t.row.id, new), t.inst, t.req.c, new)
      BY <1>2, <1>4, <1>5, <1>7, SetCurrent DEF Current
    <2> QED  BY <1>1, <1>2, <1>7, <2>1, CurrentHolds DEF StoreWallets
  <1>8. CASE ok /\ t.row.id = 0 /\ WalletRows(t.inst, t.req.c) = {}
    <2>1. Wrote(wallets, InsertWallet(wallets, t.inst, t.req.c, new), t.inst, t.req.c, new)
      BY <1>3, <1>4, <1>5, <1>8, InsertWrites DEF WalletRows
    <2> QED  BY <1>1, <1>2, <1>8, <2>1, CurrentHolds DEF StoreWallets
  <1>9. CASE ok /\ t.row.id = 0 /\ WalletRows(t.inst, t.req.c) # {}
    <2>1. InsertWallet(wallets, t.inst, t.req.c, new) = wallets
      BY <1>9 DEF InsertWallet, WalletRows
    <2>2. faults' # 0
      BY <1>1, <1>2, <1>9, StatementGrows DEF Current
    <2> QED  BY <1>1, <1>9, <2>1, <2>2 DEF StoreWallets
  <1> QED  BY <1>6, <1>7, <1>8, <1>9

LEMMA DebitEffect ==
    ASSUME IInv, LedgerInv, NEW c \in Client, DebitStore(c)
    PROVE  LET t == task[c]
           IN  \/ wallets' = wallets /\ faults' # 0
               \/ /\ Wrote(wallets, wallets', t.inst, t.req.c, t.row.bal - t.req.n)
                  /\ Holds(wallets, t.inst, t.req.c, t.row.bal)
  <1> PICK t : t = task[c]
    OBVIOUS
  <1> PICK left : left = t.row.bal - t.req.n
    OBVIOUS
  <1>1. PICK ok \in BOOLEAN :
          Statement(ok) /\ StoreWallets(IF ok THEN SetBalance(wallets, t.row.id, left) ELSE wallets)
    BY DEF DebitStore
  <1>2. /\ t.pc = "store" /\ t.req.op = "debit" /\ Current(t.row, t.inst, t.req.c)
        /\ t.row.id # 0
    BY DEF DebitStore, At, LedgerInv, SoleFits
  <1>3. left \in Int64
    BY <1>2, StoreFacts DEF AmountsFit, WellFormed, Int64
  <1>4. CASE ~ok
    BY <1>1, <1>4, StatementGrows DEF StoreWallets
  <1>5. CASE ok
    <2>1. Wrote(wallets, SetBalance(wallets, t.row.id, left), t.inst, t.req.c, left)
      BY <1>2, <1>3, WalletsTable, SetCurrent DEF Current
    <2> QED  BY <1>1, <1>2, <1>5, <2>1, CurrentHolds DEF StoreWallets
  <1> QED  BY <1>4, <1>5

\* A transfer that changes anything makes both of its writes.
LEMMA TransferEffect ==
    ASSUME IInv, LedgerInv, NEW c \in Client, TransferCommit(c)
    PROVE  LET t == task[c]
           IN  \/ wallets' = wallets /\ faults' # 0
               \/ /\ \E mid : /\ Wrote(wallets, mid, t.inst, t.req.c, t.row.bal - t.req.n)
                              /\ Wrote(mid, wallets', t.peer, t.req.c,
                                       Plus(t.peerRow.bal, t.req.n))
                  /\ Holds(wallets, t.inst, t.req.c, t.row.bal)
                  /\ Holds(wallets, t.peer, t.req.c, t.peerRow.bal)
  <1> PICK t : t = task[c]
    OBVIOUS
  <1> PICK left, new : left = t.row.bal - t.req.n /\ new = Plus(t.peerRow.bal, t.req.n)
    OBVIOUS
  <1> PICK mid : mid = SetBalance(wallets, t.row.id, left)
    OBVIOUS
  <1>1. PICK ok \in BOOLEAN : Statement(ok) /\ StoreWallets(IF ok THEN Transferred(t) ELSE wallets)
    BY DEF TransferCommit
  <1>2. /\ t.pc = "commit" /\ t.req.op = "transfer" /\ t.row.id # 0
        /\ Current(t.row, t.inst, t.req.c) /\ Current(t.peerRow, t.peer, t.req.c)
    BY DEF TransferCommit, At, LedgerInv, SoleFits
  <1>3. /\ t.req.c \in Currency /\ t.req.n \in Int64 /\ t.req.n > 0
        /\ t.row.bal \in Int64 /\ t.peerRow.bal \in Int64 /\ AmountsFit(t)
    BY <1>2, StoreFacts DEF WellFormed
  <1>4. t.inst \in Nat /\ t.peer \in Nat
    BY TaskFacts DEF Task, InstanceId
  <1>5. left \in Int64 /\ new \in Int64
    <2>1. left \in Int64
      BY <1>2, <1>3 DEF AmountsFit, Int64
    <2>2. new \in Int64
      BY <1>3, PlusFacts
    <2> QED  BY <2>1, <2>2
  <1>6. Wrote(wallets, mid, t.inst, t.req.c, left)
    BY <1>2, <1>5, WalletsTable, SetCurrent DEF Current
  <1>7. Table(mid) /\ \A w \in mid : w.id < nextRow
    <2>1. \A w \in wallets : w.id < nextRow
      BY WalletsStorable
    <2>2. \A w \in mid : \E v \in wallets : w.id = v.id
      BY DEF SetBalance, IInv, TypeOK, Balance
    <2> QED  BY <1>6, <2>1, <2>2 DEF Wrote
  <1>8. Holds(wallets, t.inst, t.req.c, t.row.bal)
    BY <1>2, CurrentHolds
  <1>9. CASE ~ok
    BY <1>1, <1>9, StatementGrows DEF StoreWallets
  <1>10. CASE ok /\ t.peerRow.id # 0
    <2>1. wallets' = SetBalance(mid, t.peerRow.id, new)
      BY <1>1, <1>10 DEF Transferred, StoreWallets
    <2>2. PICK r \in wallets : r.id = t.peerRow.id /\ r.inst = t.peer /\ r.cur = t.req.c
      BY <1>2, <1>10 DEF Current
    <2>3. PICK v \in mid : v.id = r.id /\ v.inst = r.inst /\ v.cur = r.cur
      <3>1. (IF r.id = t.row.id THEN [r EXCEPT !.bal = left] ELSE r) \in mid
        BY DEF SetBalance
      <3> QED  BY <3>1 DEF IInv, TypeOK, Balance
    <2>4. Wrote(mid, wallets', t.peer, t.req.c, new)
      BY <1>5, <1>7, <2>1, <2>2, <2>3, SetBalanceWrites
    <2>5. Holds(wallets, t.peer, t.req.c, t.peerRow.bal)
      BY <1>2, <1>10, CurrentHolds
    <2> QED  BY <1>6, <1>8, <2>4, <2>5
  <1>11. CASE ok /\ t.peerRow.id = 0 /\ WalletRows(t.peer, t.req.c) = {}
    <2>1. wallets' = InsertWallet(mid, t.peer, t.req.c, new)
      BY <1>1, <1>11 DEF Transferred, StoreWallets
    <2>2. \A w \in mid : w.inst # t.peer \/ w.cur # t.req.c
      <3>1. mid \subseteq Row
        BY <1>7 DEF Table
      <3>2. t.inst # t.peer
        BY <1>2, <1>11 DEF Current, WalletRows
      <3> QED  BY <1>6, <1>11, <3>1, <3>2 DEF Wrote, WalletRows
    <2>3. Wrote(mid, wallets', t.peer, t.req.c, new)
      BY <1>3, <1>4, <1>5, <1>7, <2>1, <2>2, InsertWrites
    <2>4. Holds(wallets, t.peer, t.req.c, t.peerRow.bal)
      BY <1>2, <1>11, CurrentHolds
    <2> QED  BY <1>6, <1>8, <2>3, <2>4
  <1>12. CASE ok /\ t.peerRow.id = 0 /\ WalletRows(t.peer, t.req.c) # {}
    <2>1. wallets' = wallets
      BY <1>1, <1>12 DEF Transferred, StoreWallets
    <2>2. faults' # 0
      BY <1>1, <1>2, <1>12, StatementGrows DEF Current
    <2> QED  BY <2>1, <2>2
  <1> QED  BY <1>9, <1>10, <1>11, <1>12

\* An initial balance that is inserted meets no wallet of the pair.
LEMMA EndowEffect ==
    ASSUME IInv, LedgerInv, NEW c \in Client, CreateEndow(c)
    PROVE  LET i == task[c].inst
           IN  \/ wallets' = wallets
               \/ \E e \in task[c].todo :
                     /\ WalletRows(i, e.cur) = {}
                     /\ Wrote(wallets, wallets', i, e.cur, e.n)
  <1> PICK i : i = task[c].inst
    OBVIOUS
  <1>1. PICK e \in task[c].todo, ok \in BOOLEAN :
          StoreWallets(IF ok THEN InsertWallet(wallets, i, e.cur, e.n) ELSE wallets)
    BY DEF CreateEndow
  <1>2. i \in Nat /\ e.cur \in Currency /\ e.n \in Int64
    BY TaskFacts DEF Task, InstanceId
  <1>3. CASE ~ok \/ WalletRows(i, e.cur) # {}
    BY <1>1, <1>3 DEF StoreWallets, InsertWallet, WalletRows
  <1>4. CASE ok /\ WalletRows(i, e.cur) = {}
    <2>1. Wrote(wallets, InsertWallet(wallets, i, e.cur, e.n), i, e.cur, e.n)
      BY <1>2, <1>4, WalletsTable, WalletsStorable, InsertWrites DEF WalletRows
    <2> QED  BY <1>1, <1>4, <2>1 DEF StoreWallets
  <1> QED  BY <1>3, <1>4

-----------------------------------------------------------------------------
(* Every step keeps the invariant.                                         *)

\* Every row belongs to an avatar that exists.
Owned(rows) == \A w \in rows : \E j \in instances : j.id = w.inst

LEMMA WroteOwned ==
    ASSUME NEW old, NEW new, NEW i, NEW k, NEW n, NEW a, Wrote(old, new, i, k, n),
           Exists(i, a), Owned(old)
    PROVE  Owned(new)
  <1>1. ASSUME NEW w \in new PROVE \E j \in instances : j.id = w.inst
    <2>1. CASE w.inst = i
      BY <2>1 DEF Exists
    <2>2. CASE w.inst # i
      BY <2>2 DEF Wrote, Table, Owned
    <2> QED  BY <2>1, <2>2
  <1> QED  BY <1>1 DEF Owned

\* The table after a step that wrote at most wallets of the avatars it found.
LEMMA StoreSole ==
    ASSUME LedgerInv, IInv, Table(wallets'), instances' = instances, faults' = 0 => faults = 0,
           Owned(wallets) => Owned(wallets')
    PROVE  TablesSole'
  BY DEF LedgerInv, TablesSole, Table, NoOrphanWallets, Owned

LEMMA CreateEndowSole ==
    ASSUME Exclusive, IInv, IInv', LedgerInv, NEW c \in Client, CreateEndow(c)
    PROVE  LedgerInv'
  <1>1. PICK e \in task[c].todo, ok \in BOOLEAN :
          Statement(ok) /\ Continue(c, [task[c] EXCEPT !.todo = @ \ {e}])
    BY DEF CreateEndow
  <1> PICK t : t = [task[c] EXCEPT !.todo = @ \ {e}]
    OBVIOUS
  <1>2. task' = [task EXCEPT ![c] = t] /\ instances' = instances
    BY <1>1 DEF CreateEndow, Continue, StoreWallets
  <1>3. /\ task[c] \in Task /\ SoleFits(task[c]) /\ task[c].pc = "endow" /\ task[c].inst # 0
    BY TaskFacts DEF CreateEndow, At, LedgerInv, TaskFits, FoundFits
  <1>4. faults' = 0 => faults = 0
    BY <1>1, StatementGrows
  <1>5. \/ wallets' = wallets
        \/ \E k, n : Wrote(wallets, wallets', task[c].inst, k, n)
    BY EndowEffect
  <1>6. TablesSole'
    BY <1>2, <1>3, <1>4, <1>5, WroteOwned, StoreSole, WalletsTable DEF SoleFits, Wrote
  <1>7. Footprint(c)
    BY <1>2, <1>4, <1>5, OthersStay DEF Footprint, Wrote
  <1>8. SoleFits(t)' /\ TradeFits(t)
    BY <1>2, <1>3 DEF SoleFits, TradeFits, Task, Exists
  <1> QED  BY <1>2, <1>3, <1>6, <1>7, <1>8, WriteStep

LEMMA StoreKeepsSole ==
    ASSUME Exclusive, IInv, IInv', LedgerInv, NEW c \in Client,
           CreditStore(c) \/ DebitStore(c) \/ TransferCommit(c)
    PROVE  LedgerInv'
  <1> PICK i, j : i = task[c].inst /\ j = task[c].peer
    OBVIOUS
  <1>1. /\ task[c].pc # "idle" /\ i # 0 /\ SoleFits(task[c])
        /\ task[c].pc = "commit" => j # 0
    BY TaskFacts DEF CreditStore, DebitStore, TransferCommit, At, LedgerInv, TaskFits, FoundFits
  <1>2. instances' = instances
    BY DEF CreditStore, DebitStore, TransferCommit, StoreWallets
  <1>3. faults' = 0 => faults = 0
    BY StatementGrows DEF CreditStore, DebitStore, TransferCommit
  <1>4. PICK bal : Respond(c, TRUE, bal)
    BY DEF CreditStore, DebitStore, TransferCommit
  <1>5. \/ wallets' = wallets
        \/ \E k, n : Wrote(wallets, wallets', i, k, n)
        \/ task[c].pc = "commit" /\ \E mid, k, n, m : Wrote(wallets, mid, i, k, n)
                                                   /\ Wrote(mid, wallets', j, k, m)
    <2>1. CASE CreditStore(c)
      BY <2>1, CreditEffect
    <2>2. CASE DebitStore(c)
      BY <2>2, DebitEffect
    <2>3. CASE TransferCommit(c)
      BY <2>3, TransferEffect DEF TransferCommit, At
    <2> QED  BY <2>1, <2>2, <2>3
  <1>6. TablesSole' /\ \A w \in Row : w.inst \notin {i, j} => (w \in wallets' <=> w \in wallets)
    <2>1. CASE wallets' = wallets
      BY <1>2, <1>3, <2>1, StoreSole, WalletsTable
    <2>2. ASSUME NEW k, NEW n, Wrote(wallets, wallets', i, k, n)
          PROVE  /\ TablesSole'
                 /\ \A w \in Row : w.inst \notin {i, j} => (w \in wallets' <=> w \in wallets)
      <3>1. Exists(i, task[c].req.a)
        BY <1>1 DEF SoleFits
      <3>2. Owned(wallets) => Owned(wallets')
        BY <2>2, <3>1, WroteOwned
      <3> QED  BY <1>2, <1>3, <2>2, <3>2, StoreSole DEF Wrote
    <2>3. ASSUME task[c].pc = "commit", NEW mid, NEW k, NEW n, NEW m,
                 Wrote(wallets, mid, i, k, n), Wrote(mid, wallets', j, k, m)
          PROVE  /\ TablesSole'
                 /\ \A w \in Row : w.inst \notin {i, j} => (w \in wallets' <=> w \in wallets)
      <3>1. Exists(i, task[c].req.a) /\ Exists(j, task[c].req.b)
        BY <1>1, <2>3 DEF SoleFits
      <3>2. Owned(wallets) => Owned(wallets')
        BY <2>3, <3>1, WroteOwned
      <3> QED  BY <1>2, <1>3, <2>3, <3>2, StoreSole DEF Wrote
    <2> QED  BY <1>5, <2>1, <2>2, <2>3
  <1>7. Footprint(c)
    BY <1>2, <1>3, <1>4, <1>6, OthersStay DEF Footprint, Respond
  <1> QED  BY <1>1, <1>4, <1>6, <1>7, WriteEnd

\* The reconciler touches no wallet, and after a crash nobody knows anything.
LEMMA DefineSole ==
    ASSUME LedgerInv, NEW k \in Currency, DefineCurrency(k) \/ DropCurrency(k)
    PROVE  LedgerInv'
  <1>1. Quiet /\ task' = task
    BY DEF DefineCurrency, DropCurrency, Quiet
  <1>2. \A c \in Client : SoleFits(task[c])' /\ TradeFits(task[c])'
    BY <1>1, QuietOthers DEF LedgerInv, TradeFits
  <1> QED  BY <1>1, <1>2, QuietTables DEF LedgerInv

LEMMA CrashSole ==
    ASSUME LedgerInv, Crash
    PROVE  LedgerInv'
  <1>1. Quiet /\ task' = [c \in Client |-> Idle]
    BY DEF Crash, Quiet, tables
  <1>2. \A c \in Client : SoleFits(task[c])' /\ TradeFits(task[c])'
    BY <1>1, IdleSole DEF SoleFits, TradeFits, Current, Idle, NoRow
  <1> QED  BY <1>1, <1>2, QuietTables DEF LedgerInv

LEMMA InitSole == Init => LedgerInv
  <1> SUFFICES ASSUME Init PROVE LedgerInv
    OBVIOUS
  <1>1. TablesSole
    BY DEF Init, TablesSole, Keyed, NoOrphanWallets
  <1>2. \A c \in Client : SoleFits(task[c]) /\ TradeFits(task[c])
    BY DEF Init, SoleFits, TradeFits, Idle, NoRow
  <1> QED  BY <1>1, <1>2 DEF LedgerInv

LEMMA NextSole ==
    ASSUME Exclusive, IInv, LedgerInv, [Next]_vars
    PROVE  LedgerInv'
  <1>0. IInv'
    BY NextKeeps
  <1>1. ASSUME NEW c \in Client, Receive(c) \/ Reject(c) PROVE LedgerInv'
    BY <1>1, ReceiveSole, RefusedSole
  <1>2. ASSUME NEW c \in Client, Create(c) PROVE LedgerInv'
    BY <1>0, <1>2, RefusedSole, CreateInsertSole, CreateConflictSole, CreateChildrenSole,
       CreateListSole, CreateEndowSole DEF Create
  <1>3. ASSUME NEW c \in Client, Delete(c) PROVE LedgerInv'
    BY <1>0, <1>3, DeleteFindSole, DeletePurgeSole, DeleteRemoveSole DEF Delete
  <1>4. ASSUME NEW c \in Client, FindAvatar(c) \/ FindCurrency(c) PROVE LedgerInv'
    BY <1>4, FindAvatarSole, FindCurrencySole
  <1>5. ASSUME NEW c \in Client, Credit(c) \/ Debit(c) PROVE LedgerInv'
    BY <1>0, <1>5, CreditBalanceSole, DebitBalanceSole, StoreKeepsSole DEF Credit, Debit
  <1>6. ASSUME NEW c \in Client, Transfer(c) PROVE LedgerInv'
    BY <1>0, <1>6, TransferSenderSole, TransferReceiverSole, TransferFundsSole,
       TransferPeerSole, StoreKeepsSole DEF Transfer
  <1>7. ASSUME NEW k \in Currency, DefineCurrency(k) \/ DropCurrency(k) PROVE LedgerInv'
    BY <1>7, DefineSole
  <1>8. CASE Crash
    BY <1>8, CrashSole
  <1>9. CASE UNCHANGED vars
    <2>1. Quiet /\ task' = task
      BY <1>9 DEF vars, Quiet
    <2>2. \A c \in Client : SoleFits(task[c])' /\ TradeFits(task[c])'
      BY <2>1, QuietOthers DEF LedgerInv, TradeFits
    <2> QED  BY <2>1, <2>2, QuietTables DEF LedgerInv
  <1> QED  BY <1>1, <1>2, <1>3, <1>4, <1>5, <1>6, <1>7, <1>8, <1>9 DEF Next, Step

-----------------------------------------------------------------------------
(* The theorems.                                                           *)

\* Under an exclusive workload, what a handler has read stays true until it
\* writes, in every reachable state, whatever fails or dies.
THEOREM SoleInvariantHolds ==
    ASSUME Exclusive
    PROVE  Spec => [](IInv /\ LedgerInv)
  <1>1. Init => IInv /\ LedgerInv
    BY InitEstablishes, InitSole
  <1>2. IInv /\ LedgerInv /\ [Next]_vars => (IInv /\ LedgerInv)'
    BY NextKeeps, NextSole
  <1> QED  BY <1>1, <1>2, PTL DEF Spec

\* DeleteAvatarInstance leaves no wallet rows behind unless a statement failed.
THEOREM NoWalletOrphaned ==
    ASSUME Exclusive
    PROVE  Spec => []NoOrphanWallets
  <1>1. IInv /\ LedgerInv => NoOrphanWallets
    BY DEF LedgerInv, TablesSole
  <1> QED  BY <1>1, SoleInvariantHolds, PTL

-----------------------------------------------------------------------------
(* What the tables say of an avatar, and what a write makes of it.         *)

BookOf(rows, a, k) ==
    {w.bal : w \in {v \in rows : v.cur = k /\ \E i \in InstanceRows(a) : i.id = v.inst}}

\* The rows of the only avatar of that name.
LEMMA BookOfExisting ==
    ASSUME LedgerInv, NEW rows, NEW i, NEW a, NEW k, Exists(i, a)
    PROVE  BookOf(rows, a, k) = {w.bal : w \in {v \in rows : v.cur = k /\ v.inst = i}}
  <1>1. \A j \in InstanceRows(a) : j.id = i
    BY DEF LedgerInv, TablesSole, Exists, InstanceRows
  <1>2. \E j \in InstanceRows(a) : j.id = i
    BY DEF Exists, InstanceRows
  <1>3. \A id : (\E j \in InstanceRows(a) : j.id = id) <=> id = i
    BY <1>1, <1>2
  <1> QED  BY <1>3 DEF BookOf

\* A write sets one book ...
LEMMA WroteBook ==
    ASSUME LedgerInv, NEW old, NEW new, NEW i, NEW k, NEW n, NEW a,
           Exists(i, a), Wrote(old, new, i, k, n)
    PROVE  BookOf(new, a, k) = {n}
  <1>1. PICK w \in new : w.inst = i /\ w.cur = k /\ w.bal = n
    BY DEF Wrote
  <1>2. {v \in new : v.cur = k /\ v.inst = i} = {w}
    BY <1>1 DEF Wrote, Table, Keyed
  <1> QED  BY <1>1, <1>2, BookOfExisting

\* ... and leaves the others alone.
LEMMA WroteElsewhere ==
    ASSUME LedgerInv, NEW old, Table(old), NEW new, NEW i, NEW k, NEW n, NEW a,
           Exists(i, a), Wrote(old, new, i, k, n), NEW b, NEW m, b # a \/ m # k
    PROVE  BookOf(new, b, m) = BookOf(old, b, m)
  <1> DEFINE Of(rows) == {v \in rows : v.cur = m /\ \E j \in InstanceRows(b) : j.id = v.inst}
  <1>1. ASSUME NEW w \in Row, w.cur = m, NEW j \in InstanceRows(b), j.id = w.inst
        PROVE  w \in new <=> w \in old
    <2>1. b # a => w.inst # i
      BY <1>1 DEF LedgerInv, TablesSole, Exists, InstanceRows
    <2> QED  BY <1>1, <2>1 DEF Wrote
  <1>2. Of(new) = Of(old)
    BY <1>1 DEF Wrote, Table
  <1> QED  BY <1>2 DEF BookOf

\* A snapshot that is true is what the book says.
LEMMA HoldsBook ==
    ASSUME LedgerInv, NEW i, NEW a, NEW k, NEW n, Exists(i, a), Holds(wallets, i, k, n)
    PROVE  BookOf(wallets, a, k) = {n} \/ (BookOf(wallets, a, k) = {} /\ n = 0)
  <1>1. CASE \E w \in wallets : w.inst = i /\ w.cur = k /\ w.bal = n
    <2>1. PICK w \in wallets : w.inst = i /\ w.cur = k /\ w.bal = n
      BY <1>1
    <2>2. {v \in wallets : v.cur = k /\ v.inst = i} = {w}
      BY <2>1 DEF LedgerInv, TablesSole, Keyed
    <2> QED  BY <2>1, <2>2, BookOfExisting
  <1>2. CASE n = 0 /\ \A w \in wallets : w.inst # i \/ w.cur # k
    <2>1. {v \in wallets : v.cur = k /\ v.inst = i} = {}
      BY <1>2
    <2> QED  BY <1>2, <2>1, BookOfExisting
  <1> QED  BY <1>1, <1>2 DEF Holds

LEMMA BookIsOf ==
    ASSUME NEW a, NEW k
    PROVE  /\ Book(a, k) = BookOf(wallets, a, k)
           /\ instances' = instances => Book(a, k)' = BookOf(wallets', a, k)
  BY DEF Book, BookOf, InstanceRows

-----------------------------------------------------------------------------
(* Steps that only read.                                                   *)

Endowing == {"children", "list", "endow"}

\* The step of c changes no table; it refuses the request, or goes on with
\* the same business.
Passes(c) ==
    /\ wallets' = wallets /\ instances' = instances
    /\ \/ Refuse(c)
       \/ \E t : Continue(c, t) /\ PendingOf(t) = PendingOf(task[c])

LEMMA PassOn ==
    ASSUME NEW c \in Client, NEW t, Continue(c, t), UNCHANGED tables,
           t.req = task[c].req, t.pc \in Endowing <=> task[c].pc \in Endowing
    PROVE  Passes(c)
  <1>1. PendingOf(t) = PendingOf(task[c])
    BY DEF PendingOf, Endowing
  <1> QED  BY <1>1 DEF Passes, tables

LEMMA RefusePasses ==
    ASSUME NEW c \in Client, Refuse(c), UNCHANGED tables
    PROVE  Passes(c)
  BY DEF Passes, tables

LEMMA CreateReadsPass ==
    ASSUME IInv, NEW c \in Client, CreateRefused(c) \/ CreateChildren(c) \/ CreateList(c)
    PROVE  Passes(c)
  <1>1. task[c] \in Task
    BY TaskFacts
  <1>2. CASE CreateRefused(c)
    BY <1>2, RefusePasses DEF CreateRefused
  <1>3. CASE CreateChildren(c)
    <2>1. UNCHANGED tables /\ task[c].pc = "children"
      BY <1>3 DEF CreateChildren, At
    <2>2. Refuse(c) \/ Continue(c, [task[c] EXCEPT !.pc = "list"])
      BY <1>3 DEF CreateChildren
    <2>3. CASE Continue(c, [task[c] EXCEPT !.pc = "list"])
      <3> PICK t : t = [task[c] EXCEPT !.pc = "list"]
        OBVIOUS
      <3>1. t.req = task[c].req /\ t.pc = "list"
        BY <1>1 DEF Task
      <3> QED  BY <2>1, <2>3, <3>1, PassOn DEF Endowing
    <2> QED  BY <2>1, <2>2, <2>3, RefusePasses
  <1>4. CASE CreateList(c)
    <2>1. UNCHANGED tables /\ task[c].pc = "list"
      BY <1>4 DEF CreateList, At
    <2>2. PICK s : Continue(c, [task[c] EXCEPT !.pc = "endow", !.todo = s])
      BY <1>4 DEF CreateList
    <2> PICK t : t = [task[c] EXCEPT !.pc = "endow", !.todo = s]
      OBVIOUS
    <2>3. t.req = task[c].req /\ t.pc = "endow"
      BY <1>1 DEF Task
    <2> QED  BY <2>1, <2>2, <2>3, PassOn DEF Endowing
  <1> QED  BY <1>2, <1>3, <1>4

LEMMA FindsPass ==
    ASSUME IInv, NEW c \in Client,
           DeleteFind(c) \/ FindAvatar(c) \/ TransferSender(c) \/ TransferReceiver(c)
    PROVE  Passes(c)
  <1>1. task[c] \in Task
    BY TaskFacts
  <1>2. UNCHANGED tables /\ task[c].pc \notin Endowing
    BY DEF DeleteFind, FindAvatar, TransferSender, TransferReceiver, At, Endowing
  <1>3. \/ Refuse(c)
        \/ \E p, id : /\ p \notin Endowing
                      /\ \/ Continue(c, [task[c] EXCEPT !.pc = p, !.inst = id])
                         \/ Continue(c, [task[c] EXCEPT !.pc = p, !.peer = id])
    <2>1. CASE DeleteFind(c)
      <3>1. \E id : Refuse(c) \/ Continue(c, [task[c] EXCEPT !.pc = "purge", !.inst = id])
        BY <2>1 DEF DeleteFind
      <3> QED  BY <3>1 DEF Endowing
    <2>2. CASE FindAvatar(c)
      <3>1. \E id : Refuse(c) \/ Continue(c, [task[c] EXCEPT !.pc = "currency", !.inst = id])
        BY <2>2 DEF FindAvatar
      <3> QED  BY <3>1 DEF Endowing
    <2>3. CASE TransferSender(c)
      <3>1. \E id : Refuse(c) \/ Continue(c, [task[c] EXCEPT !.pc = "receiver", !.inst = id])
        BY <2>3 DEF TransferSender
      <3> QED  BY <3>1 DEF Endowing
    <2>4. CASE TransferReceiver(c)
      <3>1. \E id : Refuse(c) \/ Continue(c, [task[c] EXCEPT !.pc = "funds", !.peer = id])
        BY <2>4 DEF TransferReceiver
      <3> QED  BY <3>1 DEF Endowing
    <2> QED  BY <2>1, <2>2, <2>3, <2>4
  <1>4. ASSUME NEW p, NEW id, p \notin Endowing,
               Continue(c, [task[c] EXCEPT !.pc = p, !.inst = id])
        PROVE  Passes(c)
    <2> PICK t : t = [task[c] EXCEPT !.pc = p, !.inst = id]
      OBVIOUS
    <2>1. t.req = task[c].req /\ t.pc = p
      BY <1>1 DEF Task
    <2> QED  BY <1>2, <1>4, <2>1, PassOn
  <1>5. ASSUME NEW p, NEW id, p \notin Endowing,
               Continue(c, [task[c] EXCEPT !.pc = p, !.peer = id])
        PROVE  Passes(c)
    <2> PICK t : t = [task[c] EXCEPT !.pc = p, !.peer = id]
      OBVIOUS
    <2>1. t.req = task[c].req /\ t.pc = p
      BY <1>1 DEF Task
    <2> QED  BY <1>2, <1>5, <2>1, PassOn
  <1> QED  BY <1>2, <1>3, <1>4, <1>5, RefusePasses

LEMMA FindCurrencyPasses ==
    ASSUME IInv, NEW c \in Client, FindCurrency(c)
    PROVE  Passes(c)
  <1>1. task[c] \in Task
    BY TaskFacts
  <1>2. UNCHANGED tables /\ task[c].pc = "currency"
    BY DEF FindCurrency
  <1>3. \/ Refuse(c)
        \/ \E d : Continue(c, [task[c] EXCEPT
                     !.pc = IF task[c].req.op = "transfer" THEN "sender" ELSE "balance",
                     !.def = d])
    BY DEF FindCurrency
  <1>4. ASSUME NEW d, Continue(c, [task[c] EXCEPT
                     !.pc = IF task[c].req.op = "transfer" THEN "sender" ELSE "balance",
                     !.def = d])
        PROVE  Passes(c)
    <2> PICK t : t = [task[c] EXCEPT
                     !.pc = IF task[c].req.op = "transfer" THEN "sender" ELSE "balance",
                     !.def = d]
      OBVIOUS
    <2>1. t.req = task[c].req /\ t.pc \in {"sender", "balance"}
      BY <1>1 DEF Task
    <2> QED  BY <1>2, <1>4, <2>1, PassOn DEF Endowing
  <1> QED  BY <1>2, <1>3, <1>4, RefusePasses

LEMMA BalancesPass ==
    ASSUME IInv, NEW c \in Client,
           CreditBalance(c) \/ DebitBalance(c) \/ TransferFunds(c) \/ TransferPeer(c)
    PROVE  Passes(c)
  <1>1. task[c] \in Task
    BY TaskFacts
  <1>2. UNCHANGED tables /\ task[c].pc \notin Endowing
    BY DEF CreditBalance, DebitBalance, TransferFunds, TransferPeer, At, Endowing
  <1>3. \/ Refuse(c)
        \/ \E p, held : /\ p \notin Endowing
                        /\ \/ Continue(c, [task[c] EXCEPT !.pc = p, !.row = held])
                           \/ Continue(c, [task[c] EXCEPT !.pc = p, !.peerRow = held])
    <2>1. CASE CreditBalance(c)
      <3>1. \E held : Refuse(c) \/ Continue(c, [task[c] EXCEPT !.pc = "store", !.row = held])
        BY <2>1 DEF CreditBalance
      <3> QED  BY <3>1 DEF Endowing
    <2>2. CASE DebitBalance(c)
      <3>1. \E held : Refuse(c) \/ Continue(c, [task[c] EXCEPT !.pc = "store", !.row = held])
        BY <2>2 DEF DebitBalance
      <3> QED  BY <3>1 DEF Endowing
    <2>3. CASE TransferFunds(c)
      <3>1. \E held : Refuse(c) \/ Continue(c, [task[c] EXCEPT !.pc = "peer", !.row = held])
        BY <2>3 DEF TransferFunds
      <3> QED  BY <3>1 DEF Endowing
    <2>4. CASE TransferPeer(c)
      <3>1. \E held : Refuse(c) \/ Continue(c, [task[c] EXCEPT !.pc = "commit", !.peerRow = held])
        BY <2>4 DEF TransferPeer
      <3> QED  BY <3>1 DEF Endowing
    <2> QED  BY <2>1, <2>2, <2>3, <2>4
  <1>4. ASSUME NEW p, NEW held, p \notin Endowing,
               Continue(c, [task[c] EXCEPT !.pc = p, !.row = held])
        PROVE  Passes(c)
    <2> PICK t : t = [task[c] EXCEPT !.pc = p, !.row = held]
      OBVIOUS
    <2>1. t.req = task[c].req /\ t.pc = p
      BY <1>1 DEF Task
    <2> QED  BY <1>2, <1>4, <2>1, PassOn
  <1>5. ASSUME NEW p, NEW held, p \notin Endowing,
               Continue(c, [task[c] EXCEPT !.pc = p, !.peerRow = held])
        PROVE  Passes(c)
    <2> PICK t : t = [task[c] EXCEPT !.pc = p, !.peerRow = held]
      OBVIOUS
    <2>1. t.req = task[c].req /\ t.pc = p
      BY <1>1 DEF Task
    <2> QED  BY <1>2, <1>5, <2>1, PassOn
  <1> QED  BY <1>2, <1>3, <1>4, <1>5, RefusePasses

\* What a client's step is: it reads, it works on an avatar's existence or
\* its initial balances, or it ends a movement of money.
LEMMA StepCases ==
    ASSUME IInv, NEW c \in Client, Step(c)
    PROVE  \/ Passes(c)
           \/ CreateInsert(c) \/ CreateConflict(c) \/ CreateEndow(c) \/ CreateReply(c)
           \/ DeletePurge(c) \/ DeleteRemove(c)
           \/ CreditStore(c) \/ DebitStore(c) \/ TransferCommit(c)
  BY CreateReadsPass, FindsPass, FindCurrencyPasses, BalancesPass
  DEF Step, Create, Delete, Credit, Debit, Transfer

-----------------------------------------------------------------------------
(* Honest answers.                                                         *)

LEMMA NotOk ==
    ASSUME NEW c \in Client, Passes(c) \/ Receive(c) \/ Reject(c)
    PROVE  reply'.ok = FALSE
  <1>1. \A t : Continue(c, t) => reply'.ok = FALSE
    BY DEF Continue, NoReply
  <1>2. Refuse(c) => reply'.ok = FALSE
    BY DEF Refuse, Respond
  <1>3. (\E t : Continue(c, t)) \/ Refuse(c)
    <2>1. CASE Passes(c)
      BY <2>1 DEF Passes
    <2>2. CASE Receive(c)
      BY <2>2 DEF Receive
    <2>3. CASE Reject(c)
      BY <2>3 DEF Reject
    <2> QED  BY <2>1, <2>2, <2>3
  <1> QED  BY <1>1, <1>2, <1>3

\* Only the last steps of a credit, a debit or a transfer acknowledge one.
LEMMA AcknowledgedBy ==
    ASSUME IInv, LedgerInv, [Next]_vars, NEW c \in Client, Acknowledged(c)
    PROVE  CreditStore(c) \/ DebitStore(c) \/ TransferCommit(c)
  <1>1. task \in [Client -> Task] /\ task[c] # Idle /\ task'[c] = Idle /\ reply'.ok
    BY DEF IInv, TypeOK, Acknowledged, Idle
  <1>2. ~UNCHANGED vars
    BY <1>1 DEF vars
  <1>3. ~Crash /\ \A k \in Currency : ~DefineCurrency(k) /\ ~DropCurrency(k)
    BY <1>1 DEF Crash, DefineCurrency, DropCurrency, NoReply
  <1>4. PICK d \in Client : Receive(d) \/ Reject(d) \/ Step(d)
    BY <1>2, <1>3 DEF Next
  <1>5. Step(d) /\ ~Passes(d)
    BY <1>1, <1>4, NotOk
  <1>6. task[c].req.op \in {"credit", "debit", "transfer"}
    BY DEF Acknowledged
  <1>7. \A ok, bal : Respond(d, ok, bal) => reply'.ok = ok /\ d = c
    BY <1>1 DEF Respond
  <1>8. \A t : ~Continue(d, t)
    BY <1>1 DEF Continue, NoReply
  <1>9. ~CreateInsert(d) /\ ~CreateConflict(d) /\ ~CreateReply(d)
    BY <1>6, <1>7, <1>8 DEF CreateInsert, CreateConflict, CreateReply, Refuse, At
  <1>10. ~CreateEndow(d)
    <2> SUFFICES ASSUME CreateEndow(d) PROVE FALSE
      OBVIOUS
    <2>1. \E t : Continue(d, t)
      BY DEF CreateEndow
    <2> QED  BY <1>8, <2>1
  <1>11. ~DeletePurge(d) /\ ~DeleteRemove(d)
    BY <1>6, <1>7, <1>8 DEF DeletePurge, DeleteRemove, At
  <1>12. CreditStore(d) \/ DebitStore(d) \/ TransferCommit(d)
    BY <1>5, <1>9, <1>10, <1>11, StepCases
  <1>13. \E bal : Respond(d, TRUE, bal)
    BY <1>12 DEF CreditStore, DebitStore, TransferCommit
  <1> QED  BY <1>7, <1>12, <1>13

\* Two avatars of different names are not the same.
LEMMA PeersDiffer ==
    ASSUME LedgerInv, NEW i, NEW a, NEW j, NEW b, Exists(i, a), Exists(j, b), a # b
    PROVE  i # j
  BY DEF Exists, LedgerInv, TablesSole

\* The book that a store leaves is the balance it answers with.
LEMMA StoreTruthful ==
    ASSUME NoSelfTransfer, IInv, LedgerInv, faults' = 0, NEW c \in Client,
           CreditStore(c) \/ DebitStore(c) \/ TransferCommit(c)
    PROVE  BookOf(wallets', task[c].req.a, task[c].req.c) = {reply'.bal}
  <1> DEFINE t == task[c]
             a == t.req.a
             k == t.req.c
  <1>1. t.pc \in {"store", "commit"}
    BY DEF CreditStore, DebitStore, TransferCommit, At
  <1>2. TaskFits(c, t, wallets, nextInst, nextRow) /\ SoleFits(t)
    BY TaskFacts DEF LedgerInv
  <1>3. t.inst # 0 /\ Exists(t.inst, a)
    BY <1>1, <1>2 DEF TaskFits, FoundFits, SoleFits
  <1>4. Table(wallets)
    BY WalletsTable
  <1>5. CASE CreditStore(c)
    <2>1. Wrote(wallets, wallets', t.inst, k, Plus(t.row.bal, t.req.n))
      BY <1>5, CreditEffect
    <2>2. reply'.bal = Plus(t.row.bal, t.req.n)
      BY <1>5 DEF CreditStore, Respond
    <2> QED  BY <1>3, <1>4, <2>1, <2>2, WroteBook
  <1>6. CASE DebitStore(c)
    <2>1. Wrote(wallets, wallets', t.inst, k, t.row.bal - t.req.n)
      BY <1>6, DebitEffect
    <2>2. reply'.bal = t.row.bal - t.req.n
      BY <1>6 DEF DebitStore, Respond
    <2> QED  BY <1>3, <1>4, <2>1, <2>2, WroteBook
  <1>7. CASE TransferCommit(c)
    <2>1. PICK mid : /\ Wrote(wallets, mid, t.inst, k, t.row.bal - t.req.n)
                     /\ Wrote(mid, wallets', t.peer, k, Plus(t.peerRow.bal, t.req.n))
      BY <1>7, TransferEffect
    <2>2. reply'.bal = t.row.bal - t.req.n
      BY <1>7 DEF TransferCommit, Respond
    <2>3. t.pc = "commit" /\ t.req.op = "transfer"
      BY <1>7 DEF TransferCommit, At
    <2>4. t.peer # 0 /\ Exists(t.peer, t.req.b)
      BY <1>2, <2>3 DEF TaskFits, FoundFits, SoleFits
    <2>5. a # t.req.b
      BY <1>2, <2>3 DEF TaskFits, RequestFits, NoSelfTransfer
    <2>6. Table(mid)
      BY <2>1 DEF Wrote
    <2>7. BookOf(mid, a, k) = {t.row.bal - t.req.n}
      BY <1>3, <1>4, <2>1, WroteBook
    <2>8. BookOf(wallets', a, k) = BookOf(mid, a, k)
      BY <1>4, <2>1, <2>4, <2>5, <2>6, WroteElsewhere
    <2> QED  BY <2>2, <2>7, <2>8
  <1> QED  BY <1>5, <1>6, <1>7

LEMMA StepTruthful ==
    ASSUME NoSelfTransfer, IInv, LedgerInv, [Next]_vars, faults' = 0, NEW c \in Client
    PROVE  Truthful(c)
  <1> SUFFICES ASSUME Acknowledged(c), NEW a \in Avatar, NEW k \in Currency,
                      a = task[c].req.a, k = task[c].req.c
               PROVE  Book(a, k)' = {reply'.bal}
    BY DEF Truthful
  <1>1. CreditStore(c) \/ DebitStore(c) \/ TransferCommit(c)
    BY AcknowledgedBy
  <1>2. instances' = instances
    BY <1>1 DEF CreditStore, DebitStore, TransferCommit, StoreWallets
  <1> QED  BY <1>1, <1>2, StoreTruthful, BookIsOf

\* Handlers that never meet on an avatar answer with the truth until a
\* statement fails: the balance of a 200 is the balance in the tables
\* (handler.go:922, 982, 1077).
THEOREM AnswersHonest ==
    ASSUME Exclusive, NoSelfTransfer
    PROVE  Spec => RepliesHonestUnlessFaults
  <1>1. Spec => [](IInv /\ LedgerInv)
    BY SoleInvariantHolds
  <1>2. IInv /\ LedgerInv /\ [Next]_vars
        => [faults' = 0 => \A c \in Client : Truthful(c)]_vars
    BY StepTruthful
  <1> QED  BY <1>1, <1>2, PTL DEF Spec, RepliesHonestUnlessFaults
-----------------------------------------------------------------------------
(* The handlers implement Ledger: what is pending, and what is booked.     *)

Refines == Abstract!Next \/ UNCHANGED Abstract!vars

LEMMA PendingStep ==
    ASSUME IInv, NEW c \in Client, NEW t, task' = [task EXCEPT ![c] = t]
    PROVE  Pending' = [Pending EXCEPT ![c] = PendingOf(t)]
  <1>1. \A d \in Client : task'[d] = IF d = c THEN t ELSE task[d]
    BY DEF IInv, TypeOK
  <1>2. \A d \in Client : PendingOf(task'[d]) = IF d = c THEN PendingOf(t) ELSE PendingOf(task[d])
    BY <1>1
  <1>3. Pending' = [d \in Client |-> PendingOf(task'[d])]
    BY DEF Pending, PendingOf
  <1>4. \A d \in Client : Pending'[d] = [Pending EXCEPT ![c] = PendingOf(t)][d]
    BY <1>2, <1>3 DEF Pending
  <1> QED  BY <1>3, <1>4 DEF Pending

LEMMA PendingEnd ==
    ASSUME IInv, NEW c \in Client, NEW ok, NEW bal, Respond(c, ok, bal)
    PROVE  Abstract!Ended(c)
  <1>1. PendingOf(Idle) = NoRequest
    BY DEF PendingOf, Idle
  <1>2. Pending' = [Pending EXCEPT ![c] = PendingOf(Idle)]
    BY PendingStep DEF Respond
  <1> QED  BY <1>1, <1>2 DEF Abstract!Ended

LEMMA PendingSame ==
    ASSUME IInv, NEW c \in Client, NEW t, task' = [task EXCEPT ![c] = t],
           PendingOf(t) = PendingOf(task[c])
    PROVE  Pending' = Pending
  <1>1. Pending' = [Pending EXCEPT ![c] = PendingOf(task[c])]
    BY PendingStep
  <1> QED  BY <1>1 DEF Pending

LEMMA BooksSame ==
    ASSUME wallets' = wallets, instances' = instances
    PROVE  Open' = Open /\ Books' = Books
  BY DEF Open, Books, Book, InstanceRows

LEMMA EndRefines ==
    ASSUME IInv, NEW c \in Client, NEW ok, NEW bal, Respond(c, ok, bal),
           wallets' = wallets, instances' = instances
    PROVE  Refines
  <1>1. Abstract!End(c)
    BY PendingEnd, BooksSame DEF Abstract!End
  <1> QED  BY <1>1 DEF Refines, Abstract!Next

LEMMA PassesRefines ==
    ASSUME IInv, NEW c \in Client, Passes(c)
    PROVE  Refines
  <1>1. CASE Refuse(c)
    BY <1>1, EndRefines DEF Passes, Refuse
  <1>2. ASSUME NEW t, Continue(c, t), PendingOf(t) = PendingOf(task[c])
        PROVE  Refines
    <2>1. Pending' = Pending
      BY <1>2, PendingSame DEF Continue
    <2> QED  BY <2>1, BooksSame DEF Passes, Refines, Abstract!vars
  <1> QED  BY <1>1, <1>2 DEF Passes

\* What a handler at work has to do for Ledger.
LEMMA PendingAsks ==
    ASSUME IInv, NEW c \in Client, task[c].pc # "idle"
    PROVE  /\ task[c].req \in Request
           /\ task[c].pc \notin Endowing =>
                /\ Pending[c] = task[c].req
                /\ \A op : task[c].req.op = op => Abstract!Asks(c, op)
           /\ task[c].pc \in Endowing =>
                /\ Pending[c] = [task[c].req EXCEPT !.op = "endow"]
                /\ Abstract!Asks(c, "endow")
  <1>1. task[c].req \in Request
    BY TaskFacts
  <1>2. Pending[c] = PendingOf(task[c])
    BY DEF Pending
  <1>3. ASSUME task[c].pc \notin Endowing
        PROVE  /\ Pending[c] = task[c].req
               /\ \A op : task[c].req.op = op => Abstract!Asks(c, op)
    <2>1. Pending[c] = task[c].req
      BY <1>2, <1>3 DEF PendingOf, Endowing
    <2>2. Pending[c] # NoRequest
      BY <1>1, <2>1
    <2> QED  BY <2>1, <2>2 DEF Abstract!Asks
  <1>4. ASSUME task[c].pc \in Endowing
        PROVE  /\ Pending[c] = [task[c].req EXCEPT !.op = "endow"]
               /\ Abstract!Asks(c, "endow")
    <2>1. Pending[c] = [task[c].req EXCEPT !.op = "endow"]
      BY <1>2, <1>4 DEF PendingOf, Endowing
    <2>2. Pending[c] # NoRequest
      BY <1>1, <2>1, LedgerAssumption
    <2>3. Pending[c].op = "endow"
      BY <1>1, <2>1 DEF Request
    <2> QED  BY <2>1, <2>2, <2>3 DEF Abstract!Asks
  <1> QED  BY <1>1, <1>3, <1>4

BooksOf(rows) == [a \in Avatar |-> [k \in Currency |-> BookOf(rows, a, k)]]

LEMMA BooksAreOf ==
    /\ Books = BooksOf(wallets)
    /\ instances' = instances => Open' = Open /\ Books' = BooksOf(wallets')
  BY DEF Open, Books, BooksOf, BookIsOf, Book, BookOf, InstanceRows

\* Books with x at one place.
Booked(f, a, k, x) == [f EXCEPT ![a][k] = x]

\* A write sets one place of the books.
LEMMA BooksWritten ==
    ASSUME LedgerInv, NEW old, Table(old), NEW new, NEW i, NEW k \in Currency, NEW n,
           NEW a \in Avatar, Exists(i, a), Wrote(old, new, i, k, n)
    PROVE  BooksOf(new) = Booked(BooksOf(old), a, k, {n})
  <1>1. \A b \in Avatar, m \in Currency :
           BookOf(new, b, m) = IF b = a /\ m = k THEN {n} ELSE BookOf(old, b, m)
    <2> TAKE b \in Avatar, m \in Currency
    <2>1. CASE b = a /\ m = k
      BY <2>1, WroteBook
    <2>2. CASE b # a \/ m # k
      BY <2>2, WroteElsewhere
    <2> QED  BY <2>1, <2>2
  <1>2. ASSUME NEW b \in Avatar
        PROVE  BooksOf(new)[b] = [BooksOf(old) EXCEPT ![a][k] = {n}][b]
    <2>1. CASE b = a
      BY <1>1, <2>1 DEF BooksOf
    <2>2. CASE b # a
      BY <1>1, <2>2 DEF BooksOf
    <2> QED  BY <2>1, <2>2
  <1> QED  BY <1>2 DEF BooksOf, Booked

LEMMA BooksStored ==
    ASSUME IInv, LedgerInv, NEW i, NEW k \in Currency, NEW n, NEW a \in Avatar, Exists(i, a),
           instances' = instances, Wrote(wallets, wallets', i, k, n)
    PROVE  Open' = Open /\ Books' = Booked(Books, a, k, {n})
  <1>1. Table(wallets)
    BY WalletsTable
  <1>2. BooksOf(wallets') = Booked(BooksOf(wallets), a, k, {n})
    BY <1>1, BooksWritten
  <1> QED  BY <1>2, BooksAreOf

\* What an avatar is worth is what a true snapshot says.
LEMMA HoldsWorth ==
    ASSUME LedgerInv, NEW i, NEW a \in Avatar, NEW k \in Currency, NEW n, Exists(i, a),
           Holds(wallets, i, k, n)
    PROVE  Abstract!Worth(a, k) = n
  <1>1. Books[a][k] = BookOf(wallets, a, k)
    BY BooksAreOf DEF BooksOf
  <1>2. Books[a][k] = {n} \/ (Books[a][k] = {} /\ n = 0)
    BY <1>1, HoldsBook
  <1> QED  BY <1>2 DEF Abstract!Worth
-----------------------------------------------------------------------------
(* One step of a handler is one of Ledger, or none.                        *)

LEMMA ReceiveRefines ==
    ASSUME IInv, LedgerInv, NEW c \in Client, Receive(c)
    PROVE  Refines
  <1>1. PICK r \in Workload[c] : Continue(c, [Idle EXCEPT !.pc = FirstStep(r), !.req = r])
    BY DEF Receive
  <1> PICK t : t = [Idle EXCEPT !.pc = FirstStep(r), !.req = r]
    OBVIOUS
  <1>2. t.pc = FirstStep(r) /\ t.req = r
    BY DEF Idle
  <1>3. FirstStep(r) \in {"insert", "target", "currency", "avatar"}
    BY DEF FirstStep
  <1>4. PendingOf(t) = r
    BY <1>2, <1>3 DEF PendingOf
  <1>5. Pending' = [Pending EXCEPT ![c] = r]
    BY <1>1, <1>4, PendingStep DEF Continue
  <1>6. Pending[c] = NoRequest
    <2>1. task[c].pc = "idle" /\ SoleFits(task[c])
      BY DEF Receive, LedgerInv
    <2> QED  BY <2>1 DEF SoleFits, Pending, PendingOf
  <1>7. Open' = Open /\ Books' = Books
    BY BooksSame DEF Receive, tables
  <1>8. Abstract!Begin(c)
    BY <1>5, <1>6, <1>7 DEF Abstract!Begin
  <1> QED  BY <1>8 DEF Refines, Abstract!Next

\* A new avatar has no wallets: the books are as they were.
LEMMA InsertOpens ==
    ASSUME IInv, NEW a \in Avatar, InsertInstance(a)
    PROVE  a \notin Open /\ Open' = Open \cup {a} /\ Books' = Books
  <1>1. a \notin Open
    BY DEF InsertInstance, InstanceRows, Open
  <1>2. Open' = Open \cup {a}
    <2>1. PICK u : u = NewInstance(a)
      OBVIOUS
    <2>2. u.name = a
      BY <2>1 DEF NewInstance
    <2>3. instances' = instances \cup {u}
      BY <2>1 DEF InsertInstance
    <2> QED  BY <2>2, <2>3 DEF Open
  <1>3. \A w \in wallets : w.inst # nextInst
    BY DEF IInv, TypeOK, TablesFit, RowsFit, Balance, InstanceId
  <1>4. \A b, w : w \in wallets =>
           ((\E i \in InstanceRows(b)' : i.id = w.inst) <=> \E i \in InstanceRows(b) : i.id = w.inst)
    BY <1>3 DEF InsertInstance, NewInstance, InstanceRows
  <1>5. wallets' = wallets
    BY DEF InsertInstance
  <1>6. \A b, k : Book(b, k)' = Book(b, k)
    BY <1>4, <1>5 DEF Book
  <1> QED  BY <1>1, <1>2, <1>6 DEF Books

LEMMA CreateInsertRefines ==
    ASSUME IInv, NEW c \in Client, CreateInsert(c)
    PROVE  Refines
  <1>1. task[c].pc = "insert" /\ task[c].req.op = "create"
    BY DEF CreateInsert, At
  <1>2. task[c].req \in Request /\ Pending[c] = task[c].req /\ Abstract!Asks(c, "create")
    BY <1>1, PendingAsks DEF Endowing
  <1>3. Pending[c].a \notin Open /\ Open' = Open \cup {Pending[c].a} /\ Books' = Books
    BY <1>2, InsertOpens DEF CreateInsert, Request
  <1> PICK t : t = [task[c] EXCEPT !.pc = "children", !.inst = nextInst]
    OBVIOUS
  <1>4. t.pc = "children" /\ t.req = task[c].req
    BY TaskFacts DEF Task
  <1>5. PendingOf(t) = [Pending[c] EXCEPT !.op = "endow"]
    BY <1>2, <1>4 DEF PendingOf
  <1>6. Pending' = [Pending EXCEPT ![c] = [Pending[c] EXCEPT !.op = "endow"]]
    BY <1>5, PendingStep DEF CreateInsert, Continue
  <1>7. Pending' = [Pending EXCEPT ![c].op = "endow"]
    BY <1>6 DEF Pending
  <1>8. Abstract!Open(c)
    BY <1>2, <1>3, <1>7 DEF Abstract!Open
  <1> QED  BY <1>8 DEF Refines, Abstract!Next

LEMMA CreateConflictRefines ==
    ASSUME IInv, NEW c \in Client, CreateConflict(c)
    PROVE  Refines
  <1>1. task[c].pc = "insert" /\ task[c].req.op = "create"
    BY DEF CreateConflict, At
  <1>2. Respond(c, FALSE, 0)
    BY DEF CreateConflict, Refuse
  <1>3. UNCHANGED tables \/ InsertInstance(task[c].req.a)
    BY DEF CreateConflict
  <1>4. CASE UNCHANGED tables
    BY <1>2, <1>4, EndRefines DEF tables
  <1>5. CASE InsertInstance(task[c].req.a)
    <2>1. task[c].req \in Request /\ Pending[c] = task[c].req /\ Abstract!Asks(c, "create")
      BY <1>1, PendingAsks DEF Endowing
    <2>2. Pending[c].a \notin Open /\ Open' = Open \cup {Pending[c].a} /\ Books' = Books
      BY <1>5, <2>1, InsertOpens DEF Request
    <2>3. Abstract!Ended(c)
      BY <1>2, PendingEnd
    <2>4. Abstract!Open(c)
      BY <2>1, <2>2, <2>3 DEF Abstract!Open
    <2> QED  BY <2>4 DEF Refines, Abstract!Next
  <1> QED  BY <1>3, <1>4, <1>5

\* The avatar that a handler works on is open.
LEMMA WorksOnOpen ==
    ASSUME IInv, LedgerInv, NEW c \in Client, task[c].inst # 0
    PROVE  /\ Exists(task[c].inst, task[c].req.a)
           /\ task[c].req.a \in Open /\ task[c].req.a \in Avatar
  <1>1. Exists(task[c].inst, task[c].req.a)
    BY DEF LedgerInv, SoleFits
  <1> QED  BY <1>1 DEF Exists, Open, IInv, TypeOK, Instance

LEMMA CreateEndowRefines ==
    ASSUME IInv, LedgerInv, NEW c \in Client, CreateEndow(c)
    PROVE  Refines
  <1> DEFINE i == task[c].inst
             a == task[c].req.a
  <1>1. task[c].pc = "endow" /\ task[c] \in Task
    BY TaskFacts DEF CreateEndow, At
  <1>2. /\ Pending[c] = [task[c].req EXCEPT !.op = "endow"]
        /\ Abstract!Asks(c, "endow") /\ task[c].req \in Request
    BY <1>1, PendingAsks DEF Endowing
  <1>3. Pending[c].a = a
    BY <1>2 DEF Request
  <1>4. PICK s : Continue(c, [task[c] EXCEPT !.todo = s])
    BY DEF CreateEndow
  <1>5. Pending' = Pending
    <2> PICK t : t = [task[c] EXCEPT !.todo = s]
      OBVIOUS
    <2>1. t.pc = task[c].pc /\ t.req = task[c].req
      BY <1>1 DEF Task
    <2>2. PendingOf(t) = PendingOf(task[c])
      BY <2>1 DEF PendingOf
    <2> QED  BY <1>4, <2>2, PendingSame DEF Continue
  <1>6. instances' = instances
    BY DEF CreateEndow, StoreWallets
  <1>7. CASE wallets' = wallets
    BY <1>5, <1>6, <1>7, BooksSame DEF Refines, Abstract!vars
  <1>8. ASSUME NEW e \in task[c].todo, WalletRows(i, e.cur) = {},
               Wrote(wallets, wallets', i, e.cur, e.n)
        PROVE  Refines
    <2>1. TaskFits(c, task[c], wallets, nextInst, nextRow)
      BY TaskFacts
    <2>2. i # 0 /\ e.cur \in Currency
      BY <1>1, <2>1 DEF TaskFits, FoundFits, Task
    <2>3. Exists(i, a) /\ a \in Open /\ a \in Avatar
      BY <2>2, WorksOnOpen
    <2>4. PICK d \in Declared[e.cur] : e.n = d.initial /\ e.n > 0
      BY <2>1 DEF TaskFits, TermsFit
    <2>5. Books[a][e.cur] = {}
      <3>1. BookOf(wallets, a, e.cur) = {}
        BY <1>8, <2>3, BookOfExisting DEF WalletRows
      <3> QED  BY <2>2, <2>3, <3>1, BooksAreOf DEF BooksOf
    <2>7. Open' = Open /\ Books' = Booked(Books, a, e.cur, {d.initial})
      BY <1>6, <1>8, <2>2, <2>3, <2>4, BooksStored
    <2>8. Abstract!Endow(c)
      BY <1>2, <1>3, <1>5, <2>2, <2>3, <2>4, <2>5, <2>7 DEF Abstract!Endow, Booked
    <2> QED  BY <2>8 DEF Refines, Abstract!Next
  <1> QED  BY <1>7, <1>8, EndowEffect

\* An avatar's instance that is the only one of its name, and owns what the
\* books say of it.
LEMMA BooksCleared ==
    ASSUME NEW a \in Avatar, NEW f,
           f = [b \in Avatar |-> [k \in Currency |-> IF b = a THEN {} ELSE Book(b, k)]]
    PROVE  f = [Books EXCEPT ![a] = [k \in Currency |-> {}]]
  <1>1. ASSUME NEW b \in Avatar
        PROVE  f[b] = [Books EXCEPT ![a] = [k \in Currency |-> {}]][b]
    <2>1. CASE b = a
      BY <2>1 DEF Books
    <2>2. CASE b # a
      BY <2>2 DEF Books
    <2> QED  BY <2>1, <2>2
  <1> QED  BY <1>1 DEF Books

LEMMA DeletePurgeRefines ==
    ASSUME IInv, LedgerInv, NEW c \in Client, DeletePurge(c)
    PROVE  Refines
  <1> DEFINE i == task[c].inst
             a == task[c].req.a
  <1>1. task[c].pc = "purge" /\ task[c].req.op = "delete" /\ SoleFits(task[c])
    BY DEF DeletePurge, At, LedgerInv
  <1>2. Pending[c] = task[c].req /\ Abstract!Asks(c, "delete")
    BY <1>1, PendingAsks DEF Endowing
  <1>3. Exists(i, a) /\ a \in Open /\ a \in Avatar
    BY <1>1, WorksOnOpen DEF SoleFits
  <1>4. Pending' = Pending
    <2> PICK t : t = [task[c] EXCEPT !.pc = "remove"]
      OBVIOUS
    <2>1. t.pc = "remove" /\ t.req = task[c].req
      BY TaskFacts DEF Task
    <2>2. PendingOf(t) = PendingOf(task[c])
      BY <1>1, <2>1 DEF PendingOf
    <2> QED  BY <2>2, PendingSame DEF DeletePurge, Continue
  <1>5. instances' = instances
    BY DEF DeletePurge
  <1>6. wallets' = Purged(i) \/ wallets' = wallets
    BY DEF DeletePurge
  <1>7. CASE wallets' = wallets
    BY <1>4, <1>5, <1>7, BooksSame DEF Refines, Abstract!vars
  <1>8. CASE wallets' = Purged(i)
    <2>1. \A b, k : BookOf(wallets', b, k) = IF b = a THEN {} ELSE BookOf(wallets, b, k)
      <3> TAKE b, k
      <3>1. CASE b = a
        <4>1. \A j \in InstanceRows(a) : j.id = i
          BY <1>3 DEF LedgerInv, TablesSole, Exists, InstanceRows
        <4>2. \A w \in wallets' : w.inst # i
          BY <1>8 DEF Purged
        <4> QED  BY <3>1, <4>1, <4>2 DEF BookOf
      <3>2. CASE b # a
        <4>1. \A j \in InstanceRows(b) : j.id # i
          BY <1>3, <3>2 DEF LedgerInv, TablesSole, Exists, InstanceRows
        <4>2. {v \in wallets' : v.cur = k /\ \E j \in InstanceRows(b) : j.id = v.inst}
              = {v \in wallets : v.cur = k /\ \E j \in InstanceRows(b) : j.id = v.inst}
          BY <1>8, <4>1 DEF Purged
        <4> QED  BY <3>2, <4>2 DEF BookOf
      <3> QED  BY <3>1, <3>2
    <2>2. Open' = Open /\ Books' = BooksOf(wallets')
      BY <1>5, BooksAreOf
    <2>3. Books' = [b \in Avatar |-> [k \in Currency |-> IF b = a THEN {} ELSE Book(b, k)]]
      BY <2>1, <2>2, BookIsOf DEF BooksOf
    <2>4. Books' = [Books EXCEPT ![a] = [k \in Currency |-> {}]]
      BY <1>3, <2>3, BooksCleared
    <2>5. Abstract!Purge(c)
      BY <1>2, <1>3, <1>4, <2>2, <2>4 DEF Abstract!Purge
    <2> QED  BY <2>5 DEF Refines, Abstract!Next
  <1> QED  BY <1>6, <1>7, <1>8

LEMMA DeleteRemoveRefines ==
    ASSUME IInv, LedgerInv, NEW c \in Client, DeleteRemove(c)
    PROVE  Refines
  <1> DEFINE i == task[c].inst
             a == task[c].req.a
  <1>1. task[c].pc = "remove" /\ task[c].req.op = "delete" /\ SoleFits(task[c])
    BY DEF DeleteRemove, At, LedgerInv
  <1>2. Pending[c] = task[c].req /\ Abstract!Asks(c, "delete")
    BY <1>1, PendingAsks DEF Endowing
  <1>3. Exists(i, a) /\ a \in Avatar
    BY <1>1, WorksOnOpen DEF SoleFits
  <1>4. wallets' = wallets /\ Respond(c, TRUE, 0)
    BY DEF DeleteRemove
  <1>5. instances' = {j \in instances : j.id # i} \/ instances' = instances
    BY DEF DeleteRemove
  <1>6. CASE instances' = instances
    BY <1>4, <1>6, EndRefines
  <1>7. CASE instances' = {j \in instances : j.id # i}
    <2>1. \A j \in instances : j.id # i <=> j.name # a
      BY <1>3 DEF LedgerInv, TablesSole, Exists
    <2>2. Open' = Open \ {a}
      BY <1>7, <2>1 DEF Open
    <2>3. \A b : InstanceRows(b)' = IF b = a THEN {} ELSE InstanceRows(b)
      BY <1>7, <2>1 DEF InstanceRows
    <2>4. \A b, k : Book(b, k)' = IF b = a THEN {} ELSE Book(b, k)
      BY <1>4, <2>3 DEF Book
    <2>5. Books' = [b \in Avatar |-> [k \in Currency |-> IF b = a THEN {} ELSE Book(b, k)]]
      BY <2>4 DEF Books
    <2>6. Books' = [Books EXCEPT ![a] = [k \in Currency |-> {}]]
      BY <1>3, <2>5, BooksCleared
    <2>7. Abstract!Ended(c)
      BY <1>4, PendingEnd
    <2>8. Abstract!Close(c)
      BY <1>2, <2>2, <2>6, <2>7 DEF Abstract!Close
    <2> QED  BY <2>8 DEF Refines, Abstract!Next
  <1> QED  BY <1>5, <1>6, <1>7

\* A snapshot that is true holds nothing or a legal balance.
LEMMA HoldsLegal ==
    ASSUME IInv, NEW i, NEW k \in Currency, NEW n, Holds(wallets, i, k, n)
    PROVE  n \in Int64 /\ (n = 0 \/ Legal(k, n))
  <1>1. CASE n = 0
    BY <1>1 DEF Int64
  <1>2. ASSUME NEW w \in wallets, w.inst = i, w.cur = k, w.bal = n
        PROVE  n \in Int64 /\ Legal(k, n)
    BY <1>2 DEF IInv, TypeOK, TablesFit, RowsFit, Balance
  <1> QED  BY <1>1, <1>2 DEF Holds

\* Nothing wraps around, and the sum fits what the currency allows.
LEMMA NoWrap ==
    ASSUME InRange, NEW c \in Client, NEW r \in Workload[c], r.n > 0,
           NEW bal \in Int64, bal = 0 \/ Legal(r.c, bal), Creditable(r.c, Plus(bal, r.n))
    PROVE  /\ Plus(bal, r.n) = bal + r.n
           /\ \E d \in Declared[r.c] : Abstract!Fits(d, bal + r.n)
  <1>1. r.c \in Currency /\ r.n \in Int64
    BY DEF Request
  <1>2. Declared[r.c] \subseteq Definition
    BY <1>1
  <1>3. Capped(r.c) /\ SmallAmounts(r.c)
    BY <1>1 DEF InRange
  <1>4. \A d \in Declared[r.c] :
          /\ d.max + r.n < IntLimit /\ d.initial + r.n < IntLimit
          /\ d.max \in Int64 /\ d.initial \in Int64
    BY <1>2, <1>3 DEF SmallAmounts, Definition
  <1>5. PICK d \in Declared[r.c] : Plus(bal, r.n) <= d.max
    BY <1>3 DEF Creditable
  <1>6. bal = 0 \/ \E x \in Declared[r.c] : bal <= x.max \/ bal <= x.initial
    BY <1>3 DEF Legal, Bounded
  <1>7. bal + r.n < IntLimit
    BY <1>1, <1>4, <1>5, <1>6 DEF Int64
  <1>8. Plus(bal, r.n) = bal + r.n
    BY <1>1, <1>7, PlusFacts
  <1> QED  BY <1>5, <1>8 DEF Abstract!Fits

\* What a handler about to store knows.
LEMMA AtStore ==
    ASSUME IInv, LedgerInv, NEW c \in Client, task[c].pc \in {"store", "commit"}
    PROVE  LET t == task[c]
           IN  /\ t.req \in Workload[c] /\ t.req \in Request
               /\ t.req.n > 0 \/ t.req.op \in {"create", "delete"}
               /\ t.req.a \in Avatar /\ t.req.c \in Currency /\ t.req.n \in Int64
               /\ Exists(t.inst, t.req.a) /\ t.req.a \in Open
               /\ AmountsFit(t)
               /\ Pending[c] = t.req /\ \A op : t.req.op = op => Abstract!Asks(c, op)
  <1> DEFINE t == task[c]
  <1>1. /\ t.req \in Workload[c] /\ t.req \in Request /\ WellFormed(t.req)
        /\ t.inst # 0 /\ AmountsFit(t)
    BY StoreFacts, TaskFacts DEF TaskFits, RequestFits
  <1>2. t.req.a \in Avatar /\ t.req.c \in Currency /\ t.req.n \in Int64 /\ t.req.op \in Op
    BY <1>1 DEF Request
  <1>3. t.req.n > 0 \/ t.req.op \in {"create", "delete"}
    BY <1>1, <1>2 DEF WellFormed, Op
  <1>4. Exists(t.inst, t.req.a) /\ t.req.a \in Open
    BY <1>1, WorksOnOpen
  <1>5. Pending[c] = t.req /\ \A op : t.req.op = op => Abstract!Asks(c, op)
    BY PendingAsks DEF Endowing
  <1> QED  BY <1>1, <1>2, <1>3, <1>4, <1>5

LEMMA CreditStoreRefines ==
    ASSUME InRange, IInv, LedgerInv, NEW c \in Client, CreditStore(c)
    PROVE  Refines
  <1> DEFINE i == task[c].inst
             r == task[c].req
             bal == task[c].row.bal
  <1>1. task[c].pc = "store" /\ r.op = "credit"
    BY DEF CreditStore, At
  <1>2. /\ r \in Workload[c] /\ r.n > 0 /\ r.a \in Avatar /\ r.c \in Currency
        /\ Exists(i, r.a) /\ r.a \in Open
        /\ AmountsFit(task[c]) /\ Pending[c] = r /\ Abstract!Asks(c, "credit")
    BY <1>1, AtStore
  <1>3. instances' = instances /\ Respond(c, TRUE, Plus(bal, r.n))
    BY DEF CreditStore, StoreWallets
  <1>4. CASE wallets' = wallets
    BY <1>3, <1>4, EndRefines
  <1>5. CASE Wrote(wallets, wallets', i, r.c, Plus(bal, r.n)) /\ Holds(wallets, i, r.c, bal)
    <2>1. bal \in Int64 /\ (bal = 0 \/ Legal(r.c, bal))
      BY <1>2, <1>5, HoldsLegal
    <2>2. Creditable(r.c, Plus(bal, r.n))
      BY <1>1, <1>2 DEF AmountsFit
    <2>3. /\ Plus(bal, r.n) = bal + r.n
          /\ \E d \in Declared[r.c] : Abstract!Fits(d, bal + r.n)
      BY <1>2, <2>1, <2>2, NoWrap
    <2>4. Abstract!Worth(r.a, r.c) = bal
      BY <1>2, <1>5, HoldsWorth
    <2>5. Open' = Open /\ Books' = Booked(Books, r.a, r.c, {bal + r.n})
      BY <1>2, <1>3, <1>5, <2>3, BooksStored
    <2>6. Abstract!Ended(c)
      BY <1>3, PendingEnd
    <2>7. Abstract!Credit(c)
      BY <1>2, <2>3, <2>4, <2>5, <2>6 DEF Abstract!Credit, Booked
    <2> QED  BY <2>7 DEF Refines, Abstract!Next
  <1> QED  BY <1>4, <1>5, CreditEffect

LEMMA DebitStoreRefines ==
    ASSUME IInv, LedgerInv, NEW c \in Client, DebitStore(c)
    PROVE  Refines
  <1> DEFINE i == task[c].inst
             r == task[c].req
             bal == task[c].row.bal
  <1>1. task[c].pc = "store" /\ r.op = "debit"
    BY DEF DebitStore, At
  <1>2. /\ r.a \in Avatar /\ r.c \in Currency /\ Exists(i, r.a) /\ r.a \in Open
        /\ AmountsFit(task[c]) /\ Pending[c] = r /\ Abstract!Asks(c, "debit")
    BY <1>1, AtStore
  <1>3. instances' = instances /\ Respond(c, TRUE, bal - r.n)
    BY DEF DebitStore, StoreWallets
  <1>4. CASE wallets' = wallets
    BY <1>3, <1>4, EndRefines
  <1>5. CASE Wrote(wallets, wallets', i, r.c, bal - r.n) /\ Holds(wallets, i, r.c, bal)
    <2>1. r.n <= bal
      BY <1>1, <1>2 DEF AmountsFit
    <2>2. Abstract!Worth(r.a, r.c) = bal
      BY <1>2, <1>5, HoldsWorth
    <2>3. Open' = Open /\ Books' = Booked(Books, r.a, r.c, {bal - r.n})
      BY <1>2, <1>3, <1>5, BooksStored
    <2>4. Abstract!Ended(c)
      BY <1>3, PendingEnd
    <2>5. Abstract!Debit(c)
      BY <1>2, <2>1, <2>2, <2>3, <2>4 DEF Abstract!Debit, Booked
    <2> QED  BY <2>5 DEF Refines, Abstract!Next
  <1> QED  BY <1>4, <1>5, DebitEffect

LEMMA TransferCommitRefines ==
    ASSUME InRange, NoSelfTransfer, IInv, LedgerInv, NEW c \in Client, TransferCommit(c)
    PROVE  Refines
  <1> DEFINE i == task[c].inst
             j == task[c].peer
             r == task[c].req
             bal == task[c].row.bal
             other == task[c].peerRow.bal
             def == task[c].def
  <1>1. task[c].pc = "commit" /\ r.op = "transfer"
    BY DEF TransferCommit, At
  <1>2. /\ r \in Workload[c] /\ r.n > 0 /\ r.a \in Avatar /\ r.c \in Currency
        /\ Exists(i, r.a) /\ r.a \in Open
        /\ AmountsFit(task[c]) /\ Pending[c] = r /\ Abstract!Asks(c, "transfer")
    BY <1>1, AtStore
  <1>3. instances' = instances /\ Respond(c, TRUE, bal - r.n)
    BY DEF TransferCommit, StoreWallets
  <1>4. CASE wallets' = wallets
    BY <1>3, <1>4, EndRefines
  <1>5. ASSUME NEW mid, Wrote(wallets, mid, i, r.c, bal - r.n),
               Wrote(mid, wallets', j, r.c, Plus(other, r.n)),
               Holds(wallets, i, r.c, bal), Holds(wallets, j, r.c, other)
        PROVE  Refines
    <2>1. TaskFits(c, task[c], wallets, nextInst, nextRow) /\ SoleFits(task[c])
          /\ TradeFits(task[c])
      BY TaskFacts DEF LedgerInv
    <2>2. Exists(j, r.b)
      BY <1>1, <2>1 DEF TaskFits, FoundFits, SoleFits
    <2>3. r.b \in Open /\ r.b \in Avatar
      BY <2>2 DEF Exists, Open, IInv, TypeOK, Instance
    <2>4. r.a # r.b
      BY <1>1, <1>2 DEF NoSelfTransfer
    <2>5. def \in Declared[r.c] /\ def.tradeable /\ ~ExceedsMax(def, other, r.n)
      BY <1>1, <2>1 DEF TaskFits, TermsFit, TradeFits
    <2>6. other \in Int64 /\ (other = 0 \/ Legal(r.c, other))
      BY <1>2, <1>5, HoldsLegal
    <2>7. r.n <= bal /\ Creditable(r.c, Plus(other, r.n))
      BY <1>1, <1>2 DEF AmountsFit
    <2>8. Plus(other, r.n) = other + r.n
      BY <1>2, <2>6, <2>7, NoWrap
    <2>9. Abstract!Fits(def, other + r.n)
      <3>1. def.max \in Int /\ r.n \in Int /\ other \in Int
        BY <1>2, <2>5, <2>6 DEF Definition, Request, Int64
      <3> QED  BY <2>5, <2>8, <3>1 DEF ExceedsMax, Abstract!Fits
    <2>10. Abstract!Worth(r.a, r.c) = bal
      BY <1>2, <1>5, HoldsWorth
    <2>11. Abstract!Worth(r.b, r.c) = other
      BY <1>2, <1>5, <2>2, <2>3, HoldsWorth
    <2>12. BooksOf(mid) = Booked(BooksOf(wallets), r.a, r.c, {bal - r.n})
      BY <1>2, <1>5, WalletsTable, BooksWritten
    <2>13. BooksOf(wallets') = Booked(BooksOf(mid), r.b, r.c, {other + r.n})
      <3>1. Table(mid)
        BY <1>5 DEF Wrote
      <3> QED  BY <1>2, <1>5, <2>2, <2>3, <2>8, <3>1, BooksWritten
    <2>14. /\ Open' = Open
           /\ Books' = Booked(Booked(Books, r.a, r.c, {bal - r.n}), r.b, r.c, {other + r.n})
      BY <1>3, <2>12, <2>13, BooksAreOf
    <2>15. Abstract!Ended(c)
      BY <1>3, PendingEnd
    <2>16. Abstract!Transfer(c)
      BY <1>2, <2>3, <2>4, <2>5, <2>7, <2>9, <2>10, <2>11, <2>14, <2>15
      DEF Abstract!Transfer, Booked
    <2> QED  BY <2>16 DEF Refines, Abstract!Next
  <1> QED  BY <1>4, <1>5, TransferEffect

LEMMA InitRefines ==
    ASSUME Init
    PROVE  Abstract!Init
  <1>1. Open = {}
    BY DEF Init, Open
  <1>2. Books = [a \in Avatar |-> [k \in Currency |-> {}]]
    BY DEF Init, Books, Book
  <1>3. Pending = [c \in Client |-> NoRequest]
    BY DEF Init, Pending, PendingOf, Idle
  <1> QED  BY <1>1, <1>2, <1>3 DEF Abstract!Init

LEMMA NextRefines ==
    ASSUME NoSelfTransfer, InRange, IInv, LedgerInv, [Next]_vars
    PROVE  Refines
  <1>1. CASE UNCHANGED vars
    <2>1. Pending' = Pending
      BY <1>1 DEF vars, Pending, PendingOf
    <2> QED  BY <1>1, <2>1, BooksSame DEF vars, Refines, Abstract!vars
  <1>2. ASSUME NEW k \in Currency, DefineCurrency(k) \/ DropCurrency(k)
        PROVE  Refines
    <2>1. UNCHANGED <<wallets, instances, task>>
      BY <1>2 DEF DefineCurrency, DropCurrency
    <2>2. Pending' = Pending
      BY <2>1 DEF Pending, PendingOf
    <2> QED  BY <2>1, <2>2, BooksSame DEF Refines, Abstract!vars
  <1>3. CASE Crash
    <2>1. UNCHANGED <<wallets, instances>> /\ task' = [c \in Client |-> Idle]
      BY <1>3 DEF Crash, tables
    <2>2. Pending' = [c \in Client |-> NoRequest]
      BY <2>1 DEF Pending, PendingOf, Idle
    <2>3. Abstract!Crash
      BY <2>1, <2>2, BooksSame DEF Abstract!Crash
    <2> QED  BY <2>3 DEF Refines, Abstract!Next
  <1>4. ASSUME NEW c \in Client, Receive(c) \/ Reject(c) \/ Step(c)
        PROVE  Refines
    <2>1. CASE Receive(c)
      BY <2>1, ReceiveRefines
    <2>2. CASE Reject(c)
      BY <2>2, EndRefines DEF Reject, Refuse, tables
    <2>3. CASE CreateReply(c)
      BY <2>3, EndRefines DEF CreateReply, tables
    <2>4. CASE Step(c) /\ ~CreateReply(c)
      BY <2>4, StepCases, PassesRefines, CreateInsertRefines, CreateConflictRefines,
         CreateEndowRefines, DeletePurgeRefines, DeleteRemoveRefines, CreditStoreRefines,
         DebitStoreRefines, TransferCommitRefines
    <2> QED  BY <1>4, <2>1, <2>2, <2>3, <2>4
  <1> QED  BY <1>1, <1>2, <1>3, <1>4 DEF Next

\* Handlers that never meet on an avatar implement Ledger, whatever statements
\* fail, whenever the process dies, and however currencies are redefined:
\* every request moves its amount in one step and at most once, within what a
\* declared version of the currency allows (handler.go:866-1080).
THEOREM HandlersImplementLedger ==
    ASSUME Exclusive, NoSelfTransfer, InRange
    PROVE  Spec => LedgerImplemented
  <1>1. Spec => [](IInv /\ LedgerInv)
    BY SoleInvariantHolds
  <1>2. Init => Abstract!Init
    BY InitRefines
  <1>3. IInv /\ LedgerInv /\ [Next]_vars => [Abstract!Next]_(Abstract!vars)
    BY NextRefines DEF Refines
  <1> QED  BY <1>1, <1>2, <1>3, PTL DEF Spec, LedgerImplemented, Abstract!Spec
=============================================================================
