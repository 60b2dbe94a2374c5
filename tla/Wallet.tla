------------------------------- MODULE Wallet -------------------------------
(***************************************************************************)
(* The wallets of one game: what the REST handlers that create and delete  *)
(* avatar instances and that credit, debit and transfer balances do to the *)
(* tables avatar_instances and avatar_currency_balances, while the         *)
(* Currency reconciler rewrites currency_definitions.                      *)
(*                                                                         *)
(* net/http runs every request in a goroutine of its own and the handlers  *)
(* share nothing but the database.  Each SQL statement commits by itself   *)
(* (TransferWallet's two writes commit together), so a handler is modelled *)
(* as one action per statement, with what it read kept in task.            *)
(***************************************************************************)
EXTENDS Handlers

CONSTANTS
    Currency,       \* names of Currency resources
    Declared,       \* for each currency, the specs an operator applies over time
    Workload,       \* for each client, the requests it may send
    NoRequest,      \* "no request in progress"
    MaxRow          \* bound: wallet rows ever inserted

\* A row of currency_definitions; max = 0 means that there is no maximum.
Definition == [tradeable : BOOLEAN, max : Int64, initial : Int64]
NoDefinition == [tradeable |-> FALSE, max |-> 0, initial |-> 0]

\* create and delete use field a only; b is the receiver of a transfer.
Op == {"create", "delete", "credit", "debit", "transfer"}
Request == [op : Op, a : Avatar, b : Avatar, c : Currency, n : Int64]

ASSUME WalletAssumption ==
    /\ IntLimit \in Nat \ {0}
    /\ MaxInstance \in Nat /\ MaxRow \in Nat /\ MaxFaults \in Nat
    /\ Declared \in [Currency -> SUBSET Definition]
    /\ Workload \in [Client -> SUBSET Request]
    /\ NoRequest \notin Request

VARIABLES
    wallets,        \* avatar_currency_balances: [id, inst, cur, bal], (inst, cur) unique
    defs,           \* currency_definitions: for each name no row or one
    nextRow         \* the sequence behind the key of wallets

vars == <<instances, wallets, defs, nextInst, nextRow, faults, task, reply>>
tables == <<instances, wallets, defs, nextInst, nextRow>>

(***************************************************************************)
(* The local variables of a handler: the request, the instance ids and the *)
(* definition it has read, its snapshots of wallet rows (id 0: none was    *)
(* found), and the initial balances still to be inserted.                  *)
(***************************************************************************)
NoRow == [id |-> 0, bal |-> 0]
Idle == [pc |-> "idle", req |-> NoRequest, inst |-> 0, peer |-> 0,
         def |-> NoDefinition, row |-> NoRow, peerRow |-> NoRow, todo |-> {}]
NoReply == [ok |-> FALSE, bal |-> 0]

Init ==
    /\ instances = {} /\ wallets = {}
    /\ defs = [k \in Currency |-> {}]
    /\ nextInst = 1 /\ nextRow = 1
    /\ faults = 0
    /\ task = [c \in Client |-> Idle]
    /\ reply = NoReply

-----------------------------------------------------------------------------
(* Statements and responses.                                               *)

\* The handler goes on with the given local variables.
Continue(c, t) == task' = [task EXCEPT ![c] = t] /\ reply' = NoReply

\* writeJSON / writeError, after which the handler returns.
Respond(c, ok, bal) ==
    /\ task' = [task EXCEPT ![c] = Idle]
    /\ reply' = [ok |-> ok, bal |-> bal]
Refuse(c) == Respond(c, FALSE, 0)

\* Faulty variant of WalletRows: the query forgets the avatar.
WalletRows_AnyAvatar(i, k) == {w \in wallets : w.cur = k}


WalletRows(i, k) == {w \in wallets : w.inst = i /\ w.cur = k}

\* The snapshot of a wallet row, the zero value when none is found.
Held(i, k, ok) ==
    LET found == Answer(WalletRows(i, k), ok)
    IN  IF found = {} THEN {NoRow} ELSE {[id |-> w.id, bal |-> w.bal] : w \in found}

\* Faulty variant of ExceedsMax: the balance before the credit is checked.
ExceedsMax_OldBalance(def, bal, n) == def.max > 0 /\ bal > def.max

\* A credit of n on top of bal would leave more than the maximum.
ExceedsMax(def, bal, n) == def.max > 0 /\ Plus(bal, n) > def.max

\* db.Create(&wallet): the unique index idx_avatar_currency refuses a second
\* row for the pair, and no caller looks at the error.
InsertWallet(rows, i, k, n) ==
    IF \E w \in rows : w.inst = i /\ w.cur = k
    THEN rows
    ELSE rows \cup {[id |-> nextRow, inst |-> i, cur |-> k, bal |-> n]}

\* Writing rows back; the sequence moves on when a row was added.
StoreWallets(rows) ==
    /\ wallets' = rows
    /\ nextRow' = IF \E w \in rows : w.id = nextRow THEN nextRow + 1 ELSE nextRow
    /\ nextRow' <= MaxRow + 1
    /\ UNCHANGED <<instances, defs, nextInst>>

-----------------------------------------------------------------------------
(* A request arrives.                                                      *)

WellFormed(r) == r.op \in {"credit", "debit", "transfer"} => r.n > 0

FirstStep(r) == CASE r.op = "create"   -> "insert"
                  [] r.op = "delete"   -> "target"
                  [] r.op = "transfer" -> "currency"
                  [] OTHER             -> "avatar"

Receive(c) ==
    /\ task[c].pc = "idle"
    /\ \E r \in Workload[c] :
         /\ WellFormed(r)
         /\ Continue(c, [Idle EXCEPT !.pc = FirstStep(r), !.req = r])
    /\ UNCHANGED <<tables, faults>>

\* Refused before any statement: a malformed request, or no database
\* connection (getDB fails).
Reject(c) ==
    /\ task[c].pc = "idle"
    /\ Workload[c] # {}
    /\ Refuse(c)
    /\ UNCHANGED <<tables, faults>>

-----------------------------------------------------------------------------
(* CreateAvatarInstance.                                                   *)

\* The avatar's blueprint is outside this module: it may refuse any request.
CreateRefused(c) ==
    /\ At(c, "create", "insert")
    /\ Refuse(c)
    /\ UNCHANGED <<tables, faults>>

InsertInstance(a) ==
    /\ InstanceRows(a) = {}
    /\ nextInst <= MaxInstance
    /\ instances' = instances \cup {NewInstance(a)}
    /\ nextInst' = nextInst + 1
    /\ UNCHANGED <<wallets, defs, nextRow>>

CreateInsert(c) ==
    /\ At(c, "create", "insert")
    /\ InsertInstance(task[c].req.a)
    /\ Continue(c, [task[c] EXCEPT !.pc = "children", !.inst = nextInst])
    /\ UNCHANGED faults

\* 409: the name is taken, or the statement failed; a connection lost after
\* the insert was committed is reported in the same way.
CreateConflict(c) ==
    /\ At(c, "create", "insert")
    /\ \/ InstanceRows(task[c].req.a) # {} /\ UNCHANGED <<tables, faults>>
       \/ Statement(FALSE) /\ UNCHANGED tables
       \/ Statement(FALSE) /\ InsertInstance(task[c].req.a)
    /\ Refuse(c)

\* The attributes, inventory, achievements and customizations, whose tables
\* are outside this module: the first failure ends the handler with 500 and
\* leaves the instance without wallets.
CreateChildren(c) ==
    /\ At(c, "create", "children")
    /\ \E ok \in BOOLEAN :
         /\ Statement(ok)
         /\ IF ok THEN Continue(c, [task[c] EXCEPT !.pc = "list"]) ELSE Refuse(c)
    /\ UNCHANGED tables

\* WHERE initial_balance > 0; the error of the query is dropped.
Endowments ==
    UNION {{[cur |-> k, n |-> d.initial] : d \in {x \in defs[k] : x.initial > 0}} :
              k \in Currency}

CreateList(c) ==
    /\ At(c, "create", "list")
    /\ \E ok \in BOOLEAN :
         /\ Statement(ok)
         /\ Continue(c, [task[c] EXCEPT !.pc = "endow",
                                        !.todo = IF ok THEN Endowments ELSE {}])
    /\ UNCHANGED tables

\* One turn of the loop; the error of the insert is dropped.
CreateEndow(c) ==
    /\ At(c, "create", "endow")
    /\ \E e \in task[c].todo, ok \in BOOLEAN :
         /\ Statement(ok)
         /\ StoreWallets(IF ok THEN InsertWallet(wallets, task[c].inst, e.cur, e.n)
                         ELSE wallets)
         /\ Continue(c, [task[c] EXCEPT !.todo = @ \ {e}])

CreateReply(c) ==
    /\ At(c, "create", "endow")
    /\ task[c].todo = {}
    /\ Respond(c, TRUE, 0)
    /\ UNCHANGED <<tables, faults>>

-----------------------------------------------------------------------------
(* DeleteAvatarInstance.                                                   *)

DeleteFind(c) ==
    /\ At(c, "delete", "target")
    /\ \E ok \in BOOLEAN :
         /\ Statement(ok)
         /\ \E id \in Named(task[c].req.a, ok) :
              IF id = 0 THEN Refuse(c)
              ELSE Continue(c, [task[c] EXCEPT !.pc = "purge", !.inst = id])
    /\ UNCHANGED tables

\* Faulty variant of Purged: rows are selected by their own id.
Purged_ByRowId(i) == {w \in wallets : w.id # i}

Purged(i) == {w \in wallets : w.inst # i}

\* The balances go first; the error is dropped.
DeletePurge(c) ==
    /\ At(c, "delete", "purge")
    /\ \E ok \in BOOLEAN :
         /\ Statement(ok)
         /\ wallets' = IF ok THEN Purged(task[c].inst) ELSE wallets
    /\ Continue(c, [task[c] EXCEPT !.pc = "remove"])
    /\ UNCHANGED <<instances, defs, nextInst, nextRow>>

\* The instance goes last, and the answer is 204 whatever became of it.
DeleteRemove(c) ==
    /\ At(c, "delete", "remove")
    /\ \E ok \in BOOLEAN :
         /\ Statement(ok)
         /\ instances' = IF ok THEN {i \in instances : i.id # task[c].inst} ELSE instances
    /\ Respond(c, TRUE, 0)
    /\ UNCHANGED <<wallets, defs, nextInst, nextRow>>

-----------------------------------------------------------------------------
(* CreditWallet and DebitWallet.                                           *)

\* Faulty variant of FindAvatar: the 404 does not end the handler.
FindAvatar_GoesOn(c) ==
    /\ task[c].pc = "avatar"
    /\ \E ok \in BOOLEAN :
         /\ Statement(ok)
         /\ \E id \in Named(task[c].req.a, ok) :
              Continue(c, [task[c] EXCEPT !.pc = "currency", !.inst = id])
    /\ UNCHANGED tables


FindAvatar(c) ==
    /\ task[c].pc = "avatar"
    /\ \E ok \in BOOLEAN :
         /\ Statement(ok)
         /\ \E id \in Named(task[c].req.a, ok) :
              IF id = 0 THEN Refuse(c)
              ELSE Continue(c, [task[c] EXCEPT !.pc = "currency", !.inst = id])
    /\ UNCHANGED tables

\* 404 without a definition; TransferWallet asks here for tradeable as well.
FindCurrency(c) ==
    /\ task[c].pc = "currency"
    /\ \E ok \in BOOLEAN :
         /\ Statement(ok)
         /\ LET usable == {d \in defs[task[c].req.c] : task[c].req.op = "transfer" => d.tradeable}
            IN  IF ok /\ usable # {}
                THEN \E d \in usable :
                       Continue(c, [task[c] EXCEPT
                           !.pc = IF task[c].req.op = "transfer" THEN "sender" ELSE "balance",
                           !.def = d])
                ELSE Refuse(c)
    /\ UNCHANGED tables

\* Without a row, and after a failed query, the balance counts as 0.
CreditBalance(c) ==
    /\ At(c, "credit", "balance")
    /\ \E ok \in BOOLEAN :
         /\ Statement(ok)
         /\ \E held \in Held(task[c].inst, task[c].req.c, ok) :
              IF ExceedsMax(task[c].def, held.bal, task[c].req.n)
              THEN Refuse(c)
              ELSE Continue(c, [task[c] EXCEPT !.pc = "store", !.row = held])
    /\ UNCHANGED tables

\* Writes the snapshot plus the amount; the error is dropped.
CreditStore(c) ==
    /\ At(c, "credit", "store")
    /\ LET t == task[c]
           new == Plus(t.row.bal, t.req.n)
       IN  /\ \E ok \in BOOLEAN :
                /\ Statement(ok)
                /\ StoreWallets(IF ~ok THEN wallets
                                ELSE IF t.row.id = 0
                                THEN InsertWallet(wallets, t.inst, t.req.c, new)
                                ELSE SetBalance(wallets, t.row.id, new))
           /\ Respond(c, TRUE, new)

\* 400 without a row or with too small a balance.
DebitBalance(c) ==
    /\ At(c, "debit", "balance")
    /\ \E ok \in BOOLEAN :
         /\ Statement(ok)
         /\ \E held \in Held(task[c].inst, task[c].req.c, ok) :
              IF held.id = 0 \/ held.bal < task[c].req.n
              THEN Refuse(c)
              ELSE Continue(c, [task[c] EXCEPT !.pc = "store", !.row = held])
    /\ UNCHANGED tables

DebitStore(c) ==
    /\ At(c, "debit", "store")
    /\ LET t == task[c]
           new == t.row.bal - t.req.n
       IN  /\ \E ok \in BOOLEAN :
                /\ Statement(ok)
                /\ StoreWallets(IF ok THEN SetBalance(wallets, t.row.id, new) ELSE wallets)
           /\ Respond(c, TRUE, new)

-----------------------------------------------------------------------------
(* TransferWallet.  The code does not ask that sender and receiver differ. *)

TransferSender(c) ==
    /\ At(c, "transfer", "sender")
    /\ \E ok \in BOOLEAN :
         /\ Statement(ok)
         /\ \E id \in Named(task[c].req.a, ok) :
              IF id = 0 THEN Refuse(c)
              ELSE Continue(c, [task[c] EXCEPT !.pc = "receiver", !.inst = id])
    /\ UNCHANGED tables

TransferReceiver(c) ==
    /\ At(c, "transfer", "receiver")
    /\ \E ok \in BOOLEAN :
         /\ Statement(ok)
         /\ \E id \in Named(task[c].req.b, ok) :
              IF id = 0 THEN Refuse(c)
              ELSE Continue(c, [task[c] EXCEPT !.pc = "funds", !.peer = id])
    /\ UNCHANGED tables

TransferFunds(c) ==
    /\ At(c, "transfer", "funds")
    /\ \E ok \in BOOLEAN :
         /\ Statement(ok)
         /\ \E held \in Held(task[c].inst, task[c].req.c, ok) :
              IF held.id = 0 \/ held.bal < task[c].req.n
              THEN Refuse(c)
              ELSE Continue(c, [task[c] EXCEPT !.pc = "peer", !.row = held])
    /\ UNCHANGED tables

TransferPeer(c) ==
    /\ At(c, "transfer", "peer")
    /\ \E ok \in BOOLEAN :
         /\ Statement(ok)
         /\ \E held \in Held(task[c].peer, task[c].req.c, ok) :
              IF ExceedsMax(task[c].def, held.bal, task[c].req.n)
              THEN Refuse(c)
              ELSE Continue(c, [task[c] EXCEPT !.pc = "commit", !.peerRow = held])
    /\ UNCHANGED tables

\* Faulty variant of Transferred: the two writes commit one by one.
Transferred_NoTransaction(t) ==
    LET debited == SetBalance(wallets, t.row.id, t.row.bal - t.req.n)
        new == Plus(t.peerRow.bal, t.req.n)
    IN  IF t.peerRow.id # 0 THEN SetBalance(debited, t.peerRow.id, new)
        ELSE InsertWallet(debited, t.peer, t.req.c, new)

\* Both writes in one transaction, the sender's first: an error of either
\* one (a second row for the receiver is one) rolls both back.
Transferred(t) ==
    LET debited == SetBalance(wallets, t.row.id, t.row.bal - t.req.n)
        new == Plus(t.peerRow.bal, t.req.n)
    IN  IF t.peerRow.id # 0 THEN SetBalance(debited, t.peerRow.id, new)
        ELSE IF WalletRows(t.peer, t.req.c) # {} THEN wallets
        ELSE InsertWallet(debited, t.peer, t.req.c, new)

\* Faulty variant of TransferCommit: the receiver's balance is answered.
TransferCommit_PeerBalance(c) ==
    /\ At(c, "transfer", "commit")
    /\ \E ok \in BOOLEAN :
         /\ Statement(ok)
         /\ StoreWallets(IF ok THEN Transferred(task[c]) ELSE wallets)
    /\ Respond(c, TRUE, Plus(task[c].peerRow.bal, task[c].req.n))

\* No error of the transaction is looked at: the answer is always 200.
TransferCommit(c) ==
    /\ At(c, "transfer", "commit")
    /\ \E ok \in BOOLEAN :
         /\ Statement(ok)
         /\ StoreWallets(IF ok THEN Transferred(task[c]) ELSE wallets)
    /\ Respond(c, TRUE, task[c].row.bal - task[c].req.n)

-----------------------------------------------------------------------------
(* The Currency reconciler, and the API process dying.                     *)

\* The upsert: INSERT ... ON CONFLICT (name, game) DO UPDATE.
DefineCurrency(k) ==
    /\ \E d \in Declared[k] : defs' = [defs EXCEPT ![k] = {d}]
    /\ reply' = NoReply
    /\ UNCHANGED <<instances, wallets, nextInst, nextRow, faults, task>>

\* A deleted Currency resource takes its row along, but no wallet rows.
DropCurrency(k) ==
    /\ defs' = [defs EXCEPT ![k] = {}]
    /\ reply' = NoReply
    /\ UNCHANGED <<instances, wallets, nextInst, nextRow, faults, task>>

\* Every handler stops between two statements; an open transaction is lost.
Crash ==
    /\ task' = [c \in Client |-> Idle]
    /\ reply' = NoReply
    /\ UNCHANGED <<tables, faults>>

Create(c) == \/ CreateRefused(c) \/ CreateInsert(c) \/ CreateConflict(c)
             \/ CreateChildren(c) \/ CreateList(c) \/ CreateEndow(c) \/ CreateReply(c)
Delete(c) == DeleteFind(c) \/ DeletePurge(c) \/ DeleteRemove(c)
Credit(c) == CreditBalance(c) \/ CreditStore(c)
Debit(c) == DebitBalance(c) \/ DebitStore(c)
Transfer(c) == \/ TransferSender(c) \/ TransferReceiver(c) \/ TransferFunds(c)
               \/ TransferPeer(c) \/ TransferCommit(c)

\* What the goroutine serving a client does next.
Step(c) == \/ Create(c) \/ Delete(c) \/ FindAvatar(c) \/ FindCurrency(c)
           \/ Credit(c) \/ Debit(c) \/ Transfer(c)

Next == \/ \E c \in Client : Receive(c) \/ Reject(c) \/ Step(c)
        \/ \E k \in Currency : DefineCurrency(k) \/ DropCurrency(k)
        \/ Crash

\* A goroutine that can take its next step is not starved.
Spec == Init /\ [][Next]_vars /\ \A c \in Client : WF_vars(Step(c))
=============================================================================
