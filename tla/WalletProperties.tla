-------------------------- MODULE WalletProperties --------------------------
(***************************************************************************)
(* What is required of Wallet: types, bounds of the balances, ownership of *)
(* rows, honest answers, and the abstract specification Ledger.            *)
(***************************************************************************)
EXTENDS Wallet

PC == {"idle", "insert", "children", "list", "endow", "target", "purge", "remove",
       "avatar", "currency", "balance", "store",
       "sender", "receiver", "funds", "peer", "commit"}
InstanceId == 0 .. MaxInstance
RowId == 0 .. MaxRow

Instance == [id : InstanceId \ {0}, name : Avatar]
Balance == [id : RowId \ {0}, inst : InstanceId \ {0}, cur : Currency, bal : Int64]
Snapshot == [id : RowId, bal : Int64]
Task == [pc : PC, req : Request \cup {NoRequest}, inst : InstanceId, peer : InstanceId,
         def : Definition, row : Snapshot, peerRow : Snapshot,
         todo : SUBSET [cur : Currency, n : Int64]]
Reply == [ok : BOOLEAN, bal : Int64]

\* The tables hold rows of their types, and every handler local variables of
\* theirs; sums wrap around within int64, differences stay there.
TypeOK ==
    /\ instances \subseteq Instance
    /\ wallets \subseteq Balance
    /\ defs \in [Currency -> SUBSET Definition]
    /\ nextInst \in 1 .. MaxInstance + 1
    /\ nextRow \in 1 .. MaxRow + 1
    /\ faults \in 0 .. MaxFaults
    /\ task \in [Client -> Task]
    /\ reply \in Reply

\* Every declared version of the currency has a maximum.
Capped(k) == \A d \in Declared[k] : d.max > 0

\* No request takes a legal balance of the currency beyond int64.  (Without
\* this the sum of handler.go:909 wraps around, and a negative number passes
\* the comparison with the maximum: BalanceBounds is false then.)
SmallAmounts(k) ==
    \A d \in Declared[k], c \in Client : \A r \in Workload[c] :
        r.c = k => d.max + r.n < IntLimit /\ d.initial + r.n < IntLimit

\* At most what some declared version allows or gives to a new avatar.
Bounded(k, n) == n >= 0 /\ \E d \in Declared[k] : n <= d.max \/ n <= d.initial

\* No balance of a capped currency is ever negative or above what some
\* declared version of the currency allows or starts with, whatever handlers
\* overlap, fail or are cut off: each one checks the very snapshot it computes
\* from (handler.go:910, 974, 1045, 1061), so not even a lost update leaves
\* the bounds.  An initial balance is not checked against the maximum of its
\* own currency (handler.go:114-117); no credit raises it further.
BalanceBounds ==
    \A w \in wallets : Capped(w.cur) /\ SmallAmounts(w.cur) => Bounded(w.cur, w.bal)

\* A handler writes by the primary key it read before (handler.go:919, 979,
\* 1068, 1073).  Avatars may be deleted and created again in between; if the
\* row still exists, it is still the wallet of the avatar and currency of
\* the request.
HeldRowsStable ==
    \A c \in Client, w \in wallets :
        LET t == task[c]
        IN  /\ t.row.id = w.id => w.inst = t.inst /\ w.cur = t.req.c
            /\ t.peerRow.id = w.id => w.inst = t.peer /\ w.cur = t.req.c

\* A new avatar starts without wallet rows, although an earlier avatar of the
\* same name may have left some (DeleteAvatarInstance racing a handler that
\* inserts one): nothing is inherited along the name.
NoInheritance ==
    [][\A i \in instances' \ instances : \A w \in wallets' : w.inst # i.id]_vars

\* Every wallet row belongs to an avatar that exists: nothing remains after
\* DeleteAvatarInstance as long as no statement fails and no other handler
\* works on the avatar at the same time.
NoOrphanWallets ==
    faults = 0 => \A w \in wallets : \E i \in instances : i.id = w.inst

Book(a, k) == {w.bal : w \in {v \in wallets : v.cur = k /\ \E i \in InstanceRows(a) : i.id = v.inst}}

Acknowledged(c) ==
    /\ task[c].req # NoRequest
    /\ task[c].req.op \in {"credit", "debit", "transfer"}
    /\ task'[c] = Idle /\ reply'.ok

Truthful(c) ==
    Acknowledged(c) =>
        \A a \in Avatar, k \in Currency :
            a = task[c].req.a /\ k = task[c].req.c => Book(a, k)' = {reply'.bal}

\* A 200 states the balance that the avatar has at that moment (the
\* WalletBalanceResponse of handler.go:922, 982 and 1077), as long as no
\* statement has failed: the errors of the writes are dropped (917, 919).
RepliesHonestUnlessFaults == [][faults' = 0 => \A c \in Client : Truthful(c)]_vars

\* What an avatar has; nothing counts as 0.
Worth(a, k) == IF Book(a, k) = {} THEN 0 ELSE CHOOSE n \in Book(a, k) : TRUE

\* A credit of a wallet that is there, answered with 200, adds its amount to
\* what the avatar has, whoever else is crediting it (handler.go:909-922).
\* The first credit of a wallet, which inserts the row (917), is left aside.
CreditsAdd ==
    [][\A c \in Client, a \in Avatar, k \in Currency :
          (/\ Acknowledged(c) /\ At(c, "credit", "store") /\ task[c].row.id # 0
           /\ task[c].req.a = a /\ task[c].req.c = k)
          => Worth(a, k)' = Worth(a, k) + task[c].req.n]_vars

\* A transfer takes from one avatar what it gives to the other
\* (handler.go:1066-1075): together they have what they had.
TransfersConserve ==
    [][\A c \in Client, a, b \in Avatar, k \in Currency :
          (/\ Acknowledged(c) /\ At(c, "transfer", "commit")
           /\ task[c].req.a = a /\ task[c].req.b = b /\ task[c].req.c = k)
          => Worth(a, k)' + Worth(b, k)' = Worth(a, k) + Worth(b, k)]_vars

\* What the tables say, by avatar name, and what is still to be done.
Open == {i.name : i \in instances}
Books == [a \in Avatar |-> [k \in Currency |-> Book(a, k)]]
PendingOf(t) ==
    IF t.pc \in {"children", "list", "endow"} THEN [t.req EXCEPT !.op = "endow"] ELSE t.req
Pending == [c \in Client |-> PendingOf(task[c])]

\* The abstract specification.
Abstract == INSTANCE Ledger WITH open <- Open, books <- Books, pending <- Pending

\* Handlers that never meet on an avatar implement the ledger, in spite of
\* failed statements, crashes and redefined currencies.
LedgerImplemented == Abstract!Spec
=============================================================================
