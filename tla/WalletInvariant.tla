--------------------------- MODULE WalletInvariant ---------------------------
(***************************************************************************)
(* The inductive invariant behind the safety properties of Wallet: what    *)
(* the tables always satisfy, and what a handler at each of its steps      *)
(* knows about the rows it has read.                                       *)
(***************************************************************************)
EXTENDS WalletProperties

\* A balance that may be stored for currency k.
Legal(k, n) == Capped(k) /\ SmallAmounts(k) => Bounded(k, n)

\* A sum that a credit or a transfer may arrive at: it was held against the
\* maximum, which an initial balance is not.
Creditable(k, n) ==
    Capped(k) /\ SmallAmounts(k) => n >= 0 /\ \E d \in Declared[k] : n <= d.max

\* Ids come from the sequences, a key identifies a row, and balances are legal.
RowsFit(rows, ni, nr) ==
    /\ \A w \in rows : w.id < nr /\ w.inst < ni /\ Legal(w.cur, w.bal)
    /\ \A v, w \in rows : v.id = w.id => v = w

TablesFit ==
    /\ RowsFit(wallets, nextInst, nextRow)
    /\ \A i \in instances : i.id < nextInst
    /\ \A k \in Currency : defs[k] \subseteq Declared[k]

\* The request is one the handler accepts.
RequestFits(c, t) ==
    t.pc # "idle" => t.req \in Workload[c] /\ WellFormed(t.req)

\* A handler that works on an avatar has found or inserted it.
FoundFits(t) ==
    /\ t.pc \in {"children", "list", "endow", "balance", "store", "receiver", "funds", "peer",
                 "commit"} => t.inst # 0
    /\ t.pc = "currency" /\ t.req.op # "transfer" => t.inst # 0
    /\ t.pc \in {"funds", "peer", "commit"} => t.peer # 0

\* Ids a handler holds were given out, rows are held only once they have been
\* read, and do not change their owner.
IdsFit(t, rows, ni, nr) ==
    /\ t.pc \notin {"store", "peer", "commit"} => t.row.id = 0
    /\ t.pc # "commit" => t.peerRow.id = 0
    /\ t.inst < ni /\ t.peer < ni /\ t.row.id < nr /\ t.peerRow.id < nr
    /\ \A w \in rows :
         /\ t.row.id = w.id => w.inst = t.inst /\ w.cur = t.req.c
         /\ t.peerRow.id = w.id => w.inst = t.peer /\ w.cur = t.req.c

\* The definition a handler has read was declared at some time, and so were
\* the initial balances it is about to insert.
TermsFit(t) ==
    /\ t.pc \in {"balance", "store", "sender", "receiver", "funds", "peer", "commit"}
         => t.def \in Declared[t.req.c]
    /\ \A e \in t.todo : \E d \in Declared[e.cur] : e.n = d.initial /\ e.n > 0

\* What a handler is about to write is legal, and what it takes away is there.
AmountsFit(t) ==
    /\ t.pc = "store" /\ t.req.op = "credit" => Creditable(t.req.c, Plus(t.row.bal, t.req.n))
    /\ t.pc = "store" /\ t.req.op = "debit" =>
         t.req.n <= t.row.bal /\ Legal(t.req.c, t.row.bal - t.req.n)
    /\ t.pc \in {"peer", "commit"} =>
         t.req.n <= t.row.bal /\ Legal(t.req.c, t.row.bal - t.req.n)
    /\ t.pc = "commit" => Creditable(t.req.c, Plus(t.peerRow.bal, t.req.n))

TaskFits(c, t, rows, ni, nr) ==
    /\ RequestFits(c, t) /\ FoundFits(t) /\ IdsFit(t, rows, ni, nr)
    /\ TermsFit(t) /\ AmountsFit(t)

\* The inductive invariant: it holds initially and every step keeps it.
IInv ==
    /\ TypeOK
    /\ TablesFit
    /\ \A c \in Client : TaskFits(c, task[c], wallets, nextInst, nextRow)
=============================================================================
