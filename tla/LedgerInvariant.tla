--------------------------- MODULE LedgerInvariant ---------------------------
(***************************************************************************)
(* Handlers that never meet on an avatar: the assumption on the workload,  *)
(* and the inductive invariant behind what Wallet promises under it.  What *)
(* a handler has read is then not only of the right owner (IInv) but still *)
(* what the tables say.                                                    *)
(***************************************************************************)
EXTENDS WalletInvariant

\* NoRequest is not what Ledger makes of a request either.
ASSUME LedgerAssumption == \A r \in Request : NoRequest # [r EXCEPT !.op = "endow"]

Touches(r) == IF r.op = "transfer" THEN {r.a, r.b} ELSE {r.a}

\* Two clients never ask for the same avatar.
Exclusive ==
    \A c, d \in Client : c # d =>
        \A r \in Workload[c], s \in Workload[d] : Touches(r) \cap Touches(s) = {}

NoSelfTransfer == \A c \in Client : \A r \in Workload[c] : r.op = "transfer" => r.a # r.b

\* No sum that a handler computes leaves int64.
InRange == \A k \in Currency : Capped(k) /\ SmallAmounts(k)

\* One wallet row for an avatar instance and a currency.
Keyed(rows) == \A v, w \in rows : v.inst = w.inst /\ v.cur = w.cur => v = w

\* The unique keys; every wallet has its avatar as long as nothing failed.
TablesSole ==
    /\ \A i, j \in instances : i.id = j.id \/ i.name = j.name => i = j
    /\ Keyed(wallets)
    /\ NoOrphanWallets

Exists(id, a) == [id |-> id, name |-> a] \in instances

\* The snapshot is the row as it is now, or tells that there is none.
Current(row, i, k) ==
    IF row.id # 0 THEN [id |-> row.id, inst |-> i, cur |-> k, bal |-> row.bal] \in wallets
    ELSE row.bal = 0 /\ (faults = 0 => WalletRows(i, k) = {})

\* The avatars a handler has found are there, its snapshots are current, and
\* after an untroubled purge no wallets are left.
SoleFits(t) ==
    /\ t.pc = "idle" => t.req = NoRequest
    /\ t.inst # 0 => t.pc # "idle" /\ Exists(t.inst, t.req.a)
    /\ t.peer # 0 => t.pc # "idle" /\ t.req.op = "transfer" /\ Exists(t.peer, t.req.b)
    /\ t.pc \in {"purge", "remove"} => t.inst # 0
    /\ t.pc \in {"store", "peer", "commit"} => Current(t.row, t.inst, t.req.c)
    /\ t.pc \in {"peer", "commit"} \/ (t.pc = "store" /\ t.req.op = "debit") => t.row.id # 0
    /\ t.pc = "commit" => Current(t.peerRow, t.peer, t.req.c)
    /\ t.pc = "remove" /\ faults = 0 => \A w \in wallets : w.inst # t.inst

\* A transfer goes on only with a definition that allows it and the amount.
TradeFits(t) ==
    /\ t.pc \in {"sender", "receiver", "funds", "peer", "commit"} => t.def.tradeable
    /\ t.pc = "commit" => ~ExceedsMax(t.def, t.peerRow.bal, t.req.n)

\* Inductive together with IInv, if the workload is exclusive.
LedgerInv == TablesSole /\ \A c \in Client : SoleFits(task[c]) /\ TradeFits(task[c])
=============================================================================
