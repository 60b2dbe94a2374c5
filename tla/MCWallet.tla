------------------------------ MODULE MCWallet ------------------------------
(* Small instances of Wallet for TLC.                                      *)
EXTENDS LedgerInvariant, TLC

CONSTANTS c1, c2, ann, bob, eve, gold, pts

Ask(op, a, b, k, n) == [op |-> op, a |-> a, b |-> b, c |-> k, n |-> n]
AskCreate(a) == Ask("create", a, a, gold, 1)
AskDelete(a) == Ask("delete", a, a, gold, 1)
AskCredit(a, k, n) == Ask("credit", a, a, k, n)
AskDebit(a, k, n) == Ask("debit", a, a, k, n)
AskTransfer(a, b, k, n) == Ask("transfer", a, b, k, n)

Version(tradeable, max, initial) ==
    [tradeable |-> tradeable, max |-> max, initial |-> initial]

\* gold is capped, in two versions; the second starts
\* above any maximum.
CappedGold == gold :> {Version(TRUE, 2, 1), Version(TRUE, 1, 3)}

\* Two clients that work on the same avatars.
SharedWorkload ==
    c1 :> {AskCreate(ann), AskDelete(ann), AskCredit(ann, gold, 2)}
    @@ c2 :> {AskCreate(bob), AskTransfer(ann, bob, gold, 1), AskDebit(ann, gold, 1)}

\* Two clients that never work on the same avatar.
ExclusiveWorkload ==
    c1 :> {AskCreate(ann), AskCreate(bob), AskTransfer(ann, bob, gold, 1),
           AskCredit(ann, gold, 1), AskDelete(ann)}
    @@ c2 :> {AskCreate(eve), AskCredit(eve, gold, 1), AskDebit(eve, gold, 1)}

OneVersion == gold :> {Version(TRUE, 2, 1)}

\* A new avatar has a wallet, and two credits of 1 fit into it.
Endowed == gold :> {Version(TRUE, 3, 1)}

\* Two clients credit the same avatar.
TwoCredits == c1 :> {AskCreate(ann), AskCredit(ann, gold, 1)} @@ c2 :> {AskCredit(ann, gold, 1)}

\* One client alone.
SelfTransfer == c1 :> {AskCreate(ann), AskTransfer(ann, ann, gold, 1)}
=============================================================================
