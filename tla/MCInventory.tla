---------------------------- MODULE MCInventory ----------------------------
(* Small instances of Inventory for TLC.                                   *)
EXTENDS StockInvariant, TLC

CONSTANTS c1, c2, ann, bob, potion, sword

Ask(op, a, k, n) == [op |-> op, a |-> a, k |-> k, n |-> n, kit |-> {}]
AskCreate(a, kit) == [Ask("create", a, potion, 1) EXCEPT !.kit = kit]
Of(k, n) == [k |-> k, n |-> n]

Potion(max) == [category |-> "Powerup", stackable |-> TRUE, max |-> max, lasting |-> TRUE]
Sword == [category |-> "Equipment", stackable |-> FALSE, max |-> 0, lasting |-> TRUE]

\* The limit of a stack of potions changes.
Changing == potion :> {Potion(1), Potion(2)}
Fixed == potion :> {Potion(2)} @@ sword :> {Sword}

\* Two clients that work on the same avatar.
SharedWorkload ==
    c1 :> {AskCreate(ann, {Of(potion, 1)}), Ask("delete", ann, potion, 1),
           Ask("grant", ann, potion, 1), Ask("activate", ann, potion, 1)}
    @@ c2 :> {Ask("activate", ann, potion, 1), Ask("grant", ann, potion, 2)}

\* Two clients that never work on the same avatar.
ExclusiveWorkload ==
    c1 :> {AskCreate(ann, {Of(potion, 2)}), Ask("delete", ann, potion, 1),
           Ask("grant", ann, potion, 1), Ask("activate", ann, potion, 1)}
    @@ c2 :> {AskCreate(bob, {}), Ask("grant", bob, sword, 1), Ask("equip", bob, sword, 1),
              Ask("unequip", bob, sword, 1), Ask("activate", bob, sword, 1)}
=============================================================================
