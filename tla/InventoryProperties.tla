------------------------- MODULE InventoryProperties -------------------------
(***************************************************************************)
(* What is required of Inventory: types, legal stacks, ownership of rows,  *)
(* uses the catalog allows, and grants and activations that do what their  *)
(* answers say.                                                            *)
(***************************************************************************)
EXTENDS Inventory, FiniteSetsExt

PC == {"idle", "insert", "kit", "target", "purge", "remove",
       "avatar", "row", "catalog", "stack", "store", "power", "spend"}
InstanceId == 0 .. MaxInstance
RowId == 0 .. MaxRow

Instance == [id : InstanceId \ {0}, name : Avatar]
ItemRow == [id : RowId \ {0}, inst : InstanceId \ {0}, item : Item, qty : Int64,
            equipped : BOOLEAN]
PowerRow == [id : 1 .. MaxPower, inst : InstanceId \ {0}, item : Item]
Task == [pc : PC, req : Request \cup {NoRequest}, inst : InstanceId, def : Definition,
         row : [id : RowId, qty : Int64], todo : SUBSET Stock]

\* The tables hold rows of their types, and every handler local variables of
\* theirs: no row is written for an avatar or an item that was not found;
\* sums wrap around within int64.
TypeOK ==
    /\ instances \subseteq Instance
    /\ items \subseteq ItemRow
    /\ powers \subseteq PowerRow
    /\ catalog \in [Item -> SUBSET Definition]
    /\ nextInst \in 1 .. MaxInstance + 1
    /\ nextRow \in 1 .. MaxRow + 1
    /\ nextPower \in 1 .. MaxPower + 1
    /\ faults \in 0 .. MaxFaults
    /\ task \in [Client -> Task]
    /\ reply \in BOOLEAN

\* Every declared version of the item limits its stacks.
Limited(k) == \A d \in Declared[k] : d.stackable /\ d.max > 0

Fits(k, n) == n >= 1 /\ \E d \in Declared[k] : n <= d.max

\* Created avatars bring legal stacks along, and no grant on top of a legal
\* stack leaves int64.
Moderate(k) ==
    \A c \in Client : \A r \in Workload[c] :
        /\ r.k = k => \A d \in Declared[k] : d.max + r.n < IntLimit
        /\ \A e \in r.kit : e.k = k => Fits(k, e.n)

\* A stack of an item with limited stacks always holds at least one item and
\* never more than some declared version allows, whatever grants and
\* activations overlap, fail or are cut off: both compute what they write from
\* a snapshot (handler.go:483-487, 682-686), and the limit is applied to the
\* very sum that is written.
StacksLegal ==
    \A r \in items : Limited(r.item) /\ Moderate(r.item) => Fits(r.item, r.qty)

\* A handler writes by the primary key it read before (handler.go:487, 564,
\* 609, 683, 685).  The avatar may be deleted and created again in between; if
\* the row still exists, it is still the avatar's row of the requested item.
HeldRowsStable ==
    \A c \in Client, r \in items :
        task[c].row.id = r.id => r.inst = task[c].inst /\ r.item = task[c].req.k

\* A new avatar starts without items and without active power-ups, although
\* DeleteAvatarInstance (handler.go:199-204) never removes power-ups, and may
\* race a handler that inserts items: nothing is inherited along the name.
NewAvatarStartsEmpty ==
    [][\A i \in instances' \ instances :
          /\ \A r \in items' : r.inst # i.id
          /\ \A p \in powers' : p.inst # i.id]_vars

\* Whatever happens to the catalog in the meantime, an item is equipped only
\* if some declared version of it is Equipment (handler.go:559), and a
\* power-up active only if some version is a Powerup with a duration (660,
\* 665).
ByTheCatalog ==
    /\ \A r \in items : r.equipped =>
         \E d \in Declared[r.item] : d.category = "Equipment"
    /\ \A p \in powers :
         \E d \in Declared[p.item] : d.category = "Powerup" /\ d.lasting

OwnRows(a, k) == UNION {ItemRows(i.id, k) : i \in InstanceRows(a)}

Quantity(rows) == MapThenSumSet(LAMBDA r : r.qty, rows)

\* How many items of that name the avatar has, over all rows.
Stocked(a, k) == Quantity(OwnRows(a, k))

\* No created avatar brings the item along twice.
OneKit(k) ==
    \A c \in Client : \A r \in Workload[c] :
        \A e, f \in r.kit : e.k = k /\ f.k = k => e = f

Stacked(k) == \A d \in Declared[k] : d.stackable

\* A stackable item is one row of its avatar (handler.go:479-492), for as long
\* as no statement has failed and no other handler works on the avatar.
OneStack ==
    faults = 0 =>
        \A a \in Avatar, k \in Item :
            OneKit(k) /\ Stacked(k) => \A r, q \in OwnRows(a, k) : r = q

Acknowledged(c) == task[c].pc # "idle" /\ task'[c] = Idle /\ reply'

\* Items leave an avatar only when it is deleted, or one at a time when an
\* activation ends: neither a grant on top of a full stack nor a failed
\* statement or a crash takes any.
StockKept ==
    [][\A a \in Avatar, k \in Item :
          Stocked(a, k)' < Stocked(a, k) =>
              \E c \in Client :
                 /\ task[c].req # NoRequest /\ task[c].req.a = a
                 /\ \/ task[c].pc \in {"purge", "remove"}
                    \/ /\ At(c, "activate", "spend") /\ task[c].req.k = k
                       /\ Stocked(a, k)' = Stocked(a, k) - 1]_vars

\* A grant that is answered with 200 has added its quantity, up to the limit
\* of the stack, to what the avatar has at that moment (handler.go:483-508).
GrantsAdd ==
    [][\A c \in Client, a \in Avatar, k \in Item :
          (/\ Acknowledged(c) /\ At(c, "grant", "store") /\ faults' = 0
           /\ task[c].req.a = a /\ task[c].req.k = k)
          => LET d == task[c].def
                 sum == Stocked(a, k) + task[c].req.n
             IN  Stocked(a, k)' = IF d.stackable /\ d.max > 0 THEN Min({d.max, sum})
                                  ELSE sum]_vars

\* An activation that is answered with 200 has taken one item from what the
\* avatar has at that moment (handler.go:682-688), as long as no statement has
\* failed.
ActivationsSpendUnlessFaults ==
    [][\A c \in Client, a \in Avatar, k \in Item :
          (/\ Acknowledged(c) /\ At(c, "activate", "spend") /\ faults' = 0
           /\ task[c].req.a = a /\ task[c].req.k = k)
          => Stocked(a, k)' = Stocked(a, k) - 1]_vars
=============================================================================
