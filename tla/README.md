# KubeGame: a verification project

KubeGame is a Kubernetes operator with a REST API. Custom resources (Game,
World, Area, Avatar, Item, Currency) describe a game; reconcilers deploy one
PostgreSQL database per Game and write the other resources into it as rows; the
API, in the same process, creates avatar instances in that database and changes
their inventories and wallets.

These TLA+ modules model the program's own logic at the granularity at which it
can go wrong: one action per SQL statement of a handler, per operation of the
shared connection map, per update of a resource. TLC checks small instances;
TLAPS proves the invariants for every value of the constants.

## Inventory of the system

| Component | Source | State | Operations | Modelled in |
|---|---|---|---|---|
| Wallet API | `internal/api/handler.go:860-1082` | rows of `avatar_currency_balances` | credit, debit, transfer | `Wallet` |
| Avatar instances | `handler.go:21-207` | `avatar_instances` and five child tables | create, delete | `AvatarInstances` (validation, instance, child rows, response); also `Wallet` (instance and wallet rows), `Inventory` (instance and inventory rows) |
| Currency definitions | `internal/controller/currency_controller.go` | `currency_definitions` | upsert, delete | `Reconciler`; its effect on the rows also in `Wallet` |
| Connection pool | `internal/persistence/pool.go`, `persistence.go` | `sync.Map` host -> `*gorm.DB` | get or create, close | `ConnectionPool` |
| Inventory, power-ups | `handler.go:440-731` | inventory rows, `active_powerups` | grant, equip, unequip, activate, list | `Inventory` |
| Item definitions | `internal/controller/item_controller.go` | `item_definitions` | upsert, delete | `Reconciler`; its effect on the rows also in `Inventory` |
| Blueprint validation | `internal/api/validation.go`, `avatar_controller.go:124-196` | attribute, inventory, achievement, customization types | validate, write, delete | `Blueprint` (rows and reconciler), `AvatarInstances` (validation) |
| Game reconciler | `internal/controller/game_controller.go` | finalizer, Deployment, Service, status | reconcile, finalize | `Reconciler`; the pool side of the finalizer in `ConnectionPool` |
| World, Area, Avatar reconcilers | `internal/controller/*_controller.go` | finalizer, labels, rows | reconcile, finalize | `Reconciler` (all child kinds as one program); the rows of avatars table by table in `Blueprint` |
| Helpers | `internal/controller/helpers.go` | labels, credentials | ensureLabels, getGameDB | `Reconciler`, `ConnectionPool` |
| Reads of avatar instances | `handler.go:125-175`, `handler.go:345-387` | none of their own | get, list | `AvatarInstances` |
| Other reads, HTTP server, middleware, main, resource types | `handler.go`, `server.go`, `middleware.go`, `cmd/main.go`, `api/v1alpha1` | none of their own | get, list, route, start | not modelled |

**How they interact.** `net/http` serves every request in a goroutine of its
own. Handlers share no memory except the connection pool; everything else they
share is in the database. Every statement commits by itself; the only
transaction is the pair of writes in `TransferWallet`. Reconcilers run in the
same process, one worker per kind, and meet the handlers in the pool and in the
rows they write. When the process dies, all of them stop between two statements.

**What is hard.** Read-modify-write over several statements without a
transaction or a lock; errors that are dropped (most writes) or taken for "not
found" (all reads); rows that are written by a primary key read earlier, while
avatars are deleted and created again under the same name; definitions that
change between the check and the write; a pool whose sequences of atomic map
operations interleave with each other and with the finalizer; deletion that runs
while others still use what is deleted; reconcilers that work on cached copies,
give up at a conflict, and rely on an event or a requeue to be called again.

**What makes the components correct.**
- Wallets: no balance leaves the bounds of its currency, if every version of it has
  a maximum and no sum leaves int64; no row changes owner;
  nothing is inherited by a new avatar of an old name; a deleted avatar leaves
  nothing; an acknowledged request has moved exactly its amount; a refused one
  has moved nothing; an answer states the true balance.
- Pool: an entry is open; all callers of a host share it until it is taken out;
  the connection of a lost race is used by nobody; after finalization none is left.
- Inventory: stacks within their maximum, if creations bring legal stacks along and no
  sum leaves int64; one row per stackable item; an
  acknowledged grant adds, an acknowledged activation takes one item, nothing
  else takes any; only what the catalog allows is equipped or activated; a new
  avatar has nothing.
- Blueprints and instances: what is accepted was declared, for that very type;
  what was written and not deleted is not refused; a deleted blueprint leaves no
  row, however often its rows were inserted; an acknowledged instance has exactly
  the child rows of its request until a deletion finds it; an answer that is put
  together from several queries shows such an instance whole.
- Reconcilers: rows exist only under a finalizer; a resource at rest is reflected
  by its rows; every resource is eventually written, and gone after its deletion.

## Modules

| Module | Content |
|---|---|
| `Tables` | SQL through gorm: `First`, failed queries, update and delete by primary key (external) |
| `Handlers` | what `Wallet`, `Inventory` and `AvatarInstances` share: clients, avatar instances, lookups by name, failing statements, int64 |
| `Wallet` | the handlers and the Currency reconciler over three tables, one action per statement |
| `Ledger` | the abstract specification: requests that move money in one step |
| `WalletProperties` | types, bounds, ownership, honest answers, the refinement mapping to `Ledger` |
| `WalletInvariant`, `WalletProofs` | the inductive invariant for any workload, and its proof |
| `LedgerInvariant`, `LedgerProofs` | the assumptions on an exclusive workload, the invariant it allows, and the proofs that need it: honest answers, no orphans, the refinement |
| `MCWallet` + `wallet_*.cfg` | instances for TLC |
| `Inventory` | the inventory handlers and the Item reconciler over four tables, one action per statement |
| `InventoryProperties` | types, legal stacks, ownership, the catalog's word, exact grants and activations |
| `InventoryInvariant` | the inductive invariant for any workload |
| `StockInvariant` | the assumptions on an exclusive workload and a regular catalog, and the invariant they allow |
| `InventoryProofs` | TLAPS proofs of both, of sums over finite sets, and of exact grants and activations |
| `MCInventory` + `inventory_*.cfg` | instances for TLC |
| `Blueprint` | avatar types as operators declare them, the rows the Avatar reconciler writes and deletes table by table |
| `AvatarInstances` | the handlers that create (with validation), delete, get and list instances, over `Blueprint` |
| `InstanceProperties`, `InstanceInvariant` | their properties and the inductive invariant |
| `BlueprintProofs`, `InstanceProofs`, `AnswerProofs` | TLAPS proofs: of blueprints, of creations and deletions, of checks and reads |
| `MCInstances` + `blueprint*.cfg`, `instances.cfg` | instances for TLC |
| `ConnectionPool` | the pool, its callers, Games and their finalizer; its properties |
| `PoolInvariant`, `PoolProofs` | the inductive invariant and its proof |
| `MCPool` + `pool*.cfg` | instances for TLC |
| `Reconciler` | the reconcilers of a Game and its children, the informer cache, the work queue, the database's life |
| `ReconcilerProperties` | types, rows under finalizers, no lost wake-up, liveness |
| `ReconcilerInvariant`, `ReconcilerProofs` | the inductive invariant and its proof |
| `MCReconciler` + `reconciler*.cfg` | instances for TLC |

Operators named `X_Something` stand before `X` and are faulty variants of it:
each is a plausible bug (a dropped guard, a wrong key, a second commit) that
violates the property it was written for, which shows that the property can fail.

### Wallet

A client is a request in progress; `task[c]` holds the local variables of the
handler that serves it: where it is (`pc`), the request, the instance ids it has
read, the currency definition, its snapshots of wallet rows, and the initial
balances that remain to be inserted. `instances`, `wallets` and `defs` are the
tables; `nextInst` and `nextRow` are the sequences behind their keys, so an id is
never used twice. `reply` is the response sent by the last step.

| Action | Code |
|---|---|
| `CreateInsert`, `CreateConflict` | the insert of the instance, 409 when the name is taken or the statement fails |
| `CreateChildren` | the child rows (`handler.go:62-108`), any of which may end the handler with 500 |
| `CreateList`, `CreateEndow`, `CreateReply` | the query for initial balances, one insert per currency, 201 |
| `DeleteFind`, `DeletePurge`, `DeleteRemove` | lookup, balances, instance, 204 |
| `FindAvatar`, `FindCurrency` | the two lookups of credit and debit (and the currency of a transfer) |
| `CreditBalance`, `CreditStore` | snapshot and check of the maximum, then insert or update |
| `DebitBalance`, `DebitStore` | snapshot and check of the funds, then update |
| `TransferSender` ... `TransferCommit` | four lookups with their checks, then both writes in one transaction |
| `DefineCurrency`, `DropCurrency` | the reconciler's upsert and delete |
| `Crash` | the process dies: every handler is gone, the tables stay |

What is abstracted, and why it is sound:
- A statement that fails and a row that does not exist are the same to every
  handler (`result.Error != nil`), so `Answer` returns no row for both.
- The transaction of a transfer takes effect at its commit. PostgreSQL's default
  isolation lets others see nothing of it before, its two writes are blind
  (constants computed earlier), and row locks order it against writers of the
  same rows. An abort, on a deadlock for instance, is a failed statement.
- Amounts are small integers; `IntLimit` stands for 2^63 and `Plus` wraps there.
- One game: every query is confined to it. A failing lookup of the Game or of a
  connection refuses the request before any statement (`Reject`).
- The blueprint may refuse any creation (`CreateRefused`); child tables other
  than wallets are one statement that may fail.
- Deletion of the other child tables is not visible here and adds no step
  between purge and removal that another action could not already fill.

### Inventory

Built like `Wallet`, over `instances`, `items` (the inventory rows), `powers`
(the active power-ups, expired ones included: no code removes them) and
`catalog`. `task[c]` holds the request, the avatar's id, the snapshot of one
inventory row, the item definition, and the rows a creation has yet to insert.

| Action | Code |
|---|---|
| `CreateInsert`, `CreateConflict`, `CreateKit`, `CreateReply` | the instance, the request's inventory row by row, 201; any failure in between is a 500 that leaves the rest out |
| `DeleteFind`, `DeletePurge`, `DeleteRemove` | lookup, inventory rows, instance, 204 |
| `FindAvatar`, `FindRow`, `FindItem` | the lookups of grant, equip, unequip and activate, with the checks of the category and the duration |
| `GrantFind`, `GrantStack`, `GrantRow` | the stack to add to; update of the stack, capped; or a row of its own |
| `MarkEquipped` | the update of `equipped` (both handlers) |
| `ActivatePower`, `ActivateSpend` | the power-up is inserted, then one item taken from the snapshot |
| `DefineItem`, `DropItem` | the reconciler's upsert and delete |
| `Crash` | the process dies |

Abstracted: of a category, whether it is Equipment, Powerup or another; of a
duration, whether it is positive, since the expiry time only filters
`ListActivePowerups`; `buildInstanceResponse`, which only reads. The inventory of
a create request is a set of item and quantity, so it has no two equal lines.
`Wallet` and `Inventory` share no table but `avatar_instances`, and no handler
works on both a wallet and an inventory except creation and deletion, whose
effects on the other module's tables are separate statements: the two modules
can be read side by side without being composed.

### Blueprint and AvatarInstances

A part is an attribute, an inventory category, an achievement, a customization or
one of its options; `Kind` gives its table, `Base` the customization of an option.
`spec` are the Avatar resources as the reconciler's cache has them, `types` the rows
of `avatar_types`, `rows[o][p]` the number of rows part `p` of type `o` has, and
`worker` the only worker of the Avatar reconciler with the copy it works on.

| Action | Code |
|---|---|
| `Apply`, `DeleteAvatar` | `kubectl apply` and `delete` |
| `Adopt` | finalizer and labels (`avatar_controller.go:93-107`) |
| `Reconcile`, `WriteType`, `WritePart`, `Written` | the Game is ready; one insert per row, in the order of 124-196 |
| `Finalize`, `PurgeParts`, `PurgeType`, `Release` | 59-80, one DELETE per table, errors dropped, then the finalizer |
| `CheckType`, `CheckTable`, `CheckCustomizations`, `CheckOption` | the queries of `validation.go:9-113`, each with its refusal |
| `CreateInsert`, `CreateConflict`, `CreateChild`, `CreateFilled` | `handler.go:47-118`: the instance, one insert per child row, 409 and 500 |
| `BuildTable`, `BuildNext`, `CreateReply`, `GetReply`, `ListReply` | `buildInstanceResponse`, one query per table, and the answers |
| `GetFind`, `ListFind`, `ListNext` | the lookups of GET |
| `DeleteFind`, `DeleteTable`, `DeleteRemove` | `handler.go:177-207` |
| `Designer`, `Reconciler`, `Crash` | the above composed with the handlers; the process dies |

`made`, `acked`, `touched`, `firm` and `sure` are histories: the request behind each
instance, the instances answered with 201, those a deletion has found, and for a
request in progress, what its answer must show and whether it must pass validation.
`ever` and `written` are those of the blueprints. No guard reads any of them.

Abstracted:
- Values of attributes and quantities of items are not kept; validation looks at
  names only. That an inventory row is later granted to or used is in `Inventory`.
- A table that no requested part belongs to is queried to no effect and left out.
- Parts of one table are written in any order; the code has the order of a slice or
  of a Go map, which nothing depends on.
- A statement that fails changes nothing, except the insert of an instance, which
  may be committed although the handler is told otherwise and answers 409
  (`CreateConflict`). A child row committed without an answer is the same to everyone
  as one whose handler died before the next step (`Crash`).
- The worker may run whenever a resource is there; `Reconciler` has what makes it run.
- Copies of a row are counted up to `Many`. The blueprint tables have no unique
  index, so `ON CONFLICT DO NOTHING` never applies and each reconciliation inserts
  every part again; the tests count rows after the first one only
  (`avatar_controller_test.go:116-182`).

### ConnectionPool

`pool` is the map, `call[c]` a goroutine inside `GetOrCreateConnection` or using
its result, `worker` the Game reconciler's single worker inside the finalizer,
`open` the connections not closed, `dropped` a history of those taken out.
`Load`, `PingAnswered`/`PingFailed`, `Delete`, `Create`/`CreateFailed` and
`LoadOrStore` are the steps of `pool.go:13-32`; `CloseLoad`/`CloseClose` those of
`pool.go:34-41`; `Finalized`/`FinalizeFailed` the update that removes the
finalizer. A Game deleted before its first reconciliation has no finalizer and is
gone at once. `HostOf` forgets the namespace, as the code does.

### Reconciler

The five child reconcilers are one program, which `Reconciler` has once; `Child`
are resources of any kind. The kinds differ in two points: rows of items and
currencies are upserted (`Overwrites`), those of worlds, areas and avatars keep
their first content (`RecordOver`); and a specification may have `parts`
(attributes, connections, effects) that become rows of their own. `res` are the
API server's resources, `cache` the informers' copies, current for the objects
in `synced`; `queue` is the work queue, `task[o]` the reconciliation of `o` with
its copy of the resource, whether that copy is still the server's `version`, the
status of the Game it saw, and the parts left to insert. `secret`, `database`,
`service` and `doomed` are what the Game's reconciler finds or makes and the
garbage collector removes. `unattended` and `abandoned` are histories for the
properties; no action reads them.

| Action | Code (`avatar_controller.go` for the children) |
|---|---|
| `Take` | the resource from the cache; not found, or deleted without finalizer, is left alone (49-60) |
| `FindGame` | the Game from the cache; not found ends it without requeue (83-91) |
| `AddFinalizer` | 93-98, `game_controller.go:84-89` |
| `EnsureLabels` | an update ends it, a Game that is not ready requeues (100-111, `helpers.go:58-78`) |
| `Connect` | `getGameDB` and the migrations (113-122) |
| `WriteRecord`, `WritePart`, `Written` | one insert each (124-198) |
| `FindRows`, `DeleteParts`, `DeleteRecord`, `RemoveFinalizer` | finalization (59-80) |
| `Credentials`, `EnsureDeployment`, `EnsureService`, `SetReady` | `game_controller.go:91-141` |
| `Sync`, `Restart`, `Apply`, `Edit`, `ApplyGame`, `Delete`, `ChangeSecret`, `DatabaseStarts`, `DatabaseStops`, `CollectDeployment`, `CollectService` | what is around it: informers, users, Kubernetes |

`Update` is `client.Update`: refused when the copy is not the server's version any
more, or failing, with its effect or without. What is abstracted:
- One Game; a child names it for good. Labels are there or not; their values
  follow the specification.
- Rows of parts are sets. The code inserts them again at every reconciliation
  (`DoNothing` without a unique index); how often is not counted.
- The migrations are part of `Connect`, the deletions of the parts' tables one
  statement, and Secret, Deployment and Service are read as they are, since the
  reconcilers change none of them after creation.
- An update that changes nothing makes no new version and no event, as in the API
  server.
- Different children may be reconciled at the same time; the code has one worker
  per kind, so it has fewer interleavings, not more.
- controller-runtime delivers every cached object anew from time to time, every ten hours
  unless configured (`cmd/main.go` does not). That resync is left out: what is said to be
  at rest is so until then, and no liveness property counts on it.
- `CloseConnection` in the Game's finalizer is in `ConnectionPool`; a connection is
  usable when the database answers.

## Runs

| Run | Expect | What it shows |
|---|---|---|
| `wallet_concurrent` | pass | Two clients on the same two avatars, a currency with two versions, one of which starts above its maximum, one failed statement, crashes: `TypeOK`, the inductive invariant `IInv`, `BalanceBounds`, `HeldRowsStable`, `NoInheritance` |
| `wallet_exclusive` | pass | Two clients on disjoint avatars: the handlers implement `Ledger` (`LedgerImplemented`), leave no orphan rows (`NoOrphanWallets`), and answer truly as long as no statement fails (`RepliesHonestUnlessFaults`) |
| `wallet_lost_credit` | violation | Two overlapping credits of a wallet that is there: both read the balance 1, both write 2 by primary key and answer 200, one is lost (`CreditsAdd`) |
| `wallet_self_transfer` | violation | A transfer to oneself adds the amount (`TransfersConserve`) |
| `inventory_concurrent` | pass | Two clients create, delete, grant and activate on one avatar, both grant and both activate, the stack limit changes between 1 and 2, one statement fails, crashes: `TypeOK`, the inductive invariant `InventoryInv`, `StacksLegal`, `HeldRowsStable`, `NewAvatarStartsEmpty` |
| `inventory_exclusive` | pass | Two clients on disjoint avatars: `OneStack`, `StockKept`, `GrantsAdd`, `ActivationsSpendUnlessFaults`, and `ByTheCatalog` (equipment cannot be activated although it has a duration) |
| `pool` | pass | Entries are open, shared and never replaced (`PooledAreOpen`, `UsedWasPooled`, `EntriesStay`), with types (`PoolTypeOK`) |
| `reconciler` | pass | A Game and an item, two changes by users, one failure: `ReconcilerTypeOK`, the inductive invariant `ReconcilerInv`, `RowsHaveFinalizer`, `SettledIsReflected`, and under fairness `DeletedGoAway`, `ChildrenReflected`, `GamesBecomeReady` |
| `blueprint` | pass | Creations by one client while two types are applied, edited, reconciled, deleted and applied again, one failed statement, crashes: `InstanceTypeOK`, `AcceptedWasDeclared`, `CoveredIsAccepted`, `GoneLeavesNothing` |
| `instances` | pass | Two clients create, delete, get and list under one name, one failed statement, crashes: the inductive invariant `InstanceInv`, `AcknowledgedIsWhole`, `AnswersComplete` |
| `blueprint_removed` | violation | An attribute taken out of an Avatar resource stays valid although the reconciler has written the new version (`AcceptedIsDeclared`) |
| `reconciler_forgotten` | violation | An avatar applied right after its Game, and reconciled before the cache has the Game, is not written by anything the two resources cause (`AppliedIsReflected`); only the periodic resync would bring it back |

`inventory_concurrent` and `inventory_exclusive` draw the same line for items: a
stack stays legal whatever overlaps, and is exact only when nothing does. `StockKept`
holds in spite of failed statements and crashes; `GrantsAdd` and
`ActivationsSpendUnlessFaults` hold until a statement fails, since `GrantItem` and
`ActivatePowerup` answer 200 without looking at the error of their update.

`SettledIsReflected` names its exceptions, which `unattended` records: a child whose
Game was not found, and one whose rows went away with the database's pod.
`reconciler_forgotten` shows that the first needs no failure and no odd order of
`kubectl apply`. `RowsHaveFinalizer` excepts what a finalization gave up because
Game or database were not to be had, which the code accepts.

`AcceptedWasDeclared` is about the whole of what was ever declared for the type, as
the queries of one validation may see different moments; `blueprint_removed` shows
that it cannot be strengthened to what is declared now, even with the reconciler at
rest: nothing takes a row away before the type is deleted. `CoveredIsAccepted`
is the other direction, and relies on the same: rows that were written stay.
`AnswersComplete` and `CoveredIsAccepted` hold until a statement fails, since the
errors of `Find` are dropped: a lost query is an empty table.

`BalanceBounds` has two premises. `Capped`: every declared version of the currency has a
maximum. `SmallAmounts`: no request on top of a legal balance leaves int64; without it
the sum of `handler.go:909` wraps around, a negative number passes the comparison with
the maximum, and the property is false. The bound is the largest maximum or initial
balance declared, as an initial balance is not compared with the maximum of its own
currency; the run has such a version, and no credit goes on from there. `StacksLegal`
has the premises `Limited`, every declared version limits the stack, and `Moderate`, the
quantities of creations are legal stacks themselves, which nothing checks, and sums stay
in int64.

`CreditsAdd` is about wallets that are there. The first credits of a wallet can be lost
too: both find no row, both insert (`handler.go:917`), and the unique index refuses the
second one unseen. The property leaves them aside so that its counterexample is the
overwriting at `handler.go:919`, which repairing the insert would not cure.

The pair of wallet runs says where the line is. With handlers that overlap on an
avatar, money can be lost or made, but under these premises no balance leaves the
bounds of its currency, and no row ends up with a wrong owner. With handlers that do not
overlap, the handlers are the ledger, whatever fails.

**Bounds.** `MaxInstance`, `MaxRow`, `MaxFaults` and `MaxConn` cap ids and
failures. `wallet_concurrent` needs three instances (an avatar deleted and
created again beside a second one) and two wallet rows, so that a row can be
stale; a maximum of 2 or 1, an initial balance of 1 or 3 and amounts of 1 and 2 reach
the cap from below, with a redefinition, and from above; one fault is enough for each dropped error. `wallet_exclusive`
gives one client five kinds of request on two avatars and another its own
avatar. The inventory runs have the same shape: two instances, so that an avatar
can be created again over what its predecessor left; two inventory rows in
`inventory_concurrent`, so that the second can be a second stack of a lost race, or the
successor of one that is stale; two power-ups, so that two activations can race;
a limit of two, reached by a kit or by grants. Two clients suffice for races between two read-modify-writes. The pool
run has two callers and the finalizer, three actors on one host, two connections
(one stored, one lost or dropped), and one host shared by two Games; its callers
are interchangeable (`SYMMETRY`). `IntLimit` is just above the largest legal sum.
`blueprint` has two types, of which one has a version without the attribute of the
other, so that a query for the wrong type, an edit under a validation, and a
deletion with a new start in its middle all happen within three changes; rows count
up to two, which tells one copy from several. `instances` has two instances of one
name, so that an acknowledged one can be deleted and replaced under a list or a get
that is half read; each has rows in two tables, read and deleted in different steps.
`reconciler` has a Game that is there and two changes in any order, so that a child
can be applied and edited or deleted, the Game or the Secret deleted and brought
back, at every point of a reconciliation; one failure is a lost answer, a refused
call, a restart or a lost database. Children share nothing but the Game, which they
only read, so one child is enough; that of the run is upserted and has a part in
one of its two specifications. What the bounds leave
out is covered by the proofs, which have none but the assumptions below.

**Fairness.** `Wallet!Spec` and `Inventory!Spec` assert weak fairness of each client's next step: the
Go scheduler does not starve a runnable goroutine, and every statement returns
or fails. Arrival of requests, failures, redefinitions and crashes are not fair.
`AvatarInstances!Spec` does the same. No liveness property is stated of them; requests end because every loop of a handler
goes over a list that it fetched before. `ConnectionPool!Spec` states safety only.
`Reconciler!Spec` asserts weak fairness of each object's reconciliation (a worker
takes what is queued and every call returns), of each object's watch, of the
start of a scheduled pod and of the garbage collector, which is what
controller-runtime and Kubernetes provide. Changes by users, failures, restarts and
the end of a pod are not fair. Weak fairness is enough: nothing but the object's
own reconciliation takes it off the queue.

## Proofs

`WalletProofs` proves for any clients, avatars, currencies, workloads, bounds
and int64 width (`WalletAssumption`):

- `InvariantHolds`: `Spec => []IInv`
- `TypeCorrect`: `Spec => []TypeOK`, wrapped sums included
- `BalancesBounded`: `Spec => []BalanceBounds`, with the premises `Capped` and
  `SmallAmounts` inside
- `RowsKeepOwners`: `Spec => []HeldRowsStable`
- `NothingInherited`: `Spec => NoInheritance`

`BalanceBounds` and `HeldRowsStable` are not inductive: a handler acts on what it
read some steps ago. `IInv` adds what is true of a handler in between. A snapshot
row that still exists is the wallet of the request's avatar and currency
(`FoundFits`); ids held are below the sequences, and instances referred to by rows
are too (`IdsFit`); the definition held is a declared version or none
(`TermsFit`); and the amounts a handler is about to write were checked against
the very snapshot they are computed from (`AmountsFit`): a sum is within a declared
maximum (`Creditable`), which is more than any balance in the table is (`Legal`, which
allows initial balances above it). Lost updates break sums,
but a value written was legal for some state of the wallet, and legality does
not depend on what was overwritten. That ids never recur makes a stale key
harmless: the row is the one that was read, or gone. The proof has one lemma per
action and one step per part of `IInv` that the action can disturb.

`LedgerProofs` is about handlers that never meet on an avatar. It assumes
`Exclusive` (two clients never name the same avatar), and where a theorem needs it
`NoSelfTransfer` and `InRange` (every version of a currency has a maximum, and no
amount on top of it, or of an initial balance, leaves int64). The workload of `wallet_exclusive` satisfies the
three; `wallet_lost_credit` and `wallet_self_transfer` show what happens without the
first two. For any such workload:

- `SoleInvariantHolds`: `Spec => [](IInv /\ LedgerInv)`
- `NoWalletOrphaned`: `Spec => []NoOrphanWallets`
- `AnswersHonest`: `Spec => RepliesHonestUnlessFaults`
- `HandlersImplementLedger`: `Spec => LedgerImplemented`, the refinement

`LedgerInv` says that what was read is still so. The unique keys hold and, until a
statement fails, no wallet outlives its avatar (`TablesSole`); the avatars a handler
has found are there and its snapshots are the rows as they are (`SoleFits`, `Current`);
a transfer that reaches its commit may be traded and fits (`TradeFits`). Each step
leaves the rows and instances of other clients' avatars alone (`Footprint`), so what
they know is not disturbed (`OthersKeep`); a step that only reads is `Quiet`. For the
refinement every step that stores is described by the one fact of `Ledger`'s world
that it changes: which avatar holds what of which currency afterwards (`Holds`,
`Wrote`), from which the abstract book is computed once and for all (`BookOf`). Steps
that read map to stutters (`Passes`), a store maps to the abstract move of the whole
request, a refusal, failure or crash before it to giving up.

`InventoryProofs` proves for any clients, avatars, items, workloads and bounds
(`InventoryAssumption`) `InventoryInvariantHolds`, `InventoryTypeCorrect`,
`StacksStayLegal` (`StacksLegal`, with the premises `Limited` and `Moderate` inside), `ItemRowsKeepOwners` (`HeldRowsStable`),
`UsesByTheCatalog` (`ByTheCatalog`) and `NewAvatarsStartEmpty`. The argument is that
of the wallets: the row held is the avatar's or gone (`IdsFit`), it was found
before it is used (`FoundFits`), its quantity was legal when it was read and the
definition held was declared and allows the use (`TermsFit`), so what is computed
from them may be written whatever became of the tables since.

Under `Exclusive` (in `StockInvariant`) it proves further:

- `StockInvariantHolds`: `Spec => [](InventoryInv /\ StockInv)`
- `StacksAreOneRow`: `Spec => []OneStack`
- `GrantsAddExactly`, `ActivationsSpend`: `Spec => GrantsAdd`, `Spec =>
  ActivationsSpendUnlessFaults`, if every item is `Regular`: never stackable, and then
  not brought along in empty rows, or always stackable up to a limit, brought along at
  most once, and with sums that stay in int64
- `StockIsKept`: `Spec => StockKept`, if the limits of an item do not change either
  (`Steady`)

None of the assumptions on the catalog can be dropped. An item that changes between
stackable and not has several rows, of which a grant caps the first only; a lower limit
cuts the next grant's stack down to it; a creation may bring a row with a quantity
below one, which nothing checks, and an activation then deletes it for its item. The
instance of `inventory_exclusive` satisfies all of them, with one item of each kind.

`StockInv` adds to `InventoryInv` that the row a handler has read has the quantity it
has read (`SnapshotFits`), and that a row about to be inserted finds none of its stack
(`InsertFits`). The stock of an avatar is a sum over a set of rows, defined by
recursion in the community modules (`MapThenSumSet`). That it does not depend on the
order of summation is proved from its definition, by induction on the subsets of a
finite set (`SubsetInduction`, which takes a set where the library's theorem takes an
operator), so that adding, removing or replacing a row changes it by that row's
quantity (`QuantityAdded`, `QuantityRemoved`, `QuantityReplaced`). `Gains` then states
for each action whose stock it changes and by how much.

`PoolProofs` proves for any callers, Games, hosts and bounds (`PoolAssumption`)
`PoolInvariantHolds`, `PoolTypeCorrect`, `NoClosedEntry` (`PooledAreOpen`),
`GivenFromPool` (`UsedWasPooled`) and `EntriesShared` (`EntriesStay`). The
invariant follows a connection through its life: private to its creator
(`UnstoredPrivate`), an entry (`PooledFresh`), dropped (`GivenWasPooled`), and
closed only then (`ClosingDropped`); `OriginKept` tells the hosts apart.

`ReconcilerProofs` proves for any children, specifications and bounds
(`ReconcilerAssumption`) `ReconcilerInvariantHolds`, `ReconcilerTypeCorrect`,
`RowsUnderFinalizer` (`RowsHaveFinalizer`) and `NoWakeupLost` (`SettledIsReflected`).
The invariant says what an old copy still proves. A finalizer seen on a live copy
is still on the resource (`FinalizerStays`): only the reconciliation of the deleted
child takes it away, it starts from a cached copy that is deleted, and copies of a
live resource with finalizer cannot be left over by then. As long as no event has
queued the child, the copy at work is the cached one, and the rows written are
those of that copy (`WorkFits`); so a child that comes to rest has the rows of its
cached, and if that is current, of its present specification. `StepKeeps` reduces
each action to the one object it touches.

`BlueprintProofs`, `InstanceProofs` and `AnswerProofs` prove for any clients, names,
types, parts, versions, workloads and bounds (`BlueprintAssumption`,
`InstancesAssumption`):

- `BlueprintInvariantHolds`: `Spec => []BlueprintInv`
- `NothingLeftBehind`: `Spec => []GoneLeavesNothing`
- `CreationInvariantHolds`: `Spec => []CreationInv`, with `InstanceTypeCorrect`,
  `CreationsByTheBlueprint` (`AcceptedWasDeclared`) and `AcknowledgedStayWhole`
  (`AcknowledgedIsWhole`)
- `InstanceInvariantHolds`: `Spec => []InstanceInv`
- `NoRefusalWithoutReason`: `Spec => CoveredIsAccepted`
- `CompleteAnswers`: `Spec => AnswersComplete`

The invariant has three layers, each proved with the help of the one before.
`BlueprintInv` concerns the reconciler alone: rows were declared (`DeclaredFit`), the
worker's copy was, and it deletes only rows of types that are deleted and stay so
until it releases them (`WorkerFits`), so what a reconciliation has completed stays
(`WrittenFits`), and what a deletion has emptied is empty (`EmptyFits`).
`CreationInv` adds the handlers that write: an instance belongs to the one handler
that creates it until the answer (`OwnersFit`), and has the child rows inserted so far
unless a deletion has found it (`CreateFits`); ids never recur, so a deletion touches
no other instance (`RowsFit`, `DeleteFits`). `InstanceInv` adds those that read: of an
instance that its answer must show, a read has seen all rows of the tables it has
read, and none of these instances has been passed over (`ReadFits`); and a creation
that was sure of its blueprint still finds every row it asks for (`SureFits`).

Only model-checked: `DeletedGoAway`, `ChildrenReflected` and `GamesBecomeReady`, the
liveness of the reconcilers, since the provers have neither fairness nor ENABLED; and
the four violations, which are counterexamples. Every invariant and every action
property of a passing run, and the refinement, is the statement of a theorem.

## Plan

Done, in this order: `Wallet` with `Ledger`, `ConnectionPool`, `Inventory`,
`Reconciler`, `Blueprint` with `AvatarInstances`, each with its invariant proved; then the
proofs that need exclusive workloads. To come:

1. `Reconciler` composed with `ConnectionPool`: the connection of a Game that is
   deleted and created again, credentials that change.
2. An abstract specification of `Inventory`, a bag of items per avatar, refined by
   `inventory_exclusive` as `Ledger` is by `wallet_exclusive`; one of `Reconciler`, in
   which a resource and its rows change together.

## Not modelled

The reads of worlds, areas, items, currencies, wallets, inventories and active
power-ups: they change nothing, one query each, and show what the modelled components
wrote. Routing, CORS, logging and panic recovery, flags and wiring of `main`, CRD
types and generated code, manifests, examples.
PostgreSQL, gorm and controller-runtime are external: the modules state what the
code relies on.
