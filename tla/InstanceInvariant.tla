-------------------------- MODULE InstanceInvariant --------------------------
(***************************************************************************)
(* The inductive invariant behind the safety properties of                 *)
(* AvatarInstances.                                                        *)
(***************************************************************************)
EXTENDS InstanceProperties

\* Rows and copies of the reconciler were declared.
DeclaredFit ==
    \A o \in AvatarType :
        /\ spec[o].life # "absent" => spec[o].parts \in ever[o]
        /\ o \in types => ever[o] # {}
        /\ \A p \in Part : rows[o][p] > 0 => p \in EverDeclared(o)
        /\ \A s \in ever[o] : \A p \in s : Base[p] \in s

Has(o, parts) == o \in types /\ \A p \in parts : rows[o][p] > 0

\* The worker writes what was declared while it holds the finalizer, and
\* takes rows away of deleted types only.
WorkerFits ==
    LET o == worker.type
    IN  /\ worker.pc # "idle" => o \in AvatarType
        /\ worker.pc \in {"type", "parts"} =>
             /\ spec[o].life \in {"live", "deleted"}
             /\ worker.copy \in ever[o] /\ worker.todo \subseteq worker.copy
        /\ worker.pc = "type" => worker.todo = worker.copy
        /\ worker.pc = "parts" => Has(o, worker.copy \ worker.todo)
        /\ worker.pc \in {"purge", "release"} => spec[o].life = "deleted"

\* What a completed reconciliation has written stays until the deletion.
WrittenFits ==
    \A o \in AvatarType : \A s \in written[o] : spec[o].life = "live" /\ Has(o, s)

Empty(o, kinds) == \A p \in Part : Kind[p] \in kinds => rows[o][p] = 0

\* As long as no statement fails, a deletion takes all rows away.
EmptyFits ==
    faults = 0 =>
        /\ \A o \in AvatarType :
             spec[o].life \in {"absent", "new"} => o \notin types /\ Empty(o, PartTables)
        /\ worker.pc = "purge" => Empty(worker.type, PartTables \ worker.kinds)
        /\ worker.pc = "release" => worker.type \notin types /\ Empty(worker.type, PartTables)

\* The part of the invariant that is about blueprints: the operators and the
\* reconciler keep it by themselves, and the handlers only read what it is about.
BlueprintInv ==
    /\ BlueprintTypeOK /\ faults \in 0 .. MaxFaults
    /\ DeclaredFit /\ WorkerFits /\ WrittenFits /\ EmptyFits

\* Ids come from the sequence, and a name has one instance.
RowsFit ==
    /\ \A i \in instances : i.id < nextInst /\ made[i.id] # NoRequest /\ made[i.id].a = i.name
    /\ \A i, j \in instances : i.name = j.name => i = j
    /\ \A i \in 1 .. MaxInstance : made[i] # NoRequest <=> i < nextInst
    /\ \A d \in details : d.inst < nextInst
    /\ \A i \in acked \cup touched : i < nextInst

\* What a handler has found valid was declared, and so was the type.
CheckFits(t) ==
    /\ t.pc # "idle" => t.req # NoRequest
    /\ t.pc = "type" => t.todo = t.req.parts
    /\ t.pc \in {"check", "options"} => t.todo \subseteq t.req.parts
    /\ t.pc \in {"check", "options"} =>
         /\ t.req.op = "create" /\ ever[t.req.type] # {}
         /\ Needs(t.req.parts \ t.todo) \subseteq EverDeclared(t.req.type)

\* The handler that is creating instance i.
Owns(t, i) == t.pc \in {"fill", "build"} /\ t.req.op = "create" /\ t.inst = i

\* An instance belongs to the handler that creates it until the answer, and
\* has the rows inserted so far, unless a deletion has found it.
CreateFits(t) ==
    t.pc \in {"fill", "build"} /\ t.req.op = "create" =>
        /\ t.inst \in 1 .. nextInst - 1 /\ t.inst \notin acked
        /\ made[t.inst] = t.req
        /\ t.todo \subseteq t.req.parts
        /\ t.pc = "build" => t.todo = {} /\ t.out = {}
        /\ t.inst \notin touched =>
             /\ [id |-> t.inst, name |-> t.req.a] \in instances
             /\ RowsOf(t.inst) = t.req.parts \ t.todo

OwnersFit ==
    \A c, d \in Client : \A i \in 1 .. MaxInstance :
        Owns(task[c], i) /\ Owns(task[d], i) => c = d

\* A deletion works on an instance it has found.
DeleteFits(t) ==
    t.pc = "purge" => t.req.op = "delete" /\ t.inst \in touched

\* The part of the invariant that is about creations and deletions.
CreationInv ==
    /\ BlueprintInv /\ InstanceTypeOK
    /\ RowsFit /\ OwnersFit /\ AcceptedWasDeclared /\ AcknowledgedIsWhole
    /\ \A c \in Client : CheckFits(task[c]) /\ CreateFits(task[c]) /\ DeleteFits(task[c])

\* Instances that a read must show: acknowledged before it, or its own.
Due(c, i) == i \notin touched /\ (i \in firm[c] \/ Owns(task[c], i))

\* A read has seen all rows of the tables it has read, will read the others,
\* and passes over no instance.
ReadFits(c) ==
    LET t == task[c]
    IN  /\ firm[c] \subseteq acked
        /\ t.pc = "list" => t.req.op = "list"
        /\ t.pc = "build" => t.req.op \in {"create", "get", "list"}
        /\ t.pc = "build" /\ faults = 0 /\ Due(c, t.inst) =>
             t.seen = {p \in made[t.inst].parts : Kind[p] \notin t.kinds}
        /\ faults = 0 => \A e \in t.out : e.inst \in firm[c] \ touched => e = Whole(e.inst)
        /\ t.pc = "build" /\ t.req.op = "get" => Expected(c) \subseteq {t.inst}
        /\ faults = 0 /\ t.pc \in {"build", "list"} /\ t.req.op = "list" =>
             Expected(c) \subseteq t.queue \cup {e.inst : e \in t.out}
                                   \cup (IF t.pc = "build" THEN {t.inst} ELSE {})

\* What a creation is sure of is there.
SureFits(c) ==
    LET t == task[c]
    IN  /\ t.pc = "idle" => c \notin sure
        /\ c \in sure /\ t.pc \in {"type", "check", "options"} =>
             /\ t.req.op = "create" /\ spec[t.req.type].life = "live"
             /\ Has(t.req.type, Needs(t.req.parts))
             /\ t.pc = "options" =>
                  \A p \in t.todo : Kind[p] = "option" /\ (faults = 0 => Base[p] \in t.seen)

\* The inductive invariant: it holds initially and every step keeps it.
InstanceInv == CreationInv /\ \A c \in Client : ReadFits(c) /\ SureFits(c)
=============================================================================
