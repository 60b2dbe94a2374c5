------------------------- MODULE InstanceProperties -------------------------
(***************************************************************************)
(* What is required of AvatarInstances: types, creations by the blueprint, *)
(* refusals with a reason, whole instances, whole answers, and blueprints  *)
(* that leave nothing behind.                                              *)
(***************************************************************************)
EXTENDS AvatarInstances

PC == {"idle", "type", "check", "options", "fill", "build", "target", "all", "list", "purge"}
InstanceId == 0 .. MaxInstance

Entry == [inst : InstanceId, parts : SUBSET Part]
Task == [pc : PC, req : Request \cup {NoRequest}, inst : InstanceId, todo : SUBSET Choice,
         kinds : SUBSET Table, seen : SUBSET Part, queue : SUBSET InstanceId,
         out : SUBSET Entry]
Worker == [pc : {"idle", "type", "parts", "purge", "release"}, type : AvatarType \cup {NoType},
           copy : SUBSET Part, todo : SUBSET Part, kinds : SUBSET Table]

BlueprintTypeOK ==
    /\ spec \in [AvatarType -> [life : Life, parts : SUBSET Part]]
    /\ types \subseteq AvatarType
    /\ rows \in [AvatarType -> [Part -> 0 .. Many]]
    /\ worker \in Worker
    /\ changes \in 0 .. MaxChanges
    /\ ever \in [AvatarType -> SUBSET SUBSET Part]
    /\ written \in [AvatarType -> SUBSET SUBSET Part]

\* The tables, the resources and every local variable have their types: no
\* row is written for an instance that was not inserted, and no name of a
\* customization is stored in the place of an option.
InstanceTypeOK ==
    /\ BlueprintTypeOK
    /\ instances \subseteq [id : InstanceId \ {0}, name : Avatar]
    /\ nextInst \in 1 .. MaxInstance + 1
    /\ details \subseteq [inst : InstanceId \ {0}, part : Choice]
    /\ made \in [1 .. MaxInstance -> Request \cup {NoRequest}]
    /\ acked \subseteq InstanceId \ {0} /\ touched \subseteq InstanceId \ {0}
    /\ firm \in [Client -> SUBSET InstanceId]
    /\ sure \subseteq Client
    /\ faults \in 0 .. MaxFaults
    /\ task \in [Client -> Task]
    /\ reply \in [status : {0, 200, 201, 204, 400, 404, 409, 500}, out : SUBSET Entry]

EverDeclared(o) == UNION ever[o]

\* Every instance was created for an avatar type that was declared, with
\* attributes, inventory categories, achievements and customization options
\* that were declared for that very type (validation.go:9-113), although the
\* answers come from up to six queries between which the blueprint may be
\* edited, deleted and declared again.
AcceptedWasDeclared ==
    \A i \in 1 .. MaxInstance :
        made[i] # NoRequest =>
            /\ ever[made[i].type] # {}
            /\ Needs(made[i].parts) \subseteq EverDeclared(made[i].type)

\* A part that a query finds valid is defined in the Avatar resource as it
\* is, provided the reconciler has written that resource and is at rest.
Settled(o) == worker.pc = "idle" /\ written[o] = {spec[o].parts}

AcceptedIsDeclared ==
    [][\A c \in Client :
          (/\ task[c].pc \in {"check", "options"} /\ task'[c].pc = task[c].pc
           /\ Settled(task[c].req.type))
          => task[c].todo \ task'[c].todo \subseteq spec[task[c].req.type].parts]_vars

\* A creation is not refused for its blueprint when what it asks for was
\* written before the request arrived and the type was not deleted since,
\* whatever edits and repeated reconciliations there are meanwhile
\* (avatar_controller.go:131-196 adds rows and takes none away), as long as
\* no statement has failed.
CoveredIsAccepted ==
    [][\A c \in Client :
          c \in sure /\ reply'.status = 400 /\ faults' = 0 => task'[c] = task[c]]_vars

RowsOf(i) == {d.part : d \in {e \in details : e.inst = i}}

\* An instance whose creation was answered with 201 (handler.go:123) is
\* there, and has exactly the child rows it was created with, until a
\* deletion finds it: whatever statements fail, and whatever else is created
\* and deleted, under the same name too.
AcknowledgedIsWhole ==
    \A i \in acked \ touched :
        /\ made[i] # NoRequest
        /\ [id |-> i, name |-> made[i].a] \in instances
        /\ RowsOf(i) = made[i].parts

Answers(c, status) == task[c].pc # "idle" /\ task'[c] = Idle /\ reply'.status = status

Whole(i) == [inst |-> i, parts |-> made[i].parts]

\* Those of the instances acknowledged before the request of c that it asks
\* for and that no deletion has found.
Expected(c) ==
    {i \in firm[c] \ touched : task[c].req.op = "get" => made[i].a = task[c].req.a}

\* The answers to GET (handler.go:125-175) are read in several statements, and
\* so is the one to a creation.  As long as no statement has failed, they
\* show every instance that was acknowledged before the request came, with
\* all its rows and no other, unless a deletion has found it; and a 404 says
\* that there is none.
AnswersComplete ==
    [][\A c \in Client :
          faults' = 0 =>
            /\ Answers(c, 200) => \A i \in Expected(c) : Whole(i) \in reply'.out
            /\ Answers(c, 404) /\ task[c].req.op = "get" => Expected(c) = {}
            /\ Answers(c, 201) /\ task[c].inst \notin touched =>
                 reply'.out = {Whole(task[c].inst)}]_vars

\* Once an Avatar resource is gone its blueprint is, every copy of every row
\* (avatar_controller.go:65-70), so that a resource of the same name starts
\* from what it declares itself; statements that fail are the exception.
GoneLeavesNothing ==
    faults = 0 =>
        \A o \in AvatarType : spec[o].life \in {"absent", "new"} =>
            o \notin types /\ \A p \in Part : rows[o][p] = 0
=============================================================================
