-------------------------- MODULE AvatarInstances --------------------------
(***************************************************************************)
(* Avatar instances as their owners declare them: the handlers that create *)
(* an instance after validating it against its blueprint, delete it, and   *)
(* read one or all of them, one action per SQL statement, while the Avatar *)
(* reconciler writes and deletes blueprints.                               *)
(*                                                                         *)
(* An instance asks for parts of its blueprint: attributes, inventory      *)
(* categories, achievements and customization options.  Each becomes a     *)
(* child row.  Nothing else is asked of a child row here; Inventory and    *)
(* Wallet have what happens to items and balances later.                   *)
(***************************************************************************)
EXTENDS Blueprint

CONSTANTS
    Workload,       \* for each client, the requests it may send
    NoRequest       \* "no request in progress"

Op == {"create", "delete", "get", "list"}

\* What can be asked for: a customization comes with one of its options.
Choice == {p \in Part : Kind[p] # "customization"}

\* delete and get use field a only, list none of them.
Request == [op : Op, a : Avatar, type : AvatarType, parts : SUBSET Choice]

ASSUME InstancesAssumption ==
    /\ MaxInstance \in Nat /\ MaxFaults \in Nat
    /\ Workload \in [Client -> SUBSET Request]
    /\ NoRequest \notin Request

VARIABLES
    details,        \* the four child tables: [inst, part]
    made,           \* history: the request that inserted each instance
    acked,          \* history: instances whose creation was answered with 201
    touched,        \* history: instances that a deletion has found
    firm,           \* history: for each client, the instances acknowledged and
                    \* not yet found by a deletion when its request arrived
    sure            \* history: clients whose creation only asks for what was
                    \* written when it arrived, of a type not deleted since

tables == <<instances, nextInst, details>>
history == <<made, acked, touched>>
vars == <<blueprint, tables, history, firm, sure, faults, task, reply>>

(***************************************************************************)
(* The local variables of a handler: the request; the instance at hand;    *)
(* the parts yet to be validated or inserted; the tables yet to be read or *)
(* emptied; the parts it has seen in the tables; for a list, the instances *)
(* that follow; and what will be shown.                                    *)
(***************************************************************************)
Local(pc, req, inst, todo, kinds, seen, queue, out) ==
    [pc |-> pc, req |-> req, inst |-> inst, todo |-> todo, kinds |-> kinds,
     seen |-> seen, queue |-> queue, out |-> out]
Idle == Local("idle", NoRequest, 0, {}, {}, {}, {}, {})
NoReply == [status |-> 0, out |-> {}]

Init ==
    /\ BlueprintInit
    /\ instances = {} /\ nextInst = 1
    /\ details = {}
    /\ made = [i \in 1 .. MaxInstance |-> NoRequest]
    /\ acked = {} /\ touched = {}
    /\ firm = [c \in Client |-> {}]
    /\ sure = {}
    /\ faults = 0
    /\ task = [c \in Client |-> Idle]
    /\ reply = NoReply

-----------------------------------------------------------------------------
(* Responses.                                                              *)

\* The handler goes on with the given local variables.
Continue(c, t) == task' = [task EXCEPT ![c] = t] /\ reply' = NoReply /\ UNCHANGED <<firm, sure>>

Respond(c, status, out) ==
    /\ task' = [task EXCEPT ![c] = Idle]
    /\ reply' = [status |-> status, out |-> out]
    /\ firm' = [firm EXCEPT ![c] = {}]
    /\ sure' = sure \ {c}

-----------------------------------------------------------------------------
(* A request arrives.                                                      *)

\* What a blueprint must have for a part to be asked for.
Needs(parts) == parts \cup {Base[p] : p \in parts}

FirstStep(op) == CASE op = "create" -> "type"
                   [] op = "list"   -> "all"
                   [] OTHER         -> "target"

Receive(c) ==
    /\ task[c].pc = "idle"
    /\ \E r \in Workload[c] :
         /\ task' = [task EXCEPT ![c] = Local(FirstStep(r.op), r, 0, r.parts, {}, {}, {}, {})]
         /\ sure' = IF r.op = "create" /\ \E s \in written[r.type] : Needs(r.parts) \subseteq s
                    THEN sure \cup {c} ELSE sure
    /\ firm' = [firm EXCEPT ![c] = acked \ touched]
    /\ reply' = NoReply
    /\ UNCHANGED <<blueprint, tables, history, faults>>

\* Refused before any statement: a malformed request, or no database
\* connection (getDB fails).
Reject(c) ==
    /\ task[c].pc = "idle" /\ Workload[c] # {}
    /\ Respond(c, 500, {})
    /\ UNCHANGED <<blueprint, tables, history, faults>>

-----------------------------------------------------------------------------
(* CreateAvatarInstance: validateAgainstBlueprint.                         *)

\* First by name; the game is not asked for, a database holds only one.
CheckType(c) ==
    /\ At(c, "create", "type")
    /\ LET t == task[c] IN
       \E ok \in BOOLEAN :
         /\ Statement(ok)
         /\ IF ok /\ t.req.type \in types
            THEN Continue(c, Local("check", t.req, 0, t.todo, {}, {}, {}, {}))
            ELSE Respond(c, 400, {})
    /\ UNCHANGED <<blueprint, tables, history>>

\* The error of Find is dropped: nothing is valid then.
Found(o, k, ok) == IF ok THEN Valid(o, k) ELSE {}

\* Attributes, inventory, achievements, in this order.  A table none of
\* whose parts is asked for is queried to no effect, and left out here.
Plain(parts) == {p \in parts : Kind[p] # "option"}

AskedOf(parts, k) == {p \in parts : Kind[p] = k}

CheckTable(c) ==
    /\ At(c, "create", "check")
    /\ LET t == task[c] IN
       \E p \in Plain(t.todo), ok \in BOOLEAN :
         /\ \A q \in Plain(t.todo) : Rank[Kind[p]] <= Rank[Kind[q]]
         /\ Statement(ok)
         /\ LET asked == AskedOf(t.todo, Kind[p])
            IN  IF asked \subseteq Found(t.req.type, Kind[p], ok)
                THEN Continue(c, Local("check", t.req, 0, t.todo \ asked, {}, {}, {}, {}))
                ELSE Respond(c, 400, {})
    /\ UNCHANGED <<blueprint, tables, history>>

\* The names of the customizations are read once.
CheckCustomizations(c) ==
    /\ At(c, "create", "check")
    /\ LET t == task[c] IN
       /\ Plain(t.todo) = {} /\ t.todo # {}
       /\ \E ok \in BOOLEAN :
            /\ Statement(ok)
            /\ Continue(c, Local("options", t.req, 0, t.todo, {},
                                 Found(t.req.type, "customization", ok), {}, {}))
    /\ UNCHANGED <<blueprint, tables, history>>

\* One turn of the loop: the name against what was read, the value against
\* a query of its own.
OptionKnown(t, p, ok) == Base[p] \in t.seen /\ p \in Found(t.req.type, "option", ok)

CheckOption(c) ==
    /\ At(c, "create", "options")
    /\ LET t == task[c] IN
       \E p \in t.todo, ok \in BOOLEAN :
         /\ Statement(ok)
         /\ IF OptionKnown(t, p, ok)
            THEN Continue(c, Local("options", t.req, 0, t.todo \ {p}, {}, t.seen, {}, {}))
            ELSE Respond(c, 400, {})
    /\ UNCHANGED <<blueprint, tables, history>>

-----------------------------------------------------------------------------
(* CreateAvatarInstance: the rows.                                         *)

Validated(c) ==
    /\ task[c].pc \in {"check", "options"} /\ task[c].req.op = "create"
    /\ task[c].todo = {}

InsertInstance(r) ==
    /\ InstanceRows(r.a) = {}
    /\ nextInst <= MaxInstance
    /\ instances' = instances \cup {NewInstance(r.a)}
    /\ nextInst' = nextInst + 1
    /\ made' = [made EXCEPT ![nextInst] = r]

CreateInsert(c) ==
    /\ Validated(c)
    /\ InsertInstance(task[c].req)
    /\ Continue(c, Local("fill", task[c].req, nextInst, task[c].req.parts, {}, {}, {}, {}))
    /\ UNCHANGED <<blueprint, details, acked, touched, faults>>

\* 409: the name is taken, or the statement failed; a connection lost after
\* the insert was committed is reported in the same way.
CreateConflict(c) ==
    /\ Validated(c)
    /\ \/ InstanceRows(task[c].req.a) # {} /\ UNCHANGED <<instances, nextInst, made, faults>>
       \/ Statement(FALSE) /\ UNCHANGED <<instances, nextInst, made>>
       \/ Statement(FALSE) /\ InsertInstance(task[c].req)
    /\ Respond(c, 409, {})
    /\ UNCHANGED <<blueprint, details, acked, touched>>

\* The tables an instance has rows in; one to which no part belongs stays
\* empty and is left out.
ChildTables == {Kind[p] : p \in Choice}

\* Faulty variant of ChildRow: the name of the customization is stored.
ChildRow_Name(i, p) == [inst |-> i, part |-> Base[p]]


ChildRow(i, p) == [inst |-> i, part |-> p]

\* Faulty variant of CreateChild: the error of the insert is dropped.
CreateChild_Dropped(c) ==
    /\ At(c, "create", "fill")
    /\ LET t == task[c] IN
       \E p \in t.todo, ok \in BOOLEAN :
         /\ \A q \in t.todo : Rank[Kind[p]] <= Rank[Kind[q]]
         /\ Statement(ok)
         /\ details' = IF ok THEN details \cup {ChildRow(t.inst, p)} ELSE details
         /\ Continue(c, Local("fill", t.req, t.inst, t.todo \ {p}, {}, {}, {}, {}))
    /\ UNCHANGED <<blueprint, instances, nextInst, history>>


\* One insert per part, table by table; the first failure ends the handler
\* with 500, and leaves the instance and the rows inserted so far.
CreateChild(c) ==
    /\ At(c, "create", "fill")
    /\ LET t == task[c] IN
       \E p \in t.todo, ok \in BOOLEAN :
         /\ \A q \in t.todo : Rank[Kind[p]] <= Rank[Kind[q]]
         /\ Statement(ok)
         /\ IF ok
            THEN /\ details' = details \cup {ChildRow(t.inst, p)}
                 /\ Continue(c, Local("fill", t.req, t.inst, t.todo \ {p}, {}, {}, {}, {}))
            ELSE details' = details /\ Respond(c, 500, {})
    /\ UNCHANGED <<blueprint, instances, nextInst, history>>

\* Faulty variant of ResponseTables: one was added and is not shown.
ResponseTables_NoAchievements == ChildTables \ {"achievement"}


\* What buildInstanceResponse reads.
ResponseTables == ChildTables

\* The wallets, which Wallet has; then the response is read back.
CreateFilled(c) ==
    /\ At(c, "create", "fill")
    /\ task[c].todo = {}
    /\ Continue(c, Local("build", task[c].req, task[c].inst, {}, ResponseTables, {}, {}, {}))
    /\ UNCHANGED <<blueprint, tables, history, faults>>

-----------------------------------------------------------------------------
(* GetAvatarInstance, ListAvatarInstances, and the response of a creation. *)

GetFind(c) ==
    /\ At(c, "get", "target")
    /\ LET t == task[c] IN
       \E ok \in BOOLEAN :
         /\ Statement(ok)
         /\ \E id \in Named(t.req.a, ok) :
              IF id = 0 THEN Respond(c, 404, {})
              ELSE Continue(c, Local("build", t.req, id, {}, ResponseTables, {}, {}, {}))
    /\ UNCHANGED <<blueprint, tables, history>>

\* The error of Find is dropped: the list is empty then.
ListFind(c) ==
    /\ At(c, "list", "all")
    /\ LET t == task[c] IN
       \E ok \in BOOLEAN :
         /\ Statement(ok)
         /\ Continue(c, Local("list", t.req, 0, {}, {}, {},
                              IF ok THEN {i.id : i \in instances} ELSE {}, {}))
    /\ UNCHANGED <<blueprint, tables, history>>

ListNext(c) ==
    /\ At(c, "list", "list")
    /\ LET t == task[c] IN
       \E id \in t.queue :
         Continue(c, Local("build", t.req, id, {}, ResponseTables, {}, t.queue \ {id}, t.out))
    /\ UNCHANGED <<blueprint, tables, history, faults>>

ListReply(c) ==
    /\ At(c, "list", "list")
    /\ task[c].queue = {}
    /\ Respond(c, 200, task[c].out)
    /\ UNCHANGED <<blueprint, tables, history, faults>>

\* WHERE avatar_instance_id = i in one of the tables.
ChildRows(i, k) == {d.part : d \in {e \in details : e.inst = i /\ Kind[e.part] = k}}

\* buildInstanceResponse: attributes, inventory, achievements,
\* customizations, a query each, whose error is dropped.
BuildTable(c) ==
    /\ task[c].pc = "build"
    /\ LET t == task[c] IN
       \E k \in t.kinds, ok \in BOOLEAN :
         /\ \A j \in t.kinds : Rank[k] <= Rank[j]
         /\ Statement(ok)
         /\ Continue(c, Local("build", t.req, t.inst, {}, t.kinds \ {k},
                              t.seen \cup (IF ok THEN ChildRows(t.inst, k) ELSE {}),
                              t.queue, t.out))
    /\ UNCHANGED <<blueprint, tables, history>>

Shown(t) == t.out \cup {[inst |-> t.inst, parts |-> t.seen]}

BuildNext(c) ==
    /\ At(c, "list", "build")
    /\ LET t == task[c] IN
       /\ t.kinds = {}
       /\ Continue(c, Local("list", t.req, 0, {}, {}, {}, t.queue, Shown(t)))
    /\ UNCHANGED <<blueprint, tables, history, faults>>

GetReply(c) ==
    /\ At(c, "get", "build")
    /\ task[c].kinds = {}
    /\ Respond(c, 200, Shown(task[c]))
    /\ UNCHANGED <<blueprint, tables, history, faults>>

CreateReply(c) ==
    /\ At(c, "create", "build")
    /\ task[c].kinds = {}
    /\ Respond(c, 201, Shown(task[c]))
    /\ acked' = acked \cup {task[c].inst}
    /\ UNCHANGED <<blueprint, tables, made, touched, faults>>

-----------------------------------------------------------------------------
(* DeleteAvatarInstance.                                                   *)

DeleteFind(c) ==
    /\ At(c, "delete", "target")
    /\ LET t == task[c] IN
       \E ok \in BOOLEAN :
         /\ Statement(ok)
         /\ \E id \in Named(t.req.a, ok) :
              IF id = 0 THEN touched' = touched /\ Respond(c, 404, {})
              ELSE /\ touched' = touched \cup {id}
                   /\ Continue(c, Local("purge", t.req, id, {}, ChildTables, {}, {}, {}))
    /\ UNCHANGED <<blueprint, tables, made, acked>>

\* DELETE ... WHERE avatar_instance_id = i in one of the tables.
Emptied(i, k) == {d \in details : ~(d.inst = i /\ Kind[d.part] = k)}

\* Customizations first, then attributes, inventory and achievements.
EmptyingRank == [option |-> 1, attribute |-> 2, inventory |-> 3, achievement |-> 4]

\* Errors are dropped.
DeleteTable(c) ==
    /\ At(c, "delete", "purge")
    /\ LET t == task[c] IN
       \E k \in t.kinds, ok \in BOOLEAN :
         /\ \A j \in t.kinds : EmptyingRank[k] <= EmptyingRank[j]
         /\ Statement(ok)
         /\ details' = IF ok THEN Emptied(t.inst, k) ELSE details
         /\ Continue(c, Local("purge", t.req, t.inst, {}, t.kinds \ {k}, {}, {}, {}))
    /\ UNCHANGED <<blueprint, instances, nextInst, history>>

\* The instance goes last, and the answer is 204 whatever became of it.
DeleteRemove(c) ==
    /\ At(c, "delete", "purge")
    /\ task[c].kinds = {}
    /\ \E ok \in BOOLEAN :
         /\ Statement(ok)
         /\ instances' = IF ok THEN Remove(instances, task[c].inst) ELSE instances
    /\ Respond(c, 204, {})
    /\ UNCHANGED <<blueprint, nextInst, details, history>>

-----------------------------------------------------------------------------
Create(c) == \/ CheckType(c) \/ CheckTable(c) \/ CheckCustomizations(c) \/ CheckOption(c)
             \/ CreateInsert(c) \/ CreateConflict(c) \/ CreateChild(c) \/ CreateFilled(c)
             \/ CreateReply(c)
Read(c) == \/ GetFind(c) \/ ListFind(c) \/ ListNext(c) \/ ListReply(c)
           \/ BuildTable(c) \/ BuildNext(c) \/ GetReply(c)
Delete(c) == DeleteFind(c) \/ DeleteTable(c) \/ DeleteRemove(c)

\* What the goroutine serving a client does next.
Step(c) == Create(c) \/ Read(c) \/ Delete(c)

\* Changes of blueprints, which the handlers see in the tables only.
Designer ==
    /\ \/ \E o \in AvatarType : Apply(o) /\ sure' = sure
       \/ \E o \in AvatarType :
            DeleteAvatar(o) /\ sure' = {c \in sure : task[c].req.type # o}
    /\ reply' = NoReply
    /\ UNCHANGED <<tables, history, firm, task>>

Reconciler ==
    /\ WorkerStep
    /\ reply' = NoReply
    /\ UNCHANGED <<tables, history, firm, sure, task>>

\* The process dies, and the handlers and the worker with it.
Crash ==
    /\ task' = [c \in Client |-> Idle]
    /\ worker' = Resting
    /\ firm' = [c \in Client |-> {}] /\ sure' = {}
    /\ reply' = NoReply
    /\ UNCHANGED <<spec, types, rows, changes, ever, written, tables, history, faults>>

Next == \/ \E c \in Client : Receive(c) \/ Reject(c) \/ Step(c)
        \/ Designer \/ Reconciler \/ Crash

\* A goroutine that can take its next step is not starved.
Spec == Init /\ [][Next]_vars /\ \A c \in Client : WF_vars(Step(c))
=============================================================================
