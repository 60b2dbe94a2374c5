--------------------------- MODULE InstanceProofs ---------------------------
(***************************************************************************)
(* Proofs about AvatarInstances for every value of the constants.          *)
(* CreationInv is shown to be inductive, and the safety properties follow; *)
(* AnswerProofs has InstanceInv and the action properties.                 *)
(***************************************************************************)
EXTENDS BlueprintProofs

USE BlueprintAssumption, InstancesAssumption DEF BlueprintAssumption, InstancesAssumption

-----------------------------------------------------------------------------
(* The local variables of a handler.                                       *)

LEMMA LocalFacts ==
    ASSUME NEW pc, NEW req, NEW inst, NEW todo, NEW kinds, NEW seen, NEW queue, NEW out
    PROVE  LET t == Local(pc, req, inst, todo, kinds, seen, queue, out)
           IN  /\ t.pc = pc /\ t.req = req /\ t.inst = inst /\ t.todo = todo
               /\ t.kinds = kinds /\ t.seen = seen /\ t.queue = queue /\ t.out = out
  BY DEF Local

LEMMA LocalTyped ==
    ASSUME NEW pc \in PC, NEW req \in Request \cup {NoRequest}, NEW inst \in InstanceId,
           NEW todo \in SUBSET Choice, NEW kinds \in SUBSET Table, NEW seen \in SUBSET Part,
           NEW queue \in SUBSET InstanceId, NEW out \in SUBSET Entry
    PROVE  Local(pc, req, inst, todo, kinds, seen, queue, out) \in Task
  BY DEF Local, Task

LEMMA IdleFacts ==
    /\ Idle \in Task /\ Idle.pc = "idle"
  <1>1. /\ "idle" \in PC /\ 0 \in InstanceId /\ {} \in SUBSET Choice /\ {} \in SUBSET Table
        /\ {} \in SUBSET Part /\ {} \in SUBSET InstanceId /\ {} \in SUBSET Entry
    BY DEF PC, InstanceId
  <1> QED  BY <1>1, LocalTyped, LocalFacts DEF Idle

\* What is true of a task apart from its type, in CreationInv.
TaskFits(t) == CheckFits(t) /\ CreateFits(t) /\ DeleteFits(t)

LEMMA IdleFits ==
    TaskFits(Idle) /\ \A i : ~Owns(Idle, i)
  BY IdleFacts DEF TaskFits, CheckFits, CreateFits, DeleteFits, Owns

\* What a handler at work knows.
LEMMA TaskFacts ==
    ASSUME CreationInv, NEW c \in Client
    PROVE  /\ task[c] \in Task /\ TaskFits(task[c])
           /\ task[c].pc \in PC /\ task[c].inst \in InstanceId
           /\ task[c].todo \in SUBSET Choice /\ task[c].kinds \in SUBSET Table
           /\ task[c].seen \in SUBSET Part /\ task[c].queue \in SUBSET InstanceId
           /\ task[c].out \in SUBSET Entry
           /\ task[c].req \in Request \cup {NoRequest}
           /\ task[c].pc # "idle" =>
                /\ task[c].req \in Request /\ task[c].req # NoRequest
                /\ task[c].req.op \in Op /\ task[c].req.a \in Avatar
                /\ task[c].req.type \in AvatarType /\ task[c].req.parts \in SUBSET Choice
  <1>1. task[c] \in Task /\ TaskFits(task[c])
    BY DEF CreationInv, InstanceTypeOK, TaskFits
  <1>2. task[c].pc # "idle" => task[c].req \in Request
    BY <1>1 DEF TaskFits, CheckFits, Task
  <1>3. task[c].pc # "idle" =>
          /\ task[c].req.op \in Op /\ task[c].req.a \in Avatar
          /\ task[c].req.type \in AvatarType /\ task[c].req.parts \in SUBSET Choice
    BY <1>2 DEF Request
  <1>4. task[c].pc # "idle" => task[c].req # NoRequest
    BY <1>1 DEF TaskFits, CheckFits
  <1> QED  BY <1>1, <1>2, <1>3, <1>4 DEF Task

LEMMA ChoiceFacts ==
    /\ Choice \subseteq Part
    /\ ChildTables \subseteq Table /\ ResponseTables \subseteq Table
    /\ \A p \in Choice : Kind[p] \in ChildTables
    /\ \A p \in Part : Kind[p] \in Table /\ Base[p] \in Part
  BY DEF Choice, ChildTables, ResponseTables

\* A lookup by name yields 0 or the id of an instance of that name.
LEMMA NamedFacts ==
    ASSUME CreationInv, NEW a, NEW ok \in BOOLEAN, NEW id \in Named(a, ok)
    PROVE  /\ id \in InstanceId
           /\ id # 0 => id < nextInst /\ [id |-> id, name |-> a] \in instances
           /\ id = 0 /\ ok => \A i \in instances : i.name # a
  <1>1. \A i \in instances : /\ i \in [id : InstanceId \ {0}, name : Avatar]
                             /\ i.id \in InstanceId \ {0} /\ i.id < nextInst
                             /\ i = [id |-> i.id, name |-> i.name]
    BY DEF CreationInv, InstanceTypeOK, RowsFit
  <1>2. CASE Answer(InstanceRows(a), ok) = {}
    <2>1. id = 0 /\ 0 \in InstanceId
      BY <1>2 DEF Named, InstanceId
    <2>2. ok => First(InstanceRows(a)) = {}
      BY <1>2 DEF Answer
    <2>3. ASSUME ok, NEW i \in instances, i.name = a
          PROVE  FALSE
      <3>1. InstanceRows(a) = {i}
        BY <2>3 DEF InstanceRows, CreationInv, RowsFit
      <3>2. i \in First(InstanceRows(a))
        BY <1>1, <3>1 DEF First, InstanceId
      <3> QED  BY <2>2, <2>3, <3>2
    <2> QED  BY <2>1, <2>3
  <1>3. CASE Answer(InstanceRows(a), ok) # {}
    <2>1. PICK i \in Answer(InstanceRows(a), ok) : id = i.id
      BY <1>3 DEF Named
    <2>2. i \in instances /\ i.name = a
      BY <2>1 DEF Answer, First, InstanceRows
    <2> QED  BY <1>1, <2>1, <2>2
  <1> QED  BY <1>2, <1>3

-----------------------------------------------------------------------------
(* Steps of a handler.                                                     *)

Reply == [status : {0, 200, 201, 204, 400, 404, 409, 500}, out : SUBSET Entry]

\* The handler of c goes on with the local variables t, and what it answers
\* and leaves to the properties has its types.
Moves(c, t) ==
    /\ task' = [task EXCEPT ![c] = t]
    /\ firm' \in [Client -> SUBSET InstanceId] /\ sure' \subseteq Client
    /\ reply' \in Reply

LEMMA ContinueFacts ==
    ASSUME CreationInv, NEW c \in Client, NEW t, Continue(c, t)
    PROVE  Moves(c, t)
  <1>1. reply' \in Reply
    BY DEF Continue, NoReply, Reply
  <1> QED  BY <1>1 DEF Continue, Moves, CreationInv, InstanceTypeOK

LEMMA RespondFacts ==
    ASSUME CreationInv, NEW c \in Client, NEW status, NEW out,
           status \in {200, 201, 204, 400, 404, 409, 500}, out \subseteq Entry,
           Respond(c, status, out)
    PROVE  Moves(c, Idle)
  <1>1. reply' \in Reply
    BY DEF Respond, Reply
  <1>2. firm' \in [Client -> SUBSET InstanceId] /\ sure' \subseteq Client
    BY DEF Respond, CreationInv, InstanceTypeOK
  <1> QED  BY <1>1, <1>2 DEF Respond, Moves

\* The tables and histories after a step that concerns the instance j only:
\* what others know about their instances stays true.
TablesKept(j) ==
    /\ instances' \subseteq [id : InstanceId \ {0}, name : Avatar]
    /\ nextInst' \in 1 .. MaxInstance + 1 /\ nextInst <= nextInst'
    /\ details' \subseteq [inst : InstanceId \ {0}, part : Choice]
    /\ made' \in [1 .. MaxInstance -> Request \cup {NoRequest}]
    /\ acked' \subseteq InstanceId \ {0} /\ touched' \subseteq InstanceId \ {0}
    /\ RowsFit'
    /\ acked \subseteq acked' /\ acked' \subseteq acked \cup {j} /\ touched \subseteq touched'
    /\ \A i \in 1 .. nextInst - 1 :
         /\ made'[i] = made[i]
         /\ i # j /\ i \notin touched' =>
              /\ \A a \in Avatar : [id |-> i, name |-> a] \in instances
                                   => [id |-> i, name |-> a] \in instances'
              /\ RowsOf(i)' = RowsOf(i)

LEMMA SameTables ==
    ASSUME CreationInv, UNCHANGED <<tables, history>>, NEW j
    PROVE  TablesKept(j)
  <1>1. RowsFit'
    BY DEF CreationInv, RowsFit, tables, history
  <1>2. \A i : RowsOf(i)' = RowsOf(i)
    BY DEF RowsOf, tables
  <1> QED  BY <1>1, <1>2 DEF CreationInv, InstanceTypeOK, TablesKept, tables, history

LEMMA MovesFacts ==
    ASSUME CreationInv, NEW c \in Client, NEW t \in Task, Moves(c, t)
    PROVE  /\ task' \in [Client -> Task] /\ task'[c] = t
           /\ \A d \in Client : d # c => task'[d] = task[d]
  BY DEF Moves, CreationInv, InstanceTypeOK

EverGrows == \A o \in AvatarType : ever[o] \subseteq ever'[o]

\* What a handler knows is kept by a step that concerns another instance.
LEMMA OthersKept ==
    ASSUME CreationInv, EverGrows, NEW j, TablesKept(j), NEW d \in Client,
           task'[d] = task[d], \A i \in 1 .. MaxInstance : Owns(task[d], i) => i # j
    PROVE  CheckFits(task[d])' /\ CreateFits(task[d])' /\ DeleteFits(task[d])'
  <1> DEFINE t == task[d]
  <1>1. /\ CheckFits(t) /\ CreateFits(t) /\ DeleteFits(t)
        /\ t.req # NoRequest => t.req \in Request /\ t.req.type \in AvatarType /\ t.req.a \in Avatar
        /\ nextInst \in 1 .. MaxInstance + 1
    BY TaskFacts DEF CreationInv, InstanceTypeOK, TaskFits, Request
  <1>2. CheckFits(t)'
    BY <1>1 DEF CheckFits, EverGrows, EverDeclared
  <1>3. DeleteFits(t)'
    BY <1>1 DEF DeleteFits, TablesKept
  <1>4. CreateFits(t)'
    <2> SUFFICES ASSUME t.pc \in {"fill", "build"}, t.req.op = "create"
                 PROVE  CreateFits(t)'
      BY DEF CreateFits
    <2>1. t.inst \in 1 .. nextInst - 1 /\ t.inst # j
      <3>1. t.inst \in 1 .. nextInst - 1
        BY <1>1 DEF CreateFits
      <3>2. t.inst \in 1 .. MaxInstance
        BY <1>1, <3>1
      <3>3. Owns(t, t.inst)
        BY DEF Owns
      <3> QED  BY <3>1, <3>2, <3>3
    <2>2. t.req.a \in Avatar
      BY <1>1 DEF CheckFits
    <2>3. /\ t.inst \in 1 .. nextInst' - 1 /\ t.inst \notin acked' /\ made'[t.inst] = t.req
          /\ t.todo \subseteq t.req.parts /\ (t.pc = "build" => t.todo = {} /\ t.out = {})
      BY <1>1, <2>1 DEF CreateFits, TablesKept
    <2>4. t.inst \notin touched' =>
            /\ [id |-> t.inst, name |-> t.req.a] \in instances'
            /\ RowsOf(t.inst)' = t.req.parts \ t.todo
      BY <1>1, <2>1, <2>2 DEF CreateFits, TablesKept
    <2> QED  BY <2>3, <2>4 DEF CreateFits
  <1> QED  BY <1>2, <1>3, <1>4

\* A step of one handler keeps the invariant, if what it knows itself is
\* true afterwards, if it takes no instance that another creates, and if the
\* instance it concerns is whole when it is acknowledged.
LEMMA StepKeeps ==
    ASSUME CreationInv, NEW c \in Client, NEW t \in Task, Moves(c, t), BlueprintInv', EverGrows,
           NEW j, TablesKept(j), AcceptedWasDeclared',
           CheckFits(task[c])', CreateFits(task[c])', DeleteFits(task[c])',
           \A d \in Client : \A i \in 1 .. MaxInstance :
              d # c /\ Owns(task[d], i) => i # j /\ ~Owns(t, i),
           j \in acked' \ touched' =>
              /\ made'[j] # NoRequest /\ [id |-> j, name |-> made'[j].a] \in instances'
              /\ RowsOf(j)' = made'[j].parts
    PROVE  CreationInv'
  <1>1. /\ task' \in [Client -> Task] /\ task'[c] = t
        /\ \A d \in Client : d # c => task'[d] = task[d]
    BY MovesFacts
  <1>2. InstanceTypeOK'
    BY <1>1 DEF InstanceTypeOK, BlueprintInv, Moves, Reply, TablesKept
  <1>3. OwnersFit'
    BY <1>1 DEF CreationInv, OwnersFit, Owns
  <1>4. AcknowledgedIsWhole'
    <2> SUFFICES ASSUME NEW i \in acked' \ touched'
                 PROVE  /\ made'[i] # NoRequest
                        /\ [id |-> i, name |-> made'[i].a] \in instances'
                        /\ RowsOf(i)' = made'[i].parts
      BY DEF AcknowledgedIsWhole
    <2>1. CASE i = j
      BY <2>1
    <2>2. CASE i # j
      <3>1. i \in acked \ touched /\ i \in 1 .. nextInst - 1
        BY <2>2 DEF TablesKept, CreationInv, InstanceTypeOK, RowsFit, InstanceId
      <3>2. /\ made[i] # NoRequest /\ [id |-> i, name |-> made[i].a] \in instances
            /\ RowsOf(i) = made[i].parts
        BY <3>1 DEF CreationInv, AcknowledgedIsWhole
      <3>3. made[i].a \in Avatar
        BY <3>1, <3>2 DEF CreationInv, InstanceTypeOK, Request
      <3>4. /\ made'[i] = made[i] /\ [id |-> i, name |-> made[i].a] \in instances'
            /\ RowsOf(i)' = RowsOf(i)
        BY <2>2, <3>1, <3>2, <3>3 DEF TablesKept
      <3> QED  BY <3>2, <3>4
    <2> QED  BY <2>1, <2>2
  <1>5. ASSUME NEW d \in Client
        PROVE  CheckFits(task[d])' /\ CreateFits(task[d])' /\ DeleteFits(task[d])'
    <2>1. CASE d = c
      BY <2>1
    <2>2. CASE d # c
      BY <1>1, <2>2, OthersKept
    <2> QED  BY <2>1, <2>2
  <1> QED  BY <1>2, <1>3, <1>4, <1>5 DEF CreationInv, TablesKept

\* Most steps change no table: what is known before the step of the new local
\* variables is known after it.
LEMMA QuietKeeps ==
    ASSUME CreationInv, NEW c \in Client, NEW t \in Task, Moves(c, t), TaskFits(t),
           UNCHANGED <<blueprint, tables, history>>,
           UNCHANGED faults \/ \E ok \in BOOLEAN : Statement(ok),
           \A i : Owns(t, i) => Owns(task[c], i)
    PROVE  CreationInv'
  <1>1. task'[c] = t
    BY MovesFacts
  <1>2. BlueprintInv'
    BY HandlersKeepBlueprint DEF CreationInv
  <1>3. EverGrows /\ TablesKept(0)
    BY SameTables DEF EverGrows, blueprint
  <1>4. AcceptedWasDeclared'
    BY DEF CreationInv, AcceptedWasDeclared, EverDeclared, blueprint, history
  <1>5. CheckFits(task[c])'
    BY <1>1 DEF TaskFits, CheckFits, EverDeclared, blueprint
  <1>6. CreateFits(task[c])'
    BY <1>1 DEF TaskFits, CreateFits, RowsOf, tables, history
  <1>7. DeleteFits(task[c])'
    BY <1>1 DEF TaskFits, DeleteFits, history
  <1>8. ASSUME NEW d \in Client, NEW i \in 1 .. MaxInstance, d # c, Owns(task[d], i)
        PROVE  i # 0 /\ ~Owns(t, i)
    BY <1>8 DEF CreationInv, OwnersFit
  <1>9. 0 \notin acked'
    BY <1>3 DEF TablesKept
  <1> QED  BY <1>2, <1>3, <1>4, <1>5, <1>6, <1>7, <1>8, <1>9, StepKeeps

LEMMA QuietRespond ==
    ASSUME CreationInv, NEW c \in Client, NEW status, NEW out,
           status \in {200, 201, 204, 400, 404, 409, 500}, out \subseteq Entry,
           Respond(c, status, out), UNCHANGED <<blueprint, tables, history>>,
           UNCHANGED faults \/ \E ok \in BOOLEAN : Statement(ok)
    PROVE  CreationInv'
  <1>1. Moves(c, Idle)
    BY RespondFacts
  <1> QED  BY <1>1, IdleFacts, IdleFits, QuietKeeps

LEMMA QuietContinue ==
    ASSUME CreationInv, NEW c \in Client, NEW t \in Task, Continue(c, t), TaskFits(t),
           UNCHANGED <<blueprint, tables, history>>,
           UNCHANGED faults \/ \E ok \in BOOLEAN : Statement(ok),
           \A i : Owns(t, i) => Owns(task[c], i)
    PROVE  CreationInv'
  <1>1. Moves(c, t)
    BY ContinueFacts
  <1> QED  BY <1>1, QuietKeeps

\* Local variables of a handler that validates, deletes or reads, where
\* CreationInv asks little.
LEMMA CheckLocal ==
    ASSUME NEW pc \in {"check", "options"}, NEW r \in Request,
           r.op = "create", NEW todo \in SUBSET r.parts, NEW seen \in SUBSET Part,
           ever[r.type] # {}, Needs(r.parts \ todo) \subseteq EverDeclared(r.type)
    PROVE  LET t == Local(pc, r, 0, todo, {}, seen, {}, {})
           IN  t \in Task /\ TaskFits(t) /\ \A i : ~Owns(t, i)
  <1> DEFINE t == Local(pc, r, 0, todo, {}, seen, {}, {})
  <1>1. t \in Task
    <2>1. /\ pc \in PC /\ 0 \in InstanceId /\ todo \in SUBSET Choice /\ {} \in SUBSET Table
          /\ {} \in SUBSET InstanceId /\ {} \in SUBSET Entry
      BY DEF PC, InstanceId, Request
    <2> QED  BY <2>1, LocalTyped
  <1>2. t.pc = pc /\ t.req = r /\ t.todo = todo
    BY LocalFacts
  <1> HIDE DEF t
  <1>3. CheckFits(t)
    BY <1>2 DEF CheckFits
  <1>4. CreateFits(t) /\ DeleteFits(t) /\ \A i : ~Owns(t, i)
    BY <1>2 DEF CreateFits, DeleteFits, Owns
  <1> QED  BY <1>1, <1>3, <1>4 DEF t, TaskFits

LEMMA ReadLocal ==
    ASSUME NEW pc \in {"build", "target", "all", "list"}, NEW r \in Request,
           pc = "build" => r.op # "create",
           NEW i \in InstanceId, NEW kinds \in SUBSET Table, NEW seen \in SUBSET Part,
           NEW queue \in SUBSET InstanceId, NEW out \in SUBSET Entry
    PROVE  LET t == Local(pc, r, i, {}, kinds, seen, queue, out)
           IN  t \in Task /\ TaskFits(t) /\ \A k : ~Owns(t, k)
  <1> DEFINE t == Local(pc, r, i, {}, kinds, seen, queue, out)
  <1>1. t \in Task
    <2>1. pc \in PC /\ {} \in SUBSET Choice
      BY DEF PC
    <2> QED  BY <2>1, LocalTyped
  <1>2. t.pc = pc /\ t.req = r
    BY LocalFacts
  <1> HIDE DEF t
  <1>3. CheckFits(t) /\ CreateFits(t) /\ DeleteFits(t) /\ \A k : ~Owns(t, k)
    BY <1>2 DEF CheckFits, CreateFits, DeleteFits, Owns
  <1> QED  BY <1>1, <1>3 DEF t, TaskFits

-----------------------------------------------------------------------------
(* Actions that change no table.                                           *)

LEMMA ReceiveKeeps ==
    ASSUME CreationInv, NEW c \in Client, Receive(c)
    PROVE  CreationInv'
  <1>1. PICK r \in Workload[c] :
          task' = [task EXCEPT ![c] = Local(FirstStep(r.op), r, 0, r.parts, {}, {}, {}, {})]
    BY DEF Receive
  <1> DEFINE t == Local(FirstStep(r.op), r, 0, r.parts, {}, {}, {}, {})
  <1>2. /\ r \in Request /\ r \in Request \cup {NoRequest} /\ r # NoRequest
        /\ r.parts \in SUBSET Choice
    BY DEF Request
  <1>3. FirstStep(r.op) \in {"type", "all", "target"}
    BY DEF FirstStep
  <1>4. t \in Task
    <2>1. /\ FirstStep(r.op) \in PC /\ 0 \in InstanceId /\ {} \in SUBSET Table
          /\ {} \in SUBSET Part /\ {} \in SUBSET InstanceId /\ {} \in SUBSET Entry
      BY <1>3 DEF PC, InstanceId
    <2> QED  BY <1>2, <2>1, LocalTyped
  <1>5. t.pc = FirstStep(r.op) /\ t.req = r /\ t.todo = r.parts
    BY LocalFacts
  <1>6. Moves(c, t)
    <2>1. firm' \in [Client -> SUBSET InstanceId]
      BY DEF Receive, CreationInv, InstanceTypeOK
    <2>2. sure' \subseteq Client
      BY DEF Receive, CreationInv, InstanceTypeOK
    <2>3. reply' \in Reply
      BY DEF Receive, NoReply, Reply
    <2> QED  BY <1>1, <2>1, <2>2, <2>3 DEF Moves
  <1> HIDE DEF t
  <1>7. TaskFits(t) /\ \A i : ~Owns(t, i)
    BY <1>2, <1>3, <1>5 DEF TaskFits, CheckFits, CreateFits, DeleteFits, Owns
  <1>8. UNCHANGED <<blueprint, tables, history>> /\ UNCHANGED faults
    BY DEF Receive
  <1> QED  BY <1>4, <1>6, <1>7, <1>8, QuietKeeps

LEMMA RejectKeeps ==
    ASSUME CreationInv, NEW c \in Client, Reject(c)
    PROVE  CreationInv'
  <1>1. /\ UNCHANGED <<blueprint, tables, history>> /\ UNCHANGED faults
        /\ Respond(c, 500, {}) /\ {} \subseteq Entry
    BY DEF Reject
  <1> QED  BY <1>1, QuietRespond

LEMMA CheckTypeKeeps ==
    ASSUME CreationInv, NEW c \in Client, CheckType(c)
    PROVE  CreationInv'
  <1> DEFINE r == task[c].req
             t == Local("check", r, 0, task[c].todo, {}, {}, {}, {})
  <1>1. PICK ok \in BOOLEAN :
          /\ Statement(ok)
          /\ IF ok /\ r.type \in types THEN Continue(c, t) ELSE Respond(c, 400, {})
    BY DEF CheckType
  <1>2. UNCHANGED <<blueprint, tables, history>> /\ task[c].pc = "type" /\ r.op = "create"
    BY DEF CheckType, At
  <1>3. CASE Respond(c, 400, {})
    <2>1. {} \subseteq Entry
      OBVIOUS
    <2> QED  BY <1>1, <1>2, <1>3, <2>1, QuietRespond
  <1>4. CASE r.type \in types /\ Continue(c, t)
    <2>1. /\ r \in Request /\ r.type \in AvatarType /\ task[c].todo \in SUBSET r.parts
          /\ r.parts \ task[c].todo \in SUBSET r.parts
      BY <1>2, TaskFacts DEF TaskFits, CheckFits
    <2>2. ever[r.type] # {}
      BY <1>4, <2>1 DEF CreationInv, BlueprintInv, DeclaredFit
    <2>3. {} \in SUBSET Part /\ "check" \in {"check", "options"}
      OBVIOUS
    <2>4. task[c].todo = r.parts
      BY <1>2, TaskFacts DEF TaskFits, CheckFits
    <2>5. Needs(r.parts \ task[c].todo) \subseteq EverDeclared(r.type)
      BY <2>4 DEF Needs
    <2>6. t \in Task /\ TaskFits(t) /\ \A i : ~Owns(t, i)
      BY <1>2, <2>1, <2>2, <2>3, <2>5, CheckLocal
    <2> HIDE DEF t
    <2> QED  BY <1>1, <1>2, <1>4, <2>6, QuietContinue
  <1> QED  BY <1>1, <1>3, <1>4

\* A query on a table finds rows that exist.
LEMMA FoundFacts ==
    ASSUME CreationInv, NEW o \in AvatarType, NEW k, NEW ok \in BOOLEAN
    PROVE  /\ Found(o, k, ok) \subseteq EverDeclared(o) /\ Found(o, k, ok) \subseteq Part
           /\ \A p \in Found(o, k, ok) : Base[p] \in EverDeclared(o)
  <1>1. \A p \in Found(o, k, ok) : p \in Part /\ rows[o][p] > 0
    BY DEF Found, Valid
  <1>2. \A p \in Found(o, k, ok) : p \in EverDeclared(o)
    BY <1>1 DEF CreationInv, BlueprintInv, DeclaredFit
  <1>3. \A p \in EverDeclared(o) : Base[p] \in EverDeclared(o)
    BY DEF CreationInv, BlueprintInv, DeclaredFit, EverDeclared
  <1> QED  BY <1>1, <1>2, <1>3

LEMMA CheckTableKeeps ==
    ASSUME CreationInv, NEW c \in Client, CheckTable(c)
    PROVE  CreationInv'
  <1> DEFINE r == task[c].req
             todo == task[c].todo
             asked(p) == AskedOf(todo, Kind[p])
             t(p) == Local("check", r, 0, todo \ asked(p), {}, {}, {}, {})
  <1>1. PICK p \in Plain(todo), ok \in BOOLEAN :
          /\ Statement(ok)
          /\ IF asked(p) \subseteq Found(r.type, Kind[p], ok)
             THEN Continue(c, t(p)) ELSE Respond(c, 400, {})
    BY DEF CheckTable
  <1>2. UNCHANGED <<blueprint, tables, history>> /\ task[c].pc = "check" /\ r.op = "create"
    BY DEF CheckTable, At
  <1>3. CASE Respond(c, 400, {})
    <2>1. {} \subseteq Entry
      OBVIOUS
    <2> QED  BY <1>1, <1>2, <1>3, <2>1, QuietRespond
  <1>4. CASE asked(p) \subseteq Found(r.type, Kind[p], ok) /\ Continue(c, t(p))
    <2>1. /\ r \in Request /\ r.type \in AvatarType /\ todo \in SUBSET r.parts
          /\ ever[r.type] # {} /\ Needs(r.parts \ todo) \subseteq EverDeclared(r.type)
      BY <1>2, TaskFacts DEF TaskFits, CheckFits
    <2>2. Needs(asked(p)) \subseteq EverDeclared(r.type)
      BY <1>4, <2>1, FoundFacts DEF Needs, AskedOf
    <2>3. Needs(r.parts \ (todo \ asked(p))) \subseteq EverDeclared(r.type)
      BY <2>1, <2>2 DEF Needs
    <2>4. todo \ asked(p) \in SUBSET r.parts /\ {} \in SUBSET Part
      BY <2>1
    <2> HIDE DEF asked
    <2>5. t(p) \in Task /\ TaskFits(t(p)) /\ \A i : ~Owns(t(p), i)
      BY <1>2, <2>1, <2>3, <2>4, CheckLocal
    <2> HIDE DEF t
    <2> QED  BY <1>1, <1>2, <1>4, <2>5, QuietContinue
  <1> QED  BY <1>1, <1>3, <1>4

LEMMA CheckCustomizationsKeeps ==
    ASSUME CreationInv, NEW c \in Client, CheckCustomizations(c)
    PROVE  CreationInv'
  <1> DEFINE r == task[c].req
             todo == task[c].todo
             found(ok) == Found(r.type, "customization", ok)
             t(ok) == Local("options", r, 0, todo, {}, found(ok), {}, {})
  <1>1. PICK ok \in BOOLEAN : Statement(ok) /\ Continue(c, t(ok))
    BY DEF CheckCustomizations
  <1>2. UNCHANGED <<blueprint, tables, history>> /\ task[c].pc = "check" /\ r.op = "create"
    BY DEF CheckCustomizations, At
  <1>3. /\ r \in Request /\ r.type \in AvatarType /\ todo \in SUBSET r.parts
        /\ ever[r.type] # {} /\ Needs(r.parts \ todo) \subseteq EverDeclared(r.type)
    BY <1>2, TaskFacts DEF TaskFits, CheckFits
  <1>4. found(ok) \in SUBSET Part
    BY <1>3, FoundFacts
  <1> HIDE DEF found
  <1>5. t(ok) \in Task /\ TaskFits(t(ok)) /\ \A i : ~Owns(t(ok), i)
    BY <1>2, <1>3, <1>4, CheckLocal
  <1> HIDE DEF t
  <1> QED  BY <1>1, <1>2, <1>5, QuietContinue

LEMMA CheckOptionKeeps ==
    ASSUME CreationInv, NEW c \in Client, CheckOption(c)
    PROVE  CreationInv'
  <1> DEFINE r == task[c].req
             todo == task[c].todo
             t(p) == Local("options", r, 0, todo \ {p}, {}, task[c].seen, {}, {})
  <1>1. PICK p \in todo, ok \in BOOLEAN :
          /\ Statement(ok)
          /\ IF OptionKnown(task[c], p, ok) THEN Continue(c, t(p)) ELSE Respond(c, 400, {})
    BY DEF CheckOption
  <1>2. UNCHANGED <<blueprint, tables, history>> /\ task[c].pc = "options" /\ r.op = "create"
    BY DEF CheckOption, At
  <1>3. CASE Respond(c, 400, {})
    <2>1. {} \subseteq Entry
      OBVIOUS
    <2> QED  BY <1>1, <1>2, <1>3, <2>1, QuietRespond
  <1>4. CASE OptionKnown(task[c], p, ok) /\ Continue(c, t(p))
    <2>1. /\ r \in Request /\ r.type \in AvatarType /\ todo \in SUBSET r.parts
          /\ ever[r.type] # {} /\ Needs(r.parts \ todo) \subseteq EverDeclared(r.type)
          /\ task[c].seen \in SUBSET Part
      BY <1>2, TaskFacts DEF TaskFits, CheckFits
    <2>2. p \in EverDeclared(r.type) /\ Base[p] \in EverDeclared(r.type)
      BY <1>4, <2>1, FoundFacts DEF OptionKnown
    <2>3. Needs(r.parts \ (todo \ {p})) \subseteq EverDeclared(r.type)
      BY <2>1, <2>2 DEF Needs
    <2>4. todo \ {p} \in SUBSET r.parts
      BY <2>1
    <2>5. t(p) \in Task /\ TaskFits(t(p)) /\ \A i : ~Owns(t(p), i)
      BY <1>2, <2>1, <2>3, <2>4, CheckLocal
    <2> HIDE DEF t
    <2> QED  BY <1>1, <1>2, <1>4, <2>5, QuietContinue
  <1> QED  BY <1>1, <1>3, <1>4

LEMMA CreateFilledKeeps ==
    ASSUME CreationInv, NEW c \in Client, CreateFilled(c)
    PROVE  CreationInv'
  <1> DEFINE r == task[c].req
             i == task[c].inst
             t == Local("build", r, i, {}, ResponseTables, {}, {}, {})
  <1>1. /\ UNCHANGED <<blueprint, tables, history>> /\ UNCHANGED faults /\ Continue(c, t)
        /\ task[c].pc = "fill" /\ r.op = "create" /\ task[c].todo = {}
    BY DEF CreateFilled, At
  <1>2. r \in Request /\ r # NoRequest /\ i \in InstanceId /\ CreateFits(task[c])
    BY <1>1, TaskFacts DEF TaskFits
  <1>3. t \in Task
    <2>1. /\ "build" \in PC /\ r \in Request \cup {NoRequest} /\ {} \in SUBSET Choice
          /\ {} \in SUBSET Part /\ {} \in SUBSET InstanceId /\ {} \in SUBSET Entry
          /\ ResponseTables \in SUBSET Table
      BY <1>2, ChoiceFacts DEF PC
    <2> QED  BY <1>2, <2>1, LocalTyped
  <1>4. t.pc = "build" /\ t.req = r /\ t.inst = i /\ t.todo = {} /\ t.out = {}
    BY LocalFacts
  <1> HIDE DEF t
  <1>5. CreateFits(t)
    BY <1>1, <1>2, <1>4 DEF CreateFits
  <1>6. CheckFits(t) /\ DeleteFits(t) /\ \A k : Owns(t, k) => Owns(task[c], k)
    BY <1>1, <1>2, <1>4 DEF CheckFits, DeleteFits, Owns
  <1> QED  BY <1>1, <1>3, <1>5, <1>6, QuietContinue DEF TaskFits

LEMMA GetFindKeeps ==
    ASSUME CreationInv, NEW c \in Client, GetFind(c)
    PROVE  CreationInv'
  <1> DEFINE r == task[c].req
             t(i) == Local("build", r, i, {}, ResponseTables, {}, {}, {})
  <1>0. PICK ok \in BOOLEAN :
          /\ Statement(ok)
          /\ \E id \in Named(r.a, ok) :
               IF id = 0 THEN Respond(c, 404, {}) ELSE Continue(c, t(id))
    BY DEF GetFind
  <1>1. PICK id \in Named(r.a, ok) :
          IF id = 0 THEN Respond(c, 404, {}) ELSE Continue(c, t(id))
    BY <1>0
  <1>2. UNCHANGED <<blueprint, tables, history>> /\ task[c].pc = "target" /\ r.op = "get"
    BY DEF GetFind, At
  <1>3. CASE Respond(c, 404, {})
    <2>1. {} \subseteq Entry
      OBVIOUS
    <2> QED  BY <1>0, <1>2, <1>3, <2>1, QuietRespond
  <1>4. CASE Continue(c, t(id))
    <2>1. r \in Request /\ id \in InstanceId
      BY <1>2, TaskFacts, NamedFacts
    <2>2. /\ ResponseTables \in SUBSET Table /\ {} \in SUBSET Part
          /\ {} \in SUBSET InstanceId /\ {} \in SUBSET Entry
      BY ChoiceFacts
    <2>3. t(id) \in Task /\ TaskFits(t(id)) /\ \A i : ~Owns(t(id), i)
      BY <1>2, <2>1, <2>2, ReadLocal
    <2> HIDE DEF t
    <2> QED  BY <1>0, <1>2, <1>4, <2>3, QuietContinue
  <1> QED  BY <1>1, <1>3, <1>4

LEMMA ListFindKeeps ==
    ASSUME CreationInv, NEW c \in Client, ListFind(c)
    PROVE  CreationInv'
  <1> DEFINE r == task[c].req
             ids(ok) == IF ok THEN {i.id : i \in instances} ELSE {}
             t(ok) == Local("list", r, 0, {}, {}, {}, ids(ok), {})
  <1>1. PICK ok \in BOOLEAN : Statement(ok) /\ Continue(c, t(ok))
    BY DEF ListFind
  <1>2. UNCHANGED <<blueprint, tables, history>> /\ task[c].pc = "all"
    BY DEF ListFind, At
  <1>3. r \in Request
    BY <1>2, TaskFacts
  <1>4. /\ ids(ok) \in SUBSET InstanceId /\ 0 \in InstanceId
        /\ {} \in SUBSET Table /\ {} \in SUBSET Part /\ {} \in SUBSET Entry
    BY DEF CreationInv, InstanceTypeOK, InstanceId
  <1> HIDE DEF ids
  <1>5. t(ok) \in Task /\ TaskFits(t(ok)) /\ \A i : ~Owns(t(ok), i)
    BY <1>3, <1>4, ReadLocal
  <1> HIDE DEF t
  <1> QED  BY <1>1, <1>2, <1>5, QuietContinue

LEMMA ListNextKeeps ==
    ASSUME CreationInv, NEW c \in Client, ListNext(c)
    PROVE  CreationInv'
  <1> DEFINE s == task[c]
             t(id) == Local("build", s.req, id, {}, ResponseTables, {}, s.queue \ {id}, s.out)
  <1>1. PICK id \in s.queue : Continue(c, t(id))
    BY DEF ListNext
  <1>2. /\ UNCHANGED <<blueprint, tables, history>> /\ UNCHANGED faults
        /\ s.pc = "list" /\ s.req.op = "list"
    BY DEF ListNext, At
  <1>3. /\ s.req \in Request /\ id \in InstanceId /\ s.queue \ {id} \in SUBSET InstanceId
        /\ s.out \in SUBSET Entry /\ ResponseTables \in SUBSET Table /\ {} \in SUBSET Part
    BY <1>2, TaskFacts, ChoiceFacts
  <1>4. t(id) \in Task /\ TaskFits(t(id)) /\ \A i : ~Owns(t(id), i)
    BY <1>2, <1>3, ReadLocal
  <1> HIDE DEF t
  <1> QED  BY <1>1, <1>2, <1>4, QuietContinue

LEMMA ListReplyKeeps ==
    ASSUME CreationInv, NEW c \in Client, ListReply(c)
    PROVE  CreationInv'
  <1>1. /\ Respond(c, 200, task[c].out) /\ task[c].out \subseteq Entry
        /\ UNCHANGED <<blueprint, tables, history>> /\ UNCHANGED faults
    BY TaskFacts DEF ListReply
  <1> QED  BY <1>1, QuietRespond

\* What is shown of an instance whose tables have been read.
LEMMA ShownTyped ==
    ASSUME CreationInv, NEW c \in Client
    PROVE  Shown(task[c]) \subseteq Entry
  <1>1. /\ task[c].inst \in InstanceId /\ task[c].out \subseteq Entry
        /\ task[c].seen \in SUBSET Part
    BY TaskFacts
  <1> QED  BY <1>1 DEF Shown, Entry

LEMMA ChildRowsTyped ==
    ASSUME CreationInv, NEW i, NEW k
    PROVE  ChildRows(i, k) \subseteq RowsOf(i) /\ ChildRows(i, k) \subseteq Part
  BY ChoiceFacts DEF ChildRows, RowsOf, CreationInv, InstanceTypeOK

\* Another table has been read: all else a handler in buildInstanceResponse
\* knows is as before.
BuildLocal(c, kinds, seen) ==
    Local("build", task[c].req, task[c].inst, {}, kinds, seen, task[c].queue, task[c].out)

LEMMA BuildTableKeeps ==
    ASSUME CreationInv, NEW c \in Client, BuildTable(c)
    PROVE  CreationInv'
  <1> DEFINE s == task[c]
             more(k, ok) == IF ok THEN ChildRows(s.inst, k) ELSE {}
             t(k, ok) == BuildLocal(c, s.kinds \ {k}, s.seen \cup more(k, ok))
  <1>1. PICK k \in s.kinds, ok \in BOOLEAN : Statement(ok) /\ Continue(c, t(k, ok))
    BY DEF BuildTable, BuildLocal
  <1>2. UNCHANGED <<blueprint, tables, history>> /\ s.pc = "build"
    BY DEF BuildTable
  <1>3. /\ s.req \in Request /\ s.req # NoRequest /\ s.inst \in InstanceId
        /\ s.kinds \ {k} \in SUBSET Table /\ s.seen \cup more(k, ok) \in SUBSET Part
        /\ s.queue \in SUBSET InstanceId /\ s.out \in SUBSET Entry /\ TaskFits(s)
    BY <1>2, TaskFacts, ChildRowsTyped
  <1> HIDE DEF more
  <1>4. t(k, ok) \in Task
    <2>1. "build" \in PC /\ {} \in SUBSET Choice /\ s.req \in Request \cup {NoRequest}
      BY <1>3 DEF PC
    <2> QED  BY <1>3, <2>1, LocalTyped DEF BuildLocal
  <1>5. /\ t(k, ok).pc = "build" /\ t(k, ok).req = s.req /\ t(k, ok).inst = s.inst
        /\ t(k, ok).todo = {} /\ t(k, ok).out = s.out
    BY LocalFacts DEF BuildLocal
  <1> HIDE DEF t
  <1>6. CreateFits(t(k, ok))
    BY <1>2, <1>3, <1>5 DEF TaskFits, CreateFits
  <1>7. CheckFits(t(k, ok)) /\ DeleteFits(t(k, ok)) /\ \A i : Owns(t(k, ok), i) => Owns(s, i)
    BY <1>2, <1>3, <1>5 DEF CheckFits, DeleteFits, Owns
  <1> QED  BY <1>1, <1>2, <1>4, <1>6, <1>7, QuietContinue DEF TaskFits

LEMMA BuildNextKeeps ==
    ASSUME CreationInv, NEW c \in Client, BuildNext(c)
    PROVE  CreationInv'
  <1> DEFINE s == task[c]
             t == Local("list", s.req, 0, {}, {}, {}, s.queue, Shown(s))
  <1>1. /\ UNCHANGED <<blueprint, tables, history>> /\ UNCHANGED faults /\ Continue(c, t)
        /\ s.pc = "build" /\ s.req.op = "list"
    BY DEF BuildNext, At
  <1>2. /\ s.req \in Request /\ s.queue \in SUBSET InstanceId /\ Shown(s) \in SUBSET Entry
        /\ 0 \in InstanceId /\ {} \in SUBSET Table /\ {} \in SUBSET Part
    BY <1>1, TaskFacts, ShownTyped DEF InstanceId
  <1>3. t \in Task /\ TaskFits(t) /\ \A i : ~Owns(t, i)
    BY <1>2, ReadLocal
  <1> HIDE DEF t
  <1> QED  BY <1>1, <1>3, QuietContinue

LEMMA GetReplyKeeps ==
    ASSUME CreationInv, NEW c \in Client, GetReply(c)
    PROVE  CreationInv'
  <1>1. /\ Respond(c, 200, Shown(task[c])) /\ Shown(task[c]) \subseteq Entry
        /\ UNCHANGED <<blueprint, tables, history>> /\ UNCHANGED faults
    BY ShownTyped DEF GetReply
  <1> QED  BY <1>1, QuietRespond

-----------------------------------------------------------------------------
(* Actions that change the tables.                                         *)

LEMMA InsertKeepsTables ==
    ASSUME CreationInv, NEW r \in Request, InsertInstance(r),
           UNCHANGED <<details, acked, touched>>
    PROVE  /\ TablesKept(nextInst)
           /\ nextInst \in 1 .. MaxInstance /\ nextInst' = nextInst + 1
           /\ made' \in [1 .. MaxInstance -> Request \cup {NoRequest}]
           /\ made'[nextInst] = r
           /\ \A i \in 1 .. MaxInstance : i # nextInst => made'[i] = made[i]
           /\ [id |-> nextInst, name |-> r.a] \in instances'
           /\ \A d \in details' : d.inst # nextInst
  <1> DEFINE new == [id |-> nextInst, name |-> r.a]
  <1>1. /\ nextInst \in 1 .. MaxInstance /\ nextInst' = nextInst + 1
        /\ instances' = instances \cup {new} /\ r.a \in Avatar
        /\ made' = [made EXCEPT ![nextInst] = r] /\ InstanceRows(r.a) = {}
    BY DEF InsertInstance, NewInstance, CreationInv, InstanceTypeOK, Request
  <1>2. /\ made' \in [1 .. MaxInstance -> Request \cup {NoRequest}]
        /\ made'[nextInst] = r /\ r # NoRequest
        /\ \A i \in 1 .. MaxInstance : i # nextInst => made'[i] = made[i]
    BY <1>1 DEF CreationInv, InstanceTypeOK
  <1>3. \A i \in instances : i \in [id : InstanceId \ {0}, name : Avatar] /\ i.id < nextInst
                             /\ i.name # r.a
    BY <1>1 DEF CreationInv, InstanceTypeOK, RowsFit, InstanceRows
  <1>4. new \in [id : InstanceId \ {0}, name : Avatar] /\ new.id = nextInst /\ new.name = r.a
    BY <1>1 DEF InstanceId
  <1> HIDE DEF new
  <1>5. instances' \subseteq [id : InstanceId \ {0}, name : Avatar]
    BY <1>1, <1>3, <1>4
  <1>6. \A d \in details : d.inst \in InstanceId /\ d.inst < nextInst
    BY DEF CreationInv, InstanceTypeOK, RowsFit
  <1>7. \A i \in acked \cup touched : i \in InstanceId /\ i < nextInst
    BY DEF CreationInv, InstanceTypeOK, RowsFit
  <1>8. RowsFit'
    <2>1. \A i \in instances' :
             i.id < nextInst' /\ made'[i.id] # NoRequest /\ made'[i.id].a = i.name
      <3>1. \A i \in instances : made[i.id] # NoRequest /\ made[i.id].a = i.name
        BY DEF CreationInv, RowsFit
      <3>2. \A i \in instances : i.id \in 1 .. MaxInstance /\ i.id # nextInst
        BY <1>1, <1>3 DEF InstanceId
      <3>3. ASSUME NEW i \in instances'
            PROVE  i.id < nextInst' /\ made'[i.id] # NoRequest /\ made'[i.id].a = i.name
        <4>1. CASE i \in instances
          BY <1>1, <1>2, <1>3, <3>1, <3>2, <4>1 DEF InstanceId
        <4>2. CASE i = new
          BY <1>1, <1>2, <1>4, <4>2
        <4> QED  BY <1>1, <4>1, <4>2
      <3> QED  BY <3>3
    <2>2. \A i, j \in instances' : i.name = j.name => i = j
      BY <1>1, <1>3, <1>4 DEF CreationInv, RowsFit
    <2>3. \A i \in 1 .. MaxInstance : made'[i] # NoRequest <=> i < nextInst'
      BY <1>1, <1>2 DEF CreationInv, RowsFit
    <2>4. /\ \A d \in details' : d.inst < nextInst'
          /\ \A i \in acked' \cup touched' : i < nextInst'
      BY <1>1, <1>6, <1>7 DEF InstanceId
    <2> QED  BY <2>1, <2>2, <2>3, <2>4 DEF RowsFit
  <1>9. \A i : RowsOf(i)' = RowsOf(i)
    BY DEF RowsOf
  <1>10. \A d \in details' : d.inst # nextInst
    BY <1>1, <1>6 DEF InstanceId
  <1>11. TablesKept(nextInst)
    BY <1>1, <1>2, <1>5, <1>8, <1>9 DEF TablesKept, CreationInv, InstanceTypeOK
  <1>12. [id |-> nextInst, name |-> r.a] \in instances'
    BY <1>1 DEF new
  <1> QED  BY <1>1, <1>2, <1>10, <1>11, <1>12

\* The instance that is inserted was validated.
LEMMA InsertAccepted ==
    ASSUME CreationInv, NEW c \in Client, Validated(c), InsertInstance(task[c].req),
           UNCHANGED <<blueprint, details, acked, touched>>
    PROVE  AcceptedWasDeclared'
  <1> DEFINE r == task[c].req
  <1>1. /\ r \in Request /\ ever[r.type] # {} /\ Needs(r.parts \ {}) \subseteq EverDeclared(r.type)
    BY TaskFacts DEF Validated, TaskFits, CheckFits
  <1>2. Needs(r.parts) \subseteq EverDeclared(r.type)
    BY <1>1 DEF Needs
  <1>3. /\ made'[nextInst] = r
        /\ \A i \in 1 .. MaxInstance : i # nextInst => made'[i] = made[i]
    BY <1>1, InsertKeepsTables
  <1>4. ever' = ever
    BY DEF blueprint
  <1> HIDE DEF r
  <1>5. ASSUME NEW i \in 1 .. MaxInstance, made'[i] # NoRequest
        PROVE  /\ ever[made'[i].type] # {}
               /\ Needs(made'[i].parts) \subseteq EverDeclared(made'[i].type)
    <2>1. CASE i = nextInst
      BY <1>1, <1>2, <1>3, <2>1
    <2>2. CASE i # nextInst
      BY <1>3, <1>5, <2>2 DEF CreationInv, AcceptedWasDeclared
    <2> QED  BY <2>1, <2>2
  <1> QED  BY <1>4, <1>5 DEF AcceptedWasDeclared, EverDeclared

\* Nobody creates an instance that is not there yet.
LEMMA NotYetOwned ==
    ASSUME CreationInv, NEW d \in Client, NEW i, Owns(task[d], i)
    PROVE  i \in 1 .. nextInst - 1 /\ i # nextInst
  <1>1. i \in 1 .. nextInst - 1
    BY TaskFacts DEF TaskFits, CreateFits, Owns
  <1> QED  BY <1>1 DEF CreationInv, InstanceTypeOK

LEMMA CreateInsertKeeps ==
    ASSUME CreationInv, NEW c \in Client, CreateInsert(c)
    PROVE  CreationInv'
  <1> DEFINE r == task[c].req
             t == Local("fill", r, nextInst, r.parts, {}, {}, {}, {})
  <1>1. /\ Validated(c) /\ InsertInstance(r) /\ Continue(c, t)
        /\ UNCHANGED <<blueprint, details, acked, touched>> /\ UNCHANGED faults
    BY DEF CreateInsert
  <1>2. /\ r \in Request /\ r # NoRequest /\ r.parts \in SUBSET Choice /\ r.a \in Avatar
    BY <1>1, TaskFacts DEF Validated
  <1>3. /\ TablesKept(nextInst) /\ nextInst \in 1 .. MaxInstance /\ nextInst' = nextInst + 1
        /\ made'[nextInst] = r /\ [id |-> nextInst, name |-> r.a] \in instances'
        /\ \A d \in details' : d.inst # nextInst
    BY <1>1, <1>2, InsertKeepsTables
  <1>4. AcceptedWasDeclared'
    BY <1>1, InsertAccepted
  <1>5. t \in Task
    <2>1. /\ "fill" \in PC /\ r \in Request \cup {NoRequest} /\ nextInst \in InstanceId
          /\ {} \in SUBSET Table /\ {} \in SUBSET Part /\ {} \in SUBSET InstanceId
          /\ {} \in SUBSET Entry
      BY <1>2, <1>3 DEF PC, InstanceId
    <2> QED  BY <1>2, <2>1, LocalTyped
  <1>6. t.pc = "fill" /\ t.req = r /\ t.inst = nextInst /\ t.todo = r.parts
    BY LocalFacts
  <1> HIDE DEF t
  <1>7. Moves(c, t) /\ task'[c] = t
    BY <1>1, <1>5, ContinueFacts, MovesFacts
  <1>8. nextInst \notin acked /\ acked' = acked
    BY <1>1 DEF CreationInv, InstanceTypeOK, RowsFit
  <1>9. CheckFits(task[c])' /\ DeleteFits(task[c])'
    BY <1>2, <1>6, <1>7 DEF CheckFits, DeleteFits
  <1>10. CreateFits(task[c])'
    <2>1. nextInst \in 1 .. nextInst' - 1 /\ r.parts \ r.parts = {}
      BY <1>3
    <2>2. RowsOf(task[c].inst)' = {}
      BY <1>3, <1>6, <1>7 DEF RowsOf
    <2> QED  BY <1>3, <1>6, <1>7, <1>8, <2>1, <2>2 DEF CreateFits
  <1>11. ASSUME NEW d \in Client, NEW i \in 1 .. MaxInstance, d # c, Owns(task[d], i)
         PROVE  i # nextInst /\ ~Owns(t, i)
    BY <1>6, <1>11, NotYetOwned DEF Owns
  <1>12. BlueprintInv' /\ EverGrows
    BY <1>1, HandlersKeepBlueprint DEF CreationInv, EverGrows, blueprint
  <1> QED  BY <1>3, <1>4, <1>5, <1>7, <1>8, <1>9, <1>10, <1>11, <1>12, StepKeeps

LEMMA IdleKnowsNothing ==
    ASSUME NEW c \in Client, task'[c] = Idle
    PROVE  CheckFits(task[c])' /\ CreateFits(task[c])' /\ DeleteFits(task[c])'
  BY IdleFacts DEF CheckFits, CreateFits, DeleteFits

LEMMA CreateConflictKeeps ==
    ASSUME CreationInv, NEW c \in Client, CreateConflict(c)
    PROVE  CreationInv'
  <1> DEFINE r == task[c].req
  <1>1. /\ Validated(c) /\ Respond(c, 409, {}) /\ {} \subseteq Entry
        /\ UNCHANGED <<blueprint, details, acked, touched>>
    BY DEF CreateConflict
  <1>2. UNCHANGED faults \/ \E ok \in BOOLEAN : Statement(ok)
    BY DEF CreateConflict
  <1>3. CASE UNCHANGED <<instances, nextInst, made>>
    <2>1. UNCHANGED <<blueprint, tables, history>>
      BY <1>1, <1>3 DEF tables, history
    <2> QED  BY <1>1, <1>2, <2>1, QuietRespond
  <1>4. CASE InsertInstance(r)
    <2>1. r \in Request
      BY <1>1, TaskFacts DEF Validated
    <2>2. TablesKept(nextInst) /\ AcceptedWasDeclared'
      BY <1>1, <1>4, <2>1, InsertKeepsTables, InsertAccepted
    <2>3. Moves(c, Idle)
      BY <1>1, RespondFacts
    <2>4. Idle \in Task /\ task'[c] = Idle
      BY <2>3, IdleFacts, MovesFacts
    <2>5. CheckFits(task[c])' /\ CreateFits(task[c])' /\ DeleteFits(task[c])'
      BY <2>4, IdleKnowsNothing
    <2>6. nextInst \notin acked'
      BY <1>1 DEF CreationInv, InstanceTypeOK, RowsFit
    <2>7. \A d \in Client : \A i \in 1 .. MaxInstance :
             d # c /\ Owns(task[d], i) => i # nextInst /\ ~Owns(Idle, i)
      BY IdleFits, NotYetOwned
    <2>8. BlueprintInv' /\ EverGrows
      BY <1>1, <1>2, HandlersKeepBlueprint DEF CreationInv, EverGrows, blueprint
    <2> QED  BY <2>2, <2>3, <2>4, <2>5, <2>6, <2>7, <2>8, StepKeeps
  <1> QED  BY <1>3, <1>4 DEF CreateConflict

\* What the creator of an instance knows, and nobody else.
LEMMA OwnerFacts ==
    ASSUME CreationInv, NEW c \in Client, task[c].pc \in {"fill", "build"},
           task[c].req.op = "create"
    PROVE  LET i == task[c].inst
               r == task[c].req
           IN  /\ i \in 1 .. nextInst - 1 /\ i \in 1 .. MaxInstance
               /\ i \in InstanceId \ {0} /\ i \notin acked
               /\ r \in Request /\ r # NoRequest /\ made[i] = r
               /\ task[c].todo \subseteq r.parts
               /\ i \notin touched => /\ [id |-> i, name |-> r.a] \in instances
                                      /\ RowsOf(i) = r.parts \ task[c].todo
               /\ \A d \in Client : \A k \in 1 .. MaxInstance :
                     d # c /\ Owns(task[d], k) => k # i
  <1> DEFINE i == task[c].inst
  <1>1. CreateFits(task[c]) /\ task[c].req \in Request /\ task[c].req # NoRequest
    BY TaskFacts DEF TaskFits
  <1>2. i \in 1 .. nextInst - 1 /\ i \in 1 .. MaxInstance /\ i \in InstanceId \ {0}
    BY <1>1 DEF CreateFits, CreationInv, InstanceTypeOK, InstanceId
  <1>3. Owns(task[c], i)
    BY DEF Owns
  <1>4. \A d \in Client : \A k \in 1 .. MaxInstance : d # c /\ Owns(task[d], k) => k # i
    BY <1>2, <1>3 DEF CreationInv, OwnersFit
  <1> QED  BY <1>1, <1>2, <1>4 DEF CreateFits

\* One more row has been inserted.
FillLocal(c, todo) == Local("fill", task[c].req, task[c].inst, todo, {}, {}, {}, {})

LEMMA CreateChildKeeps ==
    ASSUME CreationInv, NEW c \in Client, CreateChild(c)
    PROVE  CreationInv'
  <1> DEFINE s == task[c]
  <1>0. PICK p \in s.todo, ok \in BOOLEAN :
          /\ Statement(ok)
          /\ IF ok
             THEN /\ details' = details \cup {ChildRow(s.inst, p)}
                  /\ Continue(c, FillLocal(c, s.todo \ {p}))
             ELSE details' = details /\ Respond(c, 500, {})
    BY DEF CreateChild, FillLocal
  <1>1. PICK t : t = FillLocal(c, s.todo \ {p})
    OBVIOUS
  <1>2. /\ UNCHANGED <<blueprint, instances, nextInst, history>>
        /\ s.pc = "fill" /\ s.req.op = "create"
    BY DEF CreateChild, At
  <1>3. CASE ~ok
    <2>1. UNCHANGED <<blueprint, tables, history>> /\ Respond(c, 500, {}) /\ {} \subseteq Entry
      BY <1>0, <1>2, <1>3 DEF tables
    <2> QED  BY <1>0, <2>1, QuietRespond
  <1>4. CASE ok
    <2>0. PICK i : i = s.inst
      OBVIOUS
    <2> DEFINE r == s.req
               row == [inst |-> i, part |-> p]
    <2>1. details' = details \cup {row} /\ Continue(c, t)
      BY <1>0, <1>1, <1>4, <2>0 DEF ChildRow
    <2>2. /\ i \in 1 .. nextInst - 1 /\ i \in InstanceId \ {0} /\ i \notin acked
          /\ r \in Request /\ r # NoRequest /\ made[i] = r /\ s.todo \subseteq r.parts
          /\ i \notin touched => /\ [id |-> i, name |-> r.a] \in instances
                                 /\ RowsOf(i) = r.parts \ s.todo
          /\ \A d \in Client : \A k \in 1 .. MaxInstance :
                d # c /\ Owns(task[d], k) => k # i
      BY <1>2, <2>0, OwnerFacts
    <2>3. r.parts \in SUBSET Choice /\ p \in r.parts /\ s.todo \ {p} \in SUBSET Choice
      BY <2>2 DEF Request
    <2>4. t \in Task
      <3>1. /\ "fill" \in PC /\ r \in Request \cup {NoRequest} /\ i \in InstanceId
            /\ {} \in SUBSET Table /\ {} \in SUBSET Part /\ {} \in SUBSET InstanceId
            /\ {} \in SUBSET Entry
        BY <2>2 DEF PC
      <3> QED  BY <1>1, <2>0, <2>3, <3>1, LocalTyped DEF FillLocal
    <2>5. t.pc = "fill" /\ t.req = r /\ t.inst = i /\ t.todo = s.todo \ {p}
      BY <1>1, <2>0, LocalFacts DEF FillLocal
    <2>6. Moves(c, t) /\ task'[c] = t
      BY <2>1, <2>4, ContinueFacts, MovesFacts
    <2>7. row \in [inst : InstanceId \ {0}, part : Choice] /\ row.inst = i /\ row.part = p
      BY <2>2, <2>3
    <2> HIDE DEF row
    <2>8. \A k : k # i => RowsOf(k)' = RowsOf(k)
      BY <2>1, <2>7 DEF RowsOf
    <2>9. TablesKept(i)
      <3>1. details' \subseteq [inst : InstanceId \ {0}, part : Choice]
        BY <2>1, <2>7 DEF CreationInv, InstanceTypeOK
      <3>2. RowsFit'
        <4>1. \A d \in details' : d.inst < nextInst
          BY <2>1, <2>2, <2>7 DEF CreationInv, RowsFit
        <4> QED  BY <1>2, <4>1 DEF CreationInv, RowsFit, history
      <3> QED  BY <1>2, <2>8, <3>1, <3>2 DEF TablesKept, CreationInv, InstanceTypeOK, history
    <2>10. AcceptedWasDeclared'
      BY <1>2 DEF CreationInv, AcceptedWasDeclared, EverDeclared, blueprint, history
    <2>11. CheckFits(task[c])' /\ DeleteFits(task[c])'
      BY <2>2, <2>5, <2>6 DEF CheckFits, DeleteFits
    <2>12. i \notin touched => {d.part : d \in {e \in details' : e.inst = i}}
                                 = r.parts \ (s.todo \ {p})
      <3>1. i \notin touched => \A q : q \in RowsOf(i) <=> q \in r.parts \ s.todo
        BY <2>2
      <3>2. {d.part : d \in {e \in details' : e.inst = i}} = RowsOf(i) \cup {p}
        BY <2>1, <2>7 DEF RowsOf
      <3> QED  BY <2>2, <2>3, <3>1, <3>2
    <2>13. CreateFits(task[c])'
      BY <1>2, <2>2, <2>5, <2>6, <2>12 DEF CreateFits, RowsOf, history
    <2>14. \A d \in Client : \A k \in 1 .. MaxInstance :
              d # c /\ Owns(task[d], k) => k # i /\ ~Owns(t, k)
      BY <2>2, <2>5 DEF Owns
    <2>15. BlueprintInv' /\ EverGrows
      BY <1>0, <1>2, HandlersKeepBlueprint DEF CreationInv, EverGrows, blueprint
    <2>16. i \notin acked'
      BY <1>2, <2>2 DEF history
    <2>17. i \in acked' \ touched' =>
              /\ made'[i] # NoRequest /\ [id |-> i, name |-> made'[i].a] \in instances'
              /\ RowsOf(i)' = made'[i].parts
      BY <2>16
    <2> HIDE DEF r, s
    <2>18. Moves(c, t) /\ EverGrows /\ BlueprintInv'
      BY <2>6, <2>15
    <2> QED  BY <2>4, <2>18, <2>9, <2>10, <2>11, <2>13, <2>14, <2>17, StepKeeps, Zenon
  <1> QED  BY <1>3, <1>4

LEMMA CreateReplyKeeps ==
    ASSUME CreationInv, NEW c \in Client, CreateReply(c)
    PROVE  CreationInv'
  <1>1. /\ task[c].pc = "build" /\ task[c].req.op = "create"
        /\ Respond(c, 201, Shown(task[c])) /\ acked' = acked \cup {task[c].inst}
        /\ UNCHANGED <<blueprint, tables, made, touched, faults>>
    BY DEF CreateReply, At
  <1>2. PICK i, r, todo : i = task[c].inst /\ r = task[c].req /\ todo = task[c].todo
    OBVIOUS
  <1>3. /\ i \in 1 .. nextInst - 1 /\ i \in InstanceId \ {0} /\ i \notin acked
        /\ r \in Request /\ r # NoRequest /\ made[i] = r
        /\ i \notin touched => /\ [id |-> i, name |-> r.a] \in instances
                               /\ RowsOf(i) = r.parts \ todo
        /\ \A d \in Client : \A k \in 1 .. MaxInstance :
              d # c /\ Owns(task[d], k) => k # i
    BY <1>1, <1>2, OwnerFacts
  <1>4. todo = {}
    BY <1>1, <1>2, TaskFacts DEF TaskFits, CreateFits
  <1>5. Moves(c, Idle) /\ Idle \in Task
    <2>1. Shown(task[c]) \subseteq Entry
      BY ShownTyped
    <2> QED  BY <1>1, <2>1, RespondFacts, IdleFacts
  <1>6. task'[c] = Idle
    BY <1>5, MovesFacts
  <1>7. CheckFits(task[c])' /\ CreateFits(task[c])' /\ DeleteFits(task[c])'
    BY <1>6, IdleKnowsNothing
  <1>8. /\ UNCHANGED <<instances, nextInst, details, made, touched>>
        /\ acked' = acked \cup {i}
    BY <1>1, <1>2 DEF tables
  <1>9. TablesKept(i)
    <2>1. RowsFit'
      BY <1>3, <1>8 DEF CreationInv, RowsFit
    <2>2. \A k : RowsOf(k)' = RowsOf(k)
      BY <1>8 DEF RowsOf
    <2>3. InstanceTypeOK
      BY DEF CreationInv
    <2>4. /\ instances' \subseteq [id : InstanceId \ {0}, name : Avatar]
          /\ nextInst' \in 1 .. MaxInstance + 1 /\ nextInst <= nextInst'
          /\ details' \subseteq [inst : InstanceId \ {0}, part : Choice]
          /\ made' \in [1 .. MaxInstance -> Request \cup {NoRequest}]
          /\ touched' \subseteq InstanceId \ {0} /\ touched \subseteq touched'
      BY <1>8, <2>3 DEF InstanceTypeOK
    <2>5. /\ acked' \subseteq InstanceId \ {0} /\ acked \subseteq acked'
          /\ acked' \subseteq acked \cup {i}
      <3>1. i \in InstanceId \ {0} /\ acked \subseteq InstanceId \ {0}
        BY <1>3, <2>3 DEF InstanceTypeOK
      <3>2. acked' = acked \cup {i}
        BY <1>8
      <3> QED  BY <3>1, <3>2
    <2>6. \A k \in 1 .. nextInst - 1 :
            /\ made'[k] = made[k]
            /\ k # i /\ k \notin touched' =>
                 /\ \A a \in Avatar : [id |-> k, name |-> a] \in instances
                                      => [id |-> k, name |-> a] \in instances'
                 /\ RowsOf(k)' = RowsOf(k)
      BY <1>8, <2>2
    <2> QED  BY <1>8, <2>1, <2>4, <2>5, <2>6 DEF TablesKept
  <1>10. AcceptedWasDeclared'
    BY <1>1 DEF CreationInv, AcceptedWasDeclared, EverDeclared, blueprint
  <1>11. \A d \in Client : \A k \in 1 .. MaxInstance :
            d # c /\ Owns(task[d], k) => k # i /\ ~Owns(Idle, k)
    BY <1>3, IdleFits
  <1>12. BlueprintInv'
    BY <1>1, HandlersKeepBlueprint DEF CreationInv
  <1>13. EverGrows
    BY <1>1 DEF EverGrows, blueprint
  <1>14. i \in acked' \ touched' =>
            /\ made'[i] # NoRequest /\ [id |-> i, name |-> made'[i].a] \in instances'
            /\ RowsOf(i)' = made'[i].parts
    <2>1. RowsOf(i)' = RowsOf(i)
      BY <1>8 DEF RowsOf
    <2> QED  BY <1>3, <1>4, <1>8, <2>1
  <1> QED  BY <1>5, <1>7, <1>9, <1>10, <1>11, <1>12, <1>13, <1>14, StepKeeps, Zenon

\* A step of a deletion concerns an instance that it has found.
LEMMA DeletionKeeps ==
    ASSUME CreationInv, NEW c \in Client, NEW t \in Task, Moves(c, t), TablesKept(0),
           UNCHANGED blueprint, UNCHANGED made, acked' = acked,
           UNCHANGED faults \/ \E ok \in BOOLEAN : Statement(ok),
           CheckFits(t), t.pc \notin {"check", "options", "fill", "build"},
           DeleteFits(task[c])'
    PROVE  CreationInv'
  <1>1. BlueprintInv'
    BY HandlersKeepBlueprint DEF CreationInv
  <1>2. EverGrows
    BY DEF EverGrows, blueprint
  <1>3. AcceptedWasDeclared'
    BY DEF CreationInv, AcceptedWasDeclared, EverDeclared, blueprint
  <1>4. task'[c] = t
    BY MovesFacts
  <1>5. CheckFits(task[c])' /\ CreateFits(task[c])'
    BY <1>4 DEF CheckFits, CreateFits
  <1>6. \A d \in Client : \A k \in 1 .. MaxInstance :
           d # c /\ Owns(task[d], k) => k # 0 /\ ~Owns(t, k)
    BY DEF Owns
  <1>7. 0 \notin acked'
    BY DEF CreationInv, InstanceTypeOK
  <1> QED  BY <1>1, <1>2, <1>3, <1>5, <1>6, <1>7, StepKeeps, Zenon

\* The next table to be emptied, of the tables that are left.
PurgeLocal(r, i, kinds) == Local("purge", r, i, {}, kinds, {}, {}, {})

LEMMA PurgeLocalFacts ==
    ASSUME NEW r \in Request, NEW i \in InstanceId, NEW kinds \in SUBSET Table
    PROVE  LET t == PurgeLocal(r, i, kinds)
           IN  /\ t \in Task /\ t.pc = "purge" /\ t.req = r /\ t.inst = i
               /\ CheckFits(t) /\ t.pc \notin {"check", "options", "fill", "build"}
  <1> DEFINE t == PurgeLocal(r, i, kinds)
  <1>1. t \in Task
    <2>1. /\ "purge" \in PC /\ r \in Request \cup {NoRequest} /\ {} \in SUBSET Choice
          /\ {} \in SUBSET Part /\ {} \in SUBSET InstanceId /\ {} \in SUBSET Entry
      BY DEF PC
    <2> QED  BY <2>1, LocalTyped DEF PurgeLocal
  <1>2. t.pc = "purge" /\ t.req = r /\ t.inst = i
    BY LocalFacts DEF PurgeLocal
  <1> HIDE DEF t
  <1>3. r # NoRequest
    OBVIOUS
  <1>4. CheckFits(t)
    BY <1>2, <1>3 DEF CheckFits
  <1> QED  BY <1>1, <1>2, <1>4 DEF t

LEMMA DeleteFindKeeps ==
    ASSUME CreationInv, NEW c \in Client, DeleteFind(c)
    PROVE  CreationInv'
  <1> DEFINE r == task[c].req
  <1>1. PICK ok \in BOOLEAN : /\ Statement(ok)
          /\ \E id \in Named(r.a, ok) :
               IF id = 0 THEN touched' = touched /\ Respond(c, 404, {})
               ELSE touched' = touched \cup {id} /\ Continue(c, PurgeLocal(r, id, ChildTables))
    BY DEF DeleteFind, PurgeLocal
  <1>2. PICK id \in Named(r.a, ok) :
               IF id = 0 THEN touched' = touched /\ Respond(c, 404, {})
               ELSE touched' = touched \cup {id} /\ Continue(c, PurgeLocal(r, id, ChildTables))
    BY <1>1
  <1>3. /\ UNCHANGED <<blueprint, tables, made, acked>>
        /\ task[c].pc = "target" /\ r.op = "delete"
    BY DEF DeleteFind, At
  <1>4. id \in InstanceId /\ (id # 0 => id < nextInst) /\ r \in Request
    BY <1>3, NamedFacts, TaskFacts
  <1>5. CASE id = 0
    <2>1. UNCHANGED <<blueprint, tables, history>> /\ Respond(c, 404, {}) /\ {} \subseteq Entry
      BY <1>2, <1>3, <1>5 DEF history
    <2> QED  BY <1>1, <2>1, QuietRespond
  <1>6. CASE id # 0
    <2>1. PICK t : t = PurgeLocal(r, id, ChildTables)
      OBVIOUS
    <2>2. touched' = touched \cup {id} /\ Continue(c, t)
      BY <1>2, <1>6, <2>1
    <2>3. ChildTables \in SUBSET Table
      BY ChoiceFacts
    <2>4. /\ t \in Task /\ t.pc = "purge" /\ t.req = r /\ t.inst = id
          /\ CheckFits(t) /\ t.pc \notin {"check", "options", "fill", "build"}
      BY <1>4, <2>1, <2>3, PurgeLocalFacts
    <2>5. Moves(c, t)
      BY <2>2, ContinueFacts
    <2>6. task'[c] = t
      BY <2>4, <2>5, MovesFacts
    <2>7. DeleteFits(task[c])'
      BY <1>3, <2>2, <2>4, <2>6 DEF DeleteFits
    <2>8. UNCHANGED <<instances, nextInst, details, made, acked>>
      BY <1>3 DEF tables
    <2>9. TablesKept(0)
      <3>1. RowsFit'
        BY <1>4, <1>6, <2>2, <2>8 DEF CreationInv, RowsFit
      <3>2. \A k : RowsOf(k)' = RowsOf(k)
        BY <2>8 DEF RowsOf
      <3> QED  BY <1>4, <1>6, <2>2, <2>8, <3>1, <3>2 DEF TablesKept, CreationInv, InstanceTypeOK
    <2>10. UNCHANGED blueprint /\ UNCHANGED made /\ acked' = acked
      BY <1>3
    <2> HIDE DEF r
    <2> QED  BY <1>1, <2>4, <2>5, <2>7, <2>9, <2>10, DeletionKeeps, Zenon
  <1> QED  BY <1>5, <1>6

LEMMA DeleteTableKeeps ==
    ASSUME CreationInv, NEW c \in Client, DeleteTable(c)
    PROVE  CreationInv'
  <1>1. PICK k \in task[c].kinds, ok \in BOOLEAN :
          /\ Statement(ok)
          /\ details' = IF ok THEN Emptied(task[c].inst, k) ELSE details
          /\ Continue(c, PurgeLocal(task[c].req, task[c].inst, task[c].kinds \ {k}))
    BY DEF DeleteTable, PurgeLocal
  <1>2. /\ UNCHANGED <<blueprint, instances, nextInst, history>>
        /\ task[c].pc = "purge" /\ task[c].req.op = "delete"
    BY DEF DeleteTable, At
  <1>3. PICK i, t : /\ i = task[c].inst
                    /\ t = PurgeLocal(task[c].req, i, task[c].kinds \ {k})
    OBVIOUS
  <1>4. /\ i \in InstanceId /\ i \in touched /\ task[c].req \in Request
        /\ task[c].kinds \ {k} \in SUBSET Table
    BY <1>2, <1>3, TaskFacts DEF TaskFits, DeleteFits
  <1>5. /\ t \in Task /\ t.pc = "purge" /\ t.req = task[c].req /\ t.inst = i
        /\ CheckFits(t) /\ t.pc \notin {"check", "options", "fill", "build"}
    BY <1>3, <1>4, PurgeLocalFacts
  <1>6. Moves(c, t)
    BY <1>1, <1>3, ContinueFacts
  <1>7. task'[c] = t
    BY <1>5, <1>6, MovesFacts
  <1>8. DeleteFits(task[c])'
    BY <1>2, <1>4, <1>5, <1>7 DEF DeleteFits, history
  <1>9. /\ details' \subseteq details
        /\ \A d \in details : d.inst # i => d \in details'
    BY <1>1, <1>3 DEF Emptied
  <1>10. UNCHANGED <<instances, nextInst, made, acked, touched>>
    BY <1>2 DEF history
  <1>11. TablesKept(0)
    <2>1. RowsFit'
      BY <1>9, <1>10 DEF CreationInv, RowsFit
    <2>2. \A q : q # i => RowsOf(q)' = RowsOf(q)
      BY <1>9 DEF RowsOf
    <2>3. \A q : q \notin touched' => RowsOf(q)' = RowsOf(q)
      BY <1>4, <1>10, <2>2
    <2> QED  BY <1>9, <1>10, <2>1, <2>3 DEF TablesKept, CreationInv, InstanceTypeOK
  <1>12. UNCHANGED blueprint /\ UNCHANGED made /\ acked' = acked
    BY <1>2, <1>10
  <1>13. UNCHANGED faults \/ \E o \in BOOLEAN : Statement(o)
    BY <1>1
  <1> QED  BY <1>5, <1>6, <1>8, <1>11, <1>12, <1>13, DeletionKeeps, Zenon

LEMMA DeleteRemoveKeeps ==
    ASSUME CreationInv, NEW c \in Client, DeleteRemove(c)
    PROVE  CreationInv'
  <1>1. PICK ok \in BOOLEAN :
          /\ Statement(ok)
          /\ instances' = IF ok THEN Remove(instances, task[c].inst) ELSE instances
    BY DEF DeleteRemove
  <1>2. /\ UNCHANGED <<blueprint, nextInst, details, history>> /\ Respond(c, 204, {})
        /\ task[c].pc = "purge" /\ {} \subseteq Entry
    BY DEF DeleteRemove, At
  <1>3. PICK i : i = task[c].inst
    OBVIOUS
  <1>4. i \in touched
    BY <1>2, <1>3, TaskFacts DEF TaskFits, DeleteFits
  <1>5. Moves(c, Idle) /\ Idle \in Task
    BY <1>2, RespondFacts, IdleFacts
  <1>6. task'[c] = Idle
    BY <1>5, MovesFacts
  <1>7. DeleteFits(task[c])' /\ CheckFits(Idle)
    BY <1>6, IdleKnowsNothing, IdleFits DEF TaskFits
  <1>8. /\ instances' \subseteq instances
        /\ \A x \in instances : x.id # i => x \in instances'
    BY <1>1, <1>3 DEF Remove
  <1>9. UNCHANGED <<nextInst, details, made, acked, touched>>
    BY <1>2 DEF history
  <1>10. TablesKept(0)
    <2>1. RowsFit'
      BY <1>8, <1>9 DEF CreationInv, RowsFit
    <2>2. \A q : RowsOf(q)' = RowsOf(q)
      BY <1>9 DEF RowsOf
    <2>3. ASSUME NEW q \in 1 .. nextInst - 1, q \notin touched', NEW a,
                 [id |-> q, name |-> a] \in instances
          PROVE  [id |-> q, name |-> a] \in instances'
      BY <1>4, <1>8, <1>9, <2>3
    <2> QED  BY <1>8, <1>9, <2>1, <2>2, <2>3 DEF TablesKept, CreationInv, InstanceTypeOK
  <1>11. UNCHANGED blueprint /\ UNCHANGED made /\ acked' = acked
    BY <1>2, <1>9
  <1>12. Idle.pc \notin {"check", "options", "fill", "build"}
    BY IdleFacts
  <1>13. UNCHANGED faults \/ \E o \in BOOLEAN : Statement(o)
    BY <1>1
  <1> QED  BY <1>5, <1>7, <1>10, <1>11, <1>12, <1>13, DeletionKeeps, Zenon

-----------------------------------------------------------------------------
(* Steps of others, and all steps.                                         *)

LEMMA OutsideKeeps ==
    ASSUME CreationInv, BlueprintInv', EverGrows, UNCHANGED <<tables, history, task>>,
           firm' \in [Client -> SUBSET InstanceId], sure' \subseteq Client, reply' \in Reply
    PROVE  CreationInv'
  <1>1. TablesKept(0)
    BY SameTables
  <1>2. InstanceTypeOK'
    BY <1>1 DEF CreationInv, InstanceTypeOK, BlueprintInv, Reply, TablesKept
  <1>3. ASSUME NEW d \in Client
        PROVE  CheckFits(task[d])' /\ CreateFits(task[d])' /\ DeleteFits(task[d])'
    <2>1. \A i \in 1 .. MaxInstance : Owns(task[d], i) => i # 0
      OBVIOUS
    <2> QED  BY <1>1, <2>1, OthersKept
  <1>4. OwnersFit'
    BY DEF CreationInv, OwnersFit, Owns
  <1>5. AcknowledgedIsWhole'
    BY DEF CreationInv, AcknowledgedIsWhole, RowsOf, tables, history
  <1>6. AcceptedWasDeclared'
    <2>1. /\ made' = made
          /\ \A i \in 1 .. MaxInstance : made[i] # NoRequest => made[i].type \in AvatarType
      BY DEF CreationInv, InstanceTypeOK, Request, history
    <2> QED  BY <2>1 DEF CreationInv, AcceptedWasDeclared, EverDeclared, EverGrows
  <1> QED  BY <1>1, <1>2, <1>3, <1>4, <1>5, <1>6 DEF CreationInv, TablesKept

LEMMA DesignerKeepsCreation ==
    ASSUME CreationInv, Designer
    PROVE  CreationInv'
  <1>1. BlueprintInv'
    BY DesignerKeeps DEF CreationInv
  <1>2. EverGrows
    <2>1. CASE \E o \in AvatarType : Apply(o)
      <3>1. PICK o \in AvatarType : \E s \in Declared[o] : ever' = [ever EXCEPT ![o] = @ \cup {s}]
        BY <2>1 DEF Apply
      <3> QED  BY <3>1 DEF EverGrows, CreationInv, BlueprintInv, BlueprintTypeOK
    <2>2. CASE \E o \in AvatarType : DeleteAvatar(o)
      BY <2>2 DEF DeleteAvatar, EverGrows
    <2> QED  BY <2>1, <2>2 DEF Designer
  <1>3. sure' \subseteq Client /\ firm' \in [Client -> SUBSET InstanceId] /\ reply' \in Reply
    BY DEF Designer, CreationInv, InstanceTypeOK, NoReply, Reply
  <1>4. UNCHANGED <<tables, history, task>>
    BY DEF Designer
  <1> QED  BY <1>1, <1>2, <1>3, <1>4, OutsideKeeps

LEMMA ReconcilerKeepsCreation ==
    ASSUME CreationInv, Reconciler
    PROVE  CreationInv'
  <1>1. BlueprintInv'
    BY WorkerStepKeeps DEF CreationInv, Reconciler
  <1>2. EverGrows
    BY DEF Reconciler, WorkerStep, Adopt, Reconcile, Finalize, WriteType, WritePart, Written,
           PurgeParts, PurgeType, Release, EverGrows
  <1>3. sure' \subseteq Client /\ firm' \in [Client -> SUBSET InstanceId] /\ reply' \in Reply
    BY DEF Reconciler, CreationInv, InstanceTypeOK, NoReply, Reply
  <1>4. UNCHANGED <<tables, history, task>>
    BY DEF Reconciler
  <1> QED  BY <1>1, <1>2, <1>3, <1>4, OutsideKeeps

LEMMA CrashKeepsCreation ==
    ASSUME CreationInv, Crash
    PROVE  CreationInv'
  <1>1. BlueprintInv'
    BY CrashKeepsBlueprint DEF CreationInv
  <1>2. /\ \A c \in Client : task'[c] = Idle
        /\ task' \in [Client -> Task]
    BY IdleFacts DEF Crash
  <1>3. TablesKept(0) /\ UNCHANGED <<tables, history>> /\ ever' = ever
    BY SameTables DEF Crash
  <1>4. /\ sure' \subseteq Client /\ firm' \in [Client -> SUBSET InstanceId]
        /\ reply' \in [status : {0, 200, 201, 204, 400, 404, 409, 500}, out : SUBSET Entry]
    BY DEF Crash, NoReply
  <1>5. InstanceTypeOK'
    BY <1>1, <1>2, <1>3, <1>4 DEF InstanceTypeOK, BlueprintInv, TablesKept
  <1>6. \A c \in Client : CheckFits(task[c])' /\ CreateFits(task[c])' /\ DeleteFits(task[c])'
    BY <1>2, IdleKnowsNothing
  <1>7. OwnersFit'
    BY <1>2, IdleFacts DEF OwnersFit, Owns
  <1>8. AcknowledgedIsWhole'
    BY <1>3 DEF CreationInv, AcknowledgedIsWhole, RowsOf, tables, history
  <1>9. AcceptedWasDeclared'
    BY <1>3 DEF CreationInv, AcceptedWasDeclared, EverDeclared, history
  <1> QED  BY <1>1, <1>3, <1>5, <1>6, <1>7, <1>8, <1>9 DEF CreationInv, TablesKept

LEMMA StutterKeepsCreation ==
    ASSUME CreationInv, UNCHANGED vars
    PROVE  CreationInv'
  <1>1. /\ UNCHANGED <<tables, history, task>> /\ UNCHANGED blueprint /\ UNCHANGED faults
        /\ firm' = firm /\ sure' = sure /\ reply' = reply
    BY DEF vars
  <1>2. BlueprintInv'
    BY <1>1, HandlersKeepBlueprint DEF CreationInv
  <1>3. EverGrows
    BY <1>1 DEF EverGrows, blueprint
  <1>4. sure' \subseteq Client /\ firm' \in [Client -> SUBSET InstanceId] /\ reply' \in Reply
    BY <1>1 DEF CreationInv, InstanceTypeOK, Reply
  <1> QED  BY <1>1, <1>2, <1>3, <1>4, OutsideKeeps

LEMMA CreationStep == CreationInv /\ [Next]_vars => CreationInv'
  <1> SUFFICES ASSUME CreationInv, [Next]_vars
               PROVE  CreationInv'
    OBVIOUS
  <1>1. CASE \E c \in Client : Receive(c) \/ Reject(c)
    BY <1>1, ReceiveKeeps, RejectKeeps
  <1>2. CASE \E c \in Client : Create(c)
    BY <1>2, CheckTypeKeeps, CheckTableKeeps, CheckCustomizationsKeeps, CheckOptionKeeps,
       CreateInsertKeeps, CreateConflictKeeps, CreateChildKeeps, CreateFilledKeeps,
       CreateReplyKeeps DEF Create
  <1>3. CASE \E c \in Client : Read(c)
    BY <1>3, GetFindKeeps, ListFindKeeps, ListNextKeeps, ListReplyKeeps, BuildTableKeeps,
       BuildNextKeeps, GetReplyKeeps DEF Read
  <1>4. CASE \E c \in Client : Delete(c)
    BY <1>4, DeleteFindKeeps, DeleteTableKeeps, DeleteRemoveKeeps DEF Delete
  <1>5. CASE Designer \/ Reconciler \/ Crash \/ UNCHANGED vars
    BY <1>5, DesignerKeepsCreation, ReconcilerKeepsCreation, CrashKeepsCreation,
       StutterKeepsCreation
  <1> QED  BY <1>1, <1>2, <1>3, <1>4, <1>5 DEF Next, Step

LEMMA CreationStarts == Init => CreationInv
  <1> SUFFICES ASSUME Init
               PROVE  CreationInv
    OBVIOUS
  <1>1. BlueprintInv
    BY BlueprintStarts
  <1>2. /\ instances = {} /\ nextInst = 1 /\ details = {} /\ acked = {} /\ touched = {}
        /\ made = [i \in 1 .. MaxInstance |-> NoRequest]
        /\ firm = [c \in Client |-> {}] /\ sure = {}
        /\ task = [c \in Client |-> Idle] /\ reply = NoReply
    BY DEF Init
  <1>3. InstanceTypeOK
    BY <1>1, <1>2, IdleFacts DEF InstanceTypeOK, BlueprintInv, NoReply
  <1>4. RowsFit
    BY <1>2 DEF RowsFit
  <1>5. OwnersFit
    BY <1>2, IdleFits DEF OwnersFit
  <1>6. AcceptedWasDeclared /\ AcknowledgedIsWhole
    BY <1>2 DEF AcceptedWasDeclared, AcknowledgedIsWhole
  <1>7. \A c \in Client : CheckFits(task[c]) /\ CreateFits(task[c]) /\ DeleteFits(task[c])
    BY <1>2, IdleFits DEF TaskFits
  <1> QED  BY <1>1, <1>3, <1>4, <1>5, <1>6, <1>7 DEF CreationInv

-----------------------------------------------------------------------------
(* Theorems.                                                               *)

\* Creations and deletions keep the invariant about them, for every number
\* of clients, instances, types and parts, and for all failures and crashes.
THEOREM CreationInvariantHolds == Spec => []CreationInv
  BY CreationStarts, CreationStep, PTL DEF Spec

\* All state has its type.
THEOREM InstanceTypeCorrect == Spec => []InstanceTypeOK
  <1>1. CreationInv => InstanceTypeOK
    BY DEF CreationInv
  <1> QED  BY <1>1, CreationInvariantHolds, PTL

\* Every instance was created for a declared type with declared parts, in
\* spite of the edits between the queries of its validation
\* (validation.go:9-113).
THEOREM CreationsByTheBlueprint == Spec => []AcceptedWasDeclared
  <1>1. CreationInv => AcceptedWasDeclared
    BY DEF CreationInv
  <1> QED  BY <1>1, CreationInvariantHolds, PTL

\* An instance answered with 201 (handler.go:123) stays whole until a
\* deletion finds it.
THEOREM AcknowledgedStayWhole == Spec => []AcknowledgedIsWhole
  <1>1. CreationInv => AcknowledgedIsWhole
    BY DEF CreationInv
  <1> QED  BY <1>1, CreationInvariantHolds, PTL
=============================================================================
