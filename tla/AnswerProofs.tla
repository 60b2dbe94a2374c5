---------------------------- MODULE AnswerProofs ----------------------------
(***************************************************************************)
(* Proofs about what AvatarInstances answers: InstanceInv is inductive, so *)
(* that answers read in several statements are complete, and creations are *)
(* refused with a reason.                                                  *)
(***************************************************************************)
EXTENDS InstanceProofs

USE BlueprintAssumption, InstancesAssumption DEF BlueprintAssumption, InstancesAssumption

-----------------------------------------------------------------------------
(* What other clients know about their reads.                              *)

\* The histories only grow, and no failure is forgotten.
HistoryGrows ==
    /\ \A i \in 1 .. nextInst - 1 : made'[i] = made[i]
    /\ acked \subseteq acked' /\ touched \subseteq touched'
    /\ faults' = 0 => faults = 0

LEMMA InsertGrows ==
    ASSUME CreationInv, NEW r, InsertInstance(r)
    PROVE  \A i \in 1 .. nextInst - 1 : made'[i] = made[i]
  BY DEF InsertInstance, CreationInv, InstanceTypeOK

\* A failed statement is counted.
LEMMA CountFacts ==
    ASSUME CreationInv, NEW ok \in BOOLEAN, Statement(ok)
    PROVE  faults' = 0 => faults = 0 /\ ok
  BY StatementFacts DEF CreationInv, BlueprintInv

LEMMA HandlersGrow ==
    ASSUME CreationInv, NEW c \in Client, Receive(c) \/ Reject(c) \/ Step(c)
    PROVE  HistoryGrows
  <1>1. faults' = 0 => faults = 0
    BY HandlerFacts, CountFacts
  <1>2. CASE UNCHANGED history
    BY <1>1, <1>2 DEF HistoryGrows, history
  <1>3. CASE CreateInsert(c) \/ CreateConflict(c)
    BY <1>1, <1>3, InsertGrows DEF HistoryGrows, CreateInsert, CreateConflict
  <1>4. CASE CreateReply(c) \/ DeleteFind(c)
    BY <1>1, <1>4 DEF HistoryGrows, CreateReply, DeleteFind
  <1>5. CASE Receive(c) \/ Reject(c)
    BY <1>2, <1>5 DEF Receive, Reject
  <1>6. CASE Create(c) \/ Read(c) \/ Delete(c)
    <2>1. CASE CheckType(c) \/ CheckTable(c) \/ CheckCustomizations(c) \/ CheckOption(c)
      BY <1>2, <2>1 DEF CheckType, CheckTable, CheckCustomizations, CheckOption
    <2>2. CASE CreateChild(c) \/ CreateFilled(c)
      BY <1>2, <2>2 DEF CreateChild, CreateFilled
    <2>3. CASE Read(c)
      BY <1>2, <2>3 DEF Read, GetFind, ListFind, ListNext, ListReply, BuildTable, BuildNext,
                        GetReply
    <2>4. CASE DeleteTable(c) \/ DeleteRemove(c)
      BY <1>2, <2>4 DEF DeleteTable, DeleteRemove
    <2> QED  BY <1>3, <1>4, <1>6, <2>1, <2>2, <2>3, <2>4 DEF Create, Delete
  <1> QED  BY <1>5, <1>6 DEF Step

\* An instance that a read must show was inserted.
LEMMA DueFacts ==
    ASSUME CreationInv, NEW c \in Client, ReadFits(c), NEW i, Due(c, i)
    PROVE  /\ i \in 1 .. nextInst - 1 /\ i \in 1 .. MaxInstance /\ i \notin touched
           /\ made[i] \in Request
           /\ i \in firm[c] => i \in acked \ touched
  <1>1. CASE i \in firm[c]
    <2>1. i \in acked \ touched
      BY <1>1 DEF Due, ReadFits
    <2>2. i \in 1 .. nextInst - 1 /\ i \in 1 .. MaxInstance
      BY <2>1 DEF CreationInv, InstanceTypeOK, RowsFit, InstanceId
    <2>3. made[i] \in Request
      <3>1. made[i] # NoRequest
        BY <2>1 DEF CreationInv, AcknowledgedIsWhole
      <3>2. made \in [1 .. MaxInstance -> Request \cup {NoRequest}]
        BY DEF CreationInv, InstanceTypeOK
      <3> QED  BY <2>2, <3>1, <3>2
    <2> QED  BY <2>1, <2>2, <2>3 DEF Due
  <1>2. CASE Owns(task[c], i)
    <2>1. task[c].pc \in {"fill", "build"} /\ task[c].req.op = "create" /\ task[c].inst = i
      BY <1>2 DEF Owns
    <2>2. /\ i \in 1 .. nextInst - 1 /\ i \in 1 .. MaxInstance /\ i \notin acked
          /\ task[c].req \in Request /\ made[i] = task[c].req
      BY <2>1, OwnerFacts
    <2>3. i \notin firm[c]
      BY <2>2 DEF ReadFits
    <2> QED  BY <2>2, <2>3 DEF Due
  <1> QED  BY <1>1, <1>2 DEF Due

\* Such an instance has all its rows, once its creator has inserted them.
LEMMA DueIsWhole ==
    ASSUME CreationInv, NEW c \in Client, ReadFits(c), NEW i, Due(c, i),
           task[c].pc = "build"
    PROVE  RowsOf(i) = made[i].parts
  <1>1. CASE i \in firm[c]
    BY <1>1, DueFacts DEF CreationInv, AcknowledgedIsWhole
  <1>2. CASE Owns(task[c], i)
    <2>1. task[c].req.op = "create" /\ task[c].inst = i
      BY <1>2 DEF Owns
    <2>2. /\ made[i] = task[c].req /\ task[c].todo \subseteq task[c].req.parts
          /\ RowsOf(i) = task[c].req.parts \ task[c].todo
      BY <2>1, OwnerFacts, DueFacts
    <2>3. task[c].todo = {}
      BY <2>1, TaskFacts DEF TaskFits, CreateFits
    <2> QED  BY <2>2, <2>3
  <1> QED  BY <1>1, <1>2 DEF Due

LEMMA ExpectedFacts ==
    ASSUME CreationInv, NEW c \in Client, ReadFits(c), NEW i \in Expected(c)
    PROVE  /\ Due(c, i) /\ i \in acked \ touched /\ i \in firm[c] \ touched
           /\ [id |-> i, name |-> made[i].a] \in instances
  <1>1. Due(c, i) /\ i \in acked \ touched /\ i \in firm[c] \ touched
    BY DEF Expected, Due, ReadFits
  <1>2. [id |-> i, name |-> made[i].a] \in instances
    BY <1>1 DEF CreationInv, AcknowledgedIsWhole
  <1> QED  BY <1>1, <1>2

\* Nobody else's steps falsify what a read has seen.
LEMMA OthersReads ==
    ASSUME CreationInv, HistoryGrows, NEW c \in Client, ReadFits(c),
           task'[c] = task[c], firm'[c] = firm[c]
    PROVE  ReadFits(c)'
  <1> DEFINE t == task[c]
  <1>1. firm'[c] \subseteq acked'
    BY DEF ReadFits, HistoryGrows
  <1>2. \A i : i \in firm[c] => i \in 1 .. nextInst - 1
    BY DEF ReadFits, CreationInv, InstanceTypeOK, RowsFit, InstanceId
  <1>3. ASSUME NEW i, Due(c, i)'
        PROVE  Due(c, i) /\ made'[i] = made[i]
    <2>1. Due(c, i)
      BY <1>3 DEF Due, Owns, HistoryGrows
    <2> QED  BY <2>1, DueFacts DEF HistoryGrows
  <1>4. \A i : i \in Expected(c)' => i \in Expected(c)
    BY <1>2 DEF Expected, HistoryGrows
  <1>5. ASSUME faults' = 0, t.pc = "build", Due(c, t.inst)'
        PROVE  t.seen = {p \in made'[t.inst].parts : Kind[p] \notin t.kinds}
    BY <1>3, <1>5 DEF ReadFits, HistoryGrows
  <1>6. ASSUME faults' = 0, NEW e \in t.out, e.inst \in firm'[c] \ touched'
        PROVE  e = [inst |-> e.inst, parts |-> made'[e.inst].parts]
    <2>1. /\ e.inst \in firm[c] \ touched /\ made'[e.inst] = made[e.inst]
          /\ faults = 0
      BY <1>2, <1>6 DEF HistoryGrows
    <2> QED  BY <2>1 DEF ReadFits, Whole
  <1>7. t.pc = "build" /\ t.req.op = "get" => Expected(c)' \subseteq {t.inst}
    BY <1>4 DEF ReadFits
  <1>8. faults' = 0 /\ t.pc \in {"build", "list"} /\ t.req.op = "list" =>
          Expected(c)' \subseteq t.queue \cup {e.inst : e \in t.out}
                                 \cup (IF t.pc = "build" THEN {t.inst} ELSE {})
    BY <1>4 DEF ReadFits, HistoryGrows
  <1>9. /\ t.pc = "list" => t.req.op = "list"
        /\ t.pc = "build" => t.req.op \in {"create", "get", "list"}
    BY DEF ReadFits
  <1> QED  BY <1>1, <1>5, <1>6, <1>7, <1>8, <1>9 DEF ReadFits, Whole

-----------------------------------------------------------------------------
(* What a handler knows about its own read.                                *)

\* Handlers that read no instance have nothing to know.
LEMMA PlainReads ==
    ASSUME NEW c \in Client, task'[c].pc \notin {"build", "list"}, task'[c].out = {},
           firm'[c] \subseteq acked'
    PROVE  ReadFits(c)'
  BY DEF ReadFits

LEMMA IdleReads ==
    ASSUME NEW c \in Client, task'[c] = Idle, firm'[c] = {}
    PROVE  ReadFits(c)'
  <1>1. Idle.pc = "idle" /\ Idle.out = {}
    BY LocalFacts DEF Idle
  <1> QED  BY <1>1, PlainReads

\* Nothing has to be seen before the first table is read.
LEMMA NothingRead ==
    ASSUME CreationInv, NEW c \in Client, ReadFits(c), NEW i, Due(c, i)
    PROVE  {} = {p \in made[i].parts : Kind[p] \notin ResponseTables}
  <1>1. made[i].parts \subseteq Choice
    BY DueFacts DEF Request
  <1> QED  BY <1>1, ChoiceFacts DEF ResponseTables

\* Continuing with the local variables t.
LEMMA ContinueChanges ==
    ASSUME CreationInv, NEW c \in Client, NEW t \in Task, Continue(c, t)
    PROVE  /\ task'[c] = t /\ firm' = firm /\ sure' = sure /\ reply' = NoReply
           /\ \A d \in Client : d # c => task'[d] = task[d]
  BY ContinueFacts, MovesFacts DEF Continue

LEMMA CreateFilledReads ==
    ASSUME CreationInv, NEW c \in Client, ReadFits(c), CreateFilled(c)
    PROVE  ReadFits(c)'
  <1>1. PICK r, i : r = task[c].req /\ i = task[c].inst
    OBVIOUS
  <1>2. PICK t : t = Local("build", r, i, {}, ResponseTables, {}, {}, {})
    OBVIOUS
  <1>3. /\ Continue(c, t) /\ UNCHANGED <<blueprint, tables, history, faults>>
        /\ task[c].pc = "fill" /\ r.op = "create"
    BY <1>1, <1>2 DEF CreateFilled, At
  <1>4. /\ t.pc = "build" /\ t.req = r /\ t.inst = i /\ t.kinds = ResponseTables
        /\ t.seen = {} /\ t.out = {}
    BY <1>2, LocalFacts
  <1>5. task'[c] = t /\ firm' = firm
    BY <1>3 DEF Continue, CreationInv, InstanceTypeOK
  <1>6. UNCHANGED <<made, touched, acked>>
    BY <1>3 DEF history
  <1>7. ASSUME Due(c, i)'
        PROVE  {} = {p \in made'[i].parts : Kind[p] \notin ResponseTables}
    <2>1. Due(c, i)
      BY <1>1, <1>3, <1>5, <1>6, <1>7 DEF Due, Owns
    <2> QED  BY <1>6, <2>1, NothingRead
  <1> QED  BY <1>3, <1>4, <1>5, <1>6, <1>7 DEF ReadFits

LEMMA GetFindReads ==
    ASSUME CreationInv, NEW c \in Client, ReadFits(c), GetFind(c)
    PROVE  ReadFits(c)'
  <1>1. PICK r : r = task[c].req
    OBVIOUS
  <1>2. PICK ok \in BOOLEAN : /\ Statement(ok)
          /\ \E id \in Named(r.a, ok) :
               IF id = 0 THEN Respond(c, 404, {})
               ELSE Continue(c, Local("build", r, id, {}, ResponseTables, {}, {}, {}))
    BY <1>1 DEF GetFind
  <1>3. PICK id \in Named(r.a, ok) :
               IF id = 0 THEN Respond(c, 404, {})
               ELSE Continue(c, Local("build", r, id, {}, ResponseTables, {}, {}, {}))
    BY <1>2
  <1>4. /\ UNCHANGED <<blueprint, tables, history>> /\ task[c].pc = "target" /\ r.op = "get"
        /\ r.a \in Avatar
    BY <1>1, TaskFacts DEF GetFind, At
  <1>5. UNCHANGED <<made, touched, acked>>
    BY <1>4 DEF history
  <1>6. CASE id = 0
    <2>1. task'[c] = Idle /\ firm'[c] = {}
      BY <1>3, <1>6 DEF Respond, CreationInv, InstanceTypeOK
    <2> QED  BY <2>1, IdleReads
  <1>7. CASE id # 0
    <2>1. PICK t : t = Local("build", r, id, {}, ResponseTables, {}, {}, {})
      OBVIOUS
    <2>2. /\ t.pc = "build" /\ t.req = r /\ t.inst = id /\ t.kinds = ResponseTables
          /\ t.seen = {} /\ t.out = {}
      BY <2>1, LocalFacts
    <2>3. task'[c] = t /\ firm' = firm
      BY <1>3, <1>7, <2>1 DEF Continue, CreationInv, InstanceTypeOK
    <2>4. ASSUME Due(c, id)'
          PROVE  {} = {p \in made'[id].parts : Kind[p] \notin ResponseTables}
      <3>1. Due(c, id)
        BY <1>4, <1>5, <2>2, <2>3, <2>4 DEF Due, Owns
      <3> QED  BY <1>5, <3>1, NothingRead
    <2>5. Expected(c)' \subseteq {id}
      <3> SUFFICES ASSUME NEW i \in Expected(c)'
                   PROVE  i = id
        OBVIOUS
      <3>1. i \in Expected(c) /\ made[i].a = r.a
        BY <1>1, <1>4, <1>5, <2>2, <2>3 DEF Expected
      <3>2. [id |-> i, name |-> r.a] \in instances
        BY <3>1, ExpectedFacts
      <3>3. [id |-> id, name |-> r.a] \in instances
        BY <1>7, NamedFacts
      <3>4. [id |-> i, name |-> r.a] = [id |-> id, name |-> r.a]
        BY <3>2, <3>3 DEF CreationInv, RowsFit
      <3> QED  BY <3>4
    <2> QED  BY <1>4, <1>5, <2>2, <2>3, <2>4, <2>5 DEF ReadFits
  <1> QED  BY <1>6, <1>7

LEMMA ListFindReads ==
    ASSUME CreationInv, NEW c \in Client, ReadFits(c), ListFind(c)
    PROVE  ReadFits(c)'
  <1>1. PICK r : r = task[c].req
    OBVIOUS
  <1>2. PICK ok \in BOOLEAN : /\ Statement(ok)
          /\ Continue(c, Local("list", r, 0, {}, {}, {},
                               IF ok THEN {i.id : i \in instances} ELSE {}, {}))
    BY <1>1 DEF ListFind
  <1>3. /\ UNCHANGED <<blueprint, tables, history>> /\ r.op = "list"
    BY <1>1 DEF ListFind, At
  <1>4. UNCHANGED <<made, touched, acked>>
    BY <1>3 DEF history
  <1>5. PICK queue : queue = IF ok THEN {i.id : i \in instances} ELSE {}
    OBVIOUS
  <1>6. PICK t : t = Local("list", r, 0, {}, {}, {}, queue, {})
    OBVIOUS
  <1>7. t.pc = "list" /\ t.req = r /\ t.queue = queue /\ t.out = {}
    BY <1>6, LocalFacts
  <1>8. task'[c] = t /\ firm' = firm
    BY <1>2, <1>5, <1>6 DEF Continue, CreationInv, InstanceTypeOK
  <1>9. faults' = 0 => Expected(c)' \subseteq queue
    <2> SUFFICES ASSUME faults' = 0, NEW i \in Expected(c)'
                 PROVE  i \in queue
      OBVIOUS
    <2>1. i \in Expected(c)
      BY <1>1, <1>3, <1>4, <1>7, <1>8 DEF Expected
    <2>2. [id |-> i, name |-> made[i].a] \in instances
      BY <2>1, ExpectedFacts
    <2>3. ok
      BY <1>2, CountFacts
    <2> QED  BY <1>5, <2>2, <2>3
  <1> QED  BY <1>3, <1>4, <1>7, <1>8, <1>9 DEF ReadFits

LEMMA ListNextReads ==
    ASSUME CreationInv, NEW c \in Client, ReadFits(c), ListNext(c)
    PROVE  ReadFits(c)'
  <1>1. PICK s : s = task[c]
    OBVIOUS
  <1>2. PICK id \in s.queue :
          Continue(c, Local("build", s.req, id, {}, ResponseTables, {}, s.queue \ {id}, s.out))
    BY <1>1 DEF ListNext
  <1>3. /\ UNCHANGED <<blueprint, tables, history, faults>> /\ s.req.op = "list" /\ s.pc = "list"
    BY <1>1 DEF ListNext, At
  <1>4. UNCHANGED <<made, touched, acked>>
    BY <1>3 DEF history
  <1>5. PICK t : t = Local("build", s.req, id, {}, ResponseTables, {}, s.queue \ {id}, s.out)
    OBVIOUS
  <1>6. /\ t.pc = "build" /\ t.req = s.req /\ t.inst = id /\ t.kinds = ResponseTables
        /\ t.seen = {} /\ t.queue = s.queue \ {id} /\ t.out = s.out
    BY <1>5, LocalFacts
  <1>7. task'[c] = t /\ firm' = firm
    BY <1>2, <1>5 DEF Continue, CreationInv, InstanceTypeOK
  <1>8. ASSUME Due(c, id)'
        PROVE  {} = {p \in made'[id].parts : Kind[p] \notin ResponseTables}
    <2>1. Due(c, id)
      BY <1>3, <1>4, <1>6, <1>7, <1>8 DEF Due, Owns
    <2> QED  BY <1>4, <2>1, NothingRead
  <1>9. Expected(c)' = Expected(c)
    BY <1>1, <1>4, <1>6, <1>7 DEF Expected
  <1>10. faults' = 0 => Expected(c)' \subseteq t.queue \cup {e.inst : e \in t.out} \cup {id}
    <2>1. faults' = 0 => Expected(c) \subseteq s.queue \cup {e.inst : e \in s.out}
      BY <1>1, <1>3 DEF ReadFits
    <2> QED  BY <1>6, <1>9, <2>1
  <1>11. faults' = 0 =>
           \A e \in t.out : e.inst \in firm'[c] \ touched'
                            => e = [inst |-> e.inst, parts |-> made'[e.inst].parts]
    BY <1>1, <1>3, <1>4, <1>6, <1>7 DEF ReadFits, Whole
  <1>12. firm'[c] \subseteq acked'
    BY <1>4, <1>7 DEF ReadFits
  <1> QED  BY <1>3, <1>6, <1>7, <1>8, <1>10, <1>11, <1>12 DEF ReadFits, Whole

LEMMA BuildTableReads ==
    ASSUME CreationInv, NEW c \in Client, ReadFits(c), BuildTable(c)
    PROVE  ReadFits(c)'
  <1>1. PICK s : s = task[c]
    OBVIOUS
  <1>2. PICK k \in task[c].kinds, ok \in BOOLEAN :
          /\ Statement(ok)
          /\ Continue(c, BuildLocal(c, task[c].kinds \ {k},
                 task[c].seen \cup (IF ok THEN ChildRows(task[c].inst, k) ELSE {})))
    BY DEF BuildTable, BuildLocal
  <1>3. UNCHANGED <<blueprint, tables, history>> /\ s.pc = "build"
    BY <1>1 DEF BuildTable
  <1>4. UNCHANGED <<made, touched, acked>>
    BY <1>3 DEF history
  <1>5. PICK seen : seen = s.seen \cup (IF ok THEN ChildRows(s.inst, k) ELSE {})
    OBVIOUS
  <1>6. PICK t : t = BuildLocal(c, s.kinds \ {k}, seen)
    OBVIOUS
  <1>7. /\ t.pc = "build" /\ t.req = s.req /\ t.inst = s.inst /\ t.kinds = s.kinds \ {k}
        /\ t.seen = seen /\ t.queue = s.queue /\ t.out = s.out
    BY <1>1, <1>6, LocalFacts DEF BuildLocal
  <1>8. task'[c] = t /\ firm' = firm
    BY <1>1, <1>2, <1>5, <1>6 DEF Continue, CreationInv, InstanceTypeOK
  <1>9. faults' = 0 => faults = 0 /\ ok
    BY <1>2, CountFacts
  <1>10. ASSUME faults' = 0, Due(c, s.inst)'
         PROVE  seen = {p \in made'[s.inst].parts : Kind[p] \notin s.kinds \ {k}}
    <2>1. Due(c, s.inst)
      BY <1>1, <1>3, <1>4, <1>7, <1>8, <1>10 DEF Due, Owns
    <2>2. s.seen = {p \in made[s.inst].parts : Kind[p] \notin s.kinds}
      BY <1>1, <1>3, <1>9, <1>10, <2>1 DEF ReadFits
    <2>3. RowsOf(s.inst) = made[s.inst].parts
      BY <1>1, <1>3, <2>1, DueIsWhole
    <2>4. ChildRows(s.inst, k) = {p \in RowsOf(s.inst) : Kind[p] = k}
      BY DEF ChildRows, RowsOf
    <2>5. seen = s.seen \cup {p \in made[s.inst].parts : Kind[p] = k}
      BY <1>5, <1>9, <1>10, <2>3, <2>4
    <2> QED  BY <1>1, <1>2, <1>4, <2>2, <2>5
  <1>11. Expected(c)' = Expected(c)
    BY <1>1, <1>4, <1>7, <1>8 DEF Expected
  <1>12. /\ t.req.op = "get" => Expected(c)' \subseteq {t.inst}
         /\ faults' = 0 /\ t.req.op = "list" =>
              Expected(c)' \subseteq t.queue \cup {e.inst : e \in t.out} \cup {t.inst}
    BY <1>1, <1>3, <1>7, <1>9, <1>11 DEF ReadFits
  <1>13. faults' = 0 =>
           \A e \in t.out : e.inst \in firm'[c] \ touched'
                            => e = [inst |-> e.inst, parts |-> made'[e.inst].parts]
    BY <1>1, <1>4, <1>7, <1>8, <1>9 DEF ReadFits, Whole
  <1>14. firm'[c] \subseteq acked' /\ t.req.op \in {"create", "get", "list"}
    BY <1>1, <1>3, <1>4, <1>7, <1>8 DEF ReadFits
  <1> QED  BY <1>7, <1>8, <1>10, <1>12, <1>13, <1>14 DEF ReadFits, Whole

\* What is shown of an instance whose tables have been read is the whole of it.
LEMMA ShownWhole ==
    ASSUME CreationInv, NEW c \in Client, ReadFits(c), faults = 0, task[c].pc = "build",
           task[c].kinds = {}, NEW e \in Shown(task[c]), Due(c, e.inst),
           e.inst \in firm[c] \/ task[c].out = {}
    PROVE  e = Whole(e.inst)
  <1>1. CASE e \in task[c].out
    BY <1>1 DEF ReadFits, Due
  <1>2. CASE e = [inst |-> task[c].inst, parts |-> task[c].seen]
    <2>1. task[c].seen = made[task[c].inst].parts
      BY <1>2 DEF ReadFits
    <2> QED  BY <1>2, <2>1 DEF Whole
  <1> QED  BY <1>1, <1>2 DEF Shown

LEMMA BuildNextReads ==
    ASSUME CreationInv, NEW c \in Client, ReadFits(c), BuildNext(c)
    PROVE  ReadFits(c)'
  <1>1. PICK s, out : s = task[c] /\ out = Shown(task[c])
    OBVIOUS
  <1>2. /\ UNCHANGED <<blueprint, tables, history, faults>>
        /\ s.pc = "build" /\ s.req.op = "list" /\ s.kinds = {}
        /\ Continue(c, Local("list", s.req, 0, {}, {}, {}, s.queue, out))
    BY <1>1 DEF BuildNext, At
  <1>3. UNCHANGED <<made, touched, acked>>
    BY <1>2 DEF history
  <1>4. PICK t : t = Local("list", s.req, 0, {}, {}, {}, s.queue, out)
    OBVIOUS
  <1>5. t.pc = "list" /\ t.req = s.req /\ t.queue = s.queue /\ t.out = out
    BY <1>4, LocalFacts
  <1>6. task'[c] = t /\ firm' = firm
    BY <1>2, <1>4 DEF Continue, CreationInv, InstanceTypeOK
  <1>7. ASSUME faults' = 0, NEW e \in out, e.inst \in firm'[c] \ touched'
        PROVE  e = [inst |-> e.inst, parts |-> made'[e.inst].parts]
    <2>1. Due(c, e.inst) /\ e.inst \in firm[c] /\ faults = 0
      BY <1>2, <1>3, <1>6, <1>7 DEF Due
    <2>2. e = Whole(e.inst)
      BY <1>1, <1>2, <2>1, ShownWhole
    <2> QED  BY <1>3, <2>2 DEF Whole
  <1>8. Expected(c)' = Expected(c)
    BY <1>1, <1>3, <1>5, <1>6 DEF Expected
  <1>9. faults' = 0 => Expected(c)' \subseteq t.queue \cup {e.inst : e \in t.out}
    <2>1. faults' = 0 => Expected(c) \subseteq s.queue \cup {e.inst : e \in s.out} \cup {s.inst}
      BY <1>1, <1>2 DEF ReadFits
    <2>2. out = s.out \cup {[inst |-> s.inst, parts |-> s.seen]}
      BY <1>1 DEF Shown
    <2>3. PICK new : new = [inst |-> s.inst, parts |-> s.seen]
      OBVIOUS
    <2>4. new \in out /\ new.inst = s.inst /\ s.out \subseteq out
      BY <2>2, <2>3
    <2> QED  BY <1>5, <1>8, <2>1, <2>4
  <1>10. firm'[c] \subseteq acked'
    BY <1>3, <1>6 DEF ReadFits
  <1> QED  BY <1>2, <1>5, <1>6, <1>7, <1>9, <1>10 DEF ReadFits, Whole

\* The handler answers: it knows nothing any more, and is sure of nothing.
LEMMA RespondChanges ==
    ASSUME CreationInv, NEW c \in Client, NEW status, NEW out, Respond(c, status, out)
    PROVE  /\ task'[c] = Idle /\ firm'[c] = {} /\ sure' = sure \ {c}
           /\ reply'.status = status /\ reply'.out = out
           /\ \A d \in Client : d # c => task'[d] = task[d] /\ firm'[d] = firm[d]
  BY DEF Respond, CreationInv, InstanceTypeOK

LEMMA RespondReads ==
    ASSUME CreationInv, NEW c \in Client, NEW status, NEW out, Respond(c, status, out)
    PROVE  ReadFits(c)'
  BY RespondChanges, IdleReads

LEMMA ContinueReads ==
    ASSUME CreationInv, HistoryGrows, NEW c \in Client, ReadFits(c), NEW t, Continue(c, t),
           t.pc \notin {"build", "list"}, t.out = {}
    PROVE  ReadFits(c)'
  <1>1. task'[c] = t /\ firm' = firm
    BY DEF Continue, CreationInv, InstanceTypeOK
  <1>2. firm'[c] \subseteq acked'
    BY <1>1 DEF ReadFits, HistoryGrows
  <1> QED  BY <1>1, <1>2, PlainReads

LEMMA ReceiveReads ==
    ASSUME CreationInv, NEW c \in Client, Receive(c)
    PROVE  ReadFits(c)'
  <1>1. PICK r \in Workload[c] :
          task' = [task EXCEPT ![c] = Local(FirstStep(r.op), r, 0, r.parts, {}, {}, {}, {})]
    BY DEF Receive
  <1>2. task'[c] = Local(FirstStep(r.op), r, 0, r.parts, {}, {}, {}, {})
    BY <1>1 DEF CreationInv, InstanceTypeOK
  <1>3. task'[c].pc = FirstStep(r.op) /\ task'[c].out = {}
    BY <1>2, LocalFacts
  <1>4. task'[c].pc \notin {"build", "list"}
    BY <1>3 DEF FirstStep
  <1>5. firm'[c] \subseteq acked'
    BY DEF Receive, history, CreationInv, InstanceTypeOK
  <1> QED  BY <1>3, <1>4, <1>5, PlainReads

LEMMA ChecksReads ==
    ASSUME CreationInv, HistoryGrows, NEW c \in Client, ReadFits(c),
           CheckType(c) \/ CheckTable(c) \/ CheckCustomizations(c) \/ CheckOption(c)
    PROVE  ReadFits(c)'
  <1> DEFINE r == task[c].req
  <1>1. CASE CheckType(c)
    <2>1. \/ Continue(c, Local("check", r, 0, task[c].todo, {}, {}, {}, {}))
          \/ Respond(c, 400, {})
      BY <1>1 DEF CheckType
    <2> QED  BY <2>1, LocalFacts, ContinueReads, RespondReads
  <1>2. CASE CheckTable(c)
    <2>1. \/ \E todo : Continue(c, Local("check", r, 0, todo, {}, {}, {}, {}))
          \/ Respond(c, 400, {})
      BY <1>2 DEF CheckTable
    <2>2. ASSUME NEW todo, Continue(c, Local("check", r, 0, todo, {}, {}, {}, {}))
          PROVE  ReadFits(c)'
      BY <2>2, LocalFacts, ContinueReads
    <2> QED  BY <2>1, <2>2, RespondReads
  <1>3. CASE CheckCustomizations(c)
    <2>1. \E seen : Continue(c, Local("options", r, 0, task[c].todo, {}, seen, {}, {}))
      BY <1>3 DEF CheckCustomizations
    <2> QED  BY <2>1, LocalFacts, ContinueReads
  <1>4. CASE CheckOption(c)
    <2>1. \/ \E todo : Continue(c, Local("options", r, 0, todo, {}, task[c].seen, {}, {}))
          \/ Respond(c, 400, {})
      BY <1>4 DEF CheckOption
    <2>2. ASSUME NEW todo, Continue(c, Local("options", r, 0, todo, {}, task[c].seen, {}, {}))
          PROVE  ReadFits(c)'
      BY <2>2, LocalFacts, ContinueReads
    <2> QED  BY <2>1, <2>2, RespondReads
  <1> QED  BY <1>1, <1>2, <1>3, <1>4

LEMMA RowsReads ==
    ASSUME CreationInv, HistoryGrows, NEW c \in Client, ReadFits(c),
           \/ CreateInsert(c) \/ CreateConflict(c) \/ CreateChild(c) \/ CreateReply(c)
           \/ Delete(c)
    PROVE  ReadFits(c)'
  <1> DEFINE r == task[c].req
  <1>1. CASE CreateInsert(c)
    <2>1. Continue(c, Local("fill", r, nextInst, r.parts, {}, {}, {}, {}))
      BY <1>1 DEF CreateInsert
    <2> QED  BY <2>1, LocalFacts, ContinueReads
  <1>2. CASE CreateConflict(c)
    BY <1>2, RespondReads DEF CreateConflict
  <1>3. CASE CreateChild(c)
    <2>1. \/ \E todo : Continue(c, Local("fill", r, task[c].inst, todo, {}, {}, {}, {}))
          \/ Respond(c, 500, {})
      BY <1>3 DEF CreateChild
    <2> QED  BY <2>1, LocalFacts, ContinueReads, RespondReads
  <1>4. CASE CreateReply(c)
    BY <1>4, RespondReads DEF CreateReply
  <1>5. CASE DeleteFind(c)
    <2>1. \/ \E id : Continue(c, Local("purge", r, id, {}, ChildTables, {}, {}, {}))
          \/ Respond(c, 404, {})
      BY <1>5 DEF DeleteFind
    <2> QED  BY <2>1, LocalFacts, ContinueReads, RespondReads
  <1>6. CASE DeleteTable(c)
    <2>1. \E kinds : Continue(c, Local("purge", r, task[c].inst, {}, kinds, {}, {}, {}))
      BY <1>6 DEF DeleteTable
    <2> QED  BY <2>1, LocalFacts, ContinueReads
  <1>7. CASE DeleteRemove(c)
    BY <1>7, RespondReads DEF DeleteRemove
  <1> QED  BY <1>1, <1>2, <1>3, <1>4, <1>5, <1>6, <1>7 DEF Delete

LEMMA HandlerReads ==
    ASSUME CreationInv, NEW c \in Client, ReadFits(c), Receive(c) \/ Reject(c) \/ Step(c)
    PROVE  ReadFits(c)'
  <1>1. HistoryGrows
    BY HandlersGrow
  <1>2. CASE Receive(c) \/ Reject(c)
    BY <1>2, ReceiveReads, RespondReads DEF Reject
  <1>3. CASE Create(c)
    BY <1>1, <1>3, ChecksReads, RowsReads, CreateFilledReads DEF Create
  <1>4. CASE Read(c)
    BY <1>4, GetFindReads, ListFindReads, ListNextReads, BuildTableReads, BuildNextReads,
       RespondReads DEF Read, ListReply, GetReply
  <1>5. CASE Delete(c)
    BY <1>1, <1>5, RowsReads
  <1> QED  BY <1>2, <1>3, <1>4, <1>5 DEF Step

\* A handler's step leaves the variables of the others alone.
LEMMA HandlerLeaves ==
    ASSUME CreationInv, NEW c \in Client, Receive(c) \/ Reject(c) \/ Step(c),
           NEW d \in Client, d # c
    PROVE  task'[d] = task[d] /\ firm'[d] = firm[d] /\ (d \in sure' => d \in sure)
  <1>1. CASE Receive(c)
    BY <1>1 DEF Receive, CreationInv, InstanceTypeOK
  <1>2. CASE \E t : Continue(c, t)
    BY <1>2 DEF Continue, CreationInv, InstanceTypeOK
  <1>3. CASE \E status, out : Respond(c, status, out)
    BY <1>3, RespondChanges
  <1>4. CASE Reject(c) \/ CreateConflict(c) \/ DeleteRemove(c)
    <2>1. Respond(c, 500, {}) \/ Respond(c, 409, {}) \/ Respond(c, 204, {})
      BY <1>4 DEF Reject, CreateConflict, DeleteRemove
    <2> QED  BY <1>3, <2>1
  <1>5. CASE ListReply(c) \/ GetReply(c) \/ CreateReply(c)
    BY <1>3, <1>5 DEF ListReply, GetReply, CreateReply
  <1>6. CASE CheckCustomizations(c) \/ CreateInsert(c) \/ CreateFilled(c) \/ ListFind(c)
             \/ ListNext(c) \/ BuildTable(c) \/ BuildNext(c) \/ DeleteTable(c)
    BY <1>2, <1>6 DEF CheckCustomizations, CreateInsert, CreateFilled, ListFind, ListNext,
                      BuildTable, BuildNext, DeleteTable
  <1>7. CASE CheckType(c)
    BY <1>2, <1>3, <1>7 DEF CheckType
  <1>8. CASE CheckTable(c)
    BY <1>2, <1>3, <1>8 DEF CheckTable
  <1>9. CASE CheckOption(c)
    BY <1>2, <1>3, <1>9 DEF CheckOption
  <1>10. CASE CreateChild(c)
    BY <1>2, <1>3, <1>10 DEF CreateChild
  <1>11. CASE GetFind(c)
    BY <1>2, <1>3, <1>11 DEF GetFind
  <1>12. CASE DeleteFind(c)
    BY <1>2, <1>3, <1>12 DEF DeleteFind
  <1> QED  BY <1>1, <1>4, <1>5, <1>6, <1>7, <1>8, <1>9, <1>10, <1>11, <1>12
           DEF Step, Create, Read, Delete

-----------------------------------------------------------------------------
(* What a creation is sure of.                                             *)

\* The rows of a type that is not deleted stay.
RowsStay(o) ==
    spec[o].life = "live" =>
        /\ spec'[o].life = "live"
        /\ o \in types => o \in types'
        /\ \A p \in Part : rows[o][p] > 0 => rows'[o][p] > 0

LEMMA WorkerLeavesRows ==
    ASSUME BlueprintInv, WorkerStep, NEW o \in AvatarType
    PROVE  RowsStay(o)
  <1>1. /\ worker.pc \in {"type", "parts", "purge", "release"} => worker.type \in AvatarType
        /\ worker.pc \in {"purge", "release"} => spec[worker.type].life = "deleted"
        /\ worker.todo \subseteq Part
    BY WorkerFacts DEF BlueprintInv, WorkerFits
  <1>2. CASE \E q \in AvatarType : Adopt(q)
    <2>1. PICK q \in AvatarType : Adopt(q)
      BY <1>2
    <2>2. SetSpec(q, "live", spec[q].parts) /\ UNCHANGED <<types, rows>>
      BY <2>1 DEF Adopt
    <2>3. spec'[o].life = "live" \/ spec'[o] = spec[o]
      BY <2>2, SetSpecFacts, ResourceFacts DEF BlueprintInv, Life
    <2> QED  BY <2>2, <2>3 DEF RowsStay
  <1>3. CASE \E q \in AvatarType : Reconcile(q) \/ Finalize(q)
    BY <1>3 DEF Reconcile, Finalize, RowsStay
  <1>4. CASE WriteType \/ Written
    BY <1>4 DEF WriteType, Written, RowsStay
  <1>5. CASE WritePart
    <2>1. PICK p \in NextParts(worker.todo), ok \in BOOLEAN :
            IF ok THEN Adds(worker.type, p) ELSE rows' = rows
      BY <1>5 DEF WritePart, Adds
    <2>2. p \in Part /\ worker.type \in AvatarType
      BY <1>1, <1>5 DEF NextParts, Ready, WritePart
    <2>3. \A x \in Part : rows[o][x] > 0 => rows'[o][x] > 0
      BY <2>1, <2>2, RowAdded
    <2> QED  BY <1>5, <2>3 DEF WritePart, RowsStay
  <1>6. CASE PurgeParts
    <2>1. PICK k \in worker.kinds, ok \in BOOLEAN :
            rows' = IF ok THEN [rows EXCEPT ![worker.type] = Purged(@, k)] ELSE rows
      BY <1>6 DEF PurgeParts
    <2>2. spec[o].life = "live" => o # worker.type
      BY <1>1, <1>6 DEF PurgeParts
    <2>3. spec[o].life = "live" => rows'[o] = rows[o]
      BY <2>1, <2>2 DEF BlueprintInv, BlueprintTypeOK
    <2> QED  BY <1>6, <2>3 DEF PurgeParts, RowsStay
  <1>7. CASE PurgeType
    <2>1. spec[o].life = "live" => o # worker.type
      BY <1>1, <1>7 DEF PurgeType
    <2>2. types \ {worker.type} \subseteq types' /\ UNCHANGED <<spec, rows>>
      BY <1>7 DEF PurgeType
    <2> QED  BY <2>1, <2>2 DEF RowsStay
  <1>8. CASE Release
    <2>1. spec[o].life = "live" => o # worker.type
      BY <1>1, <1>8 DEF Release
    <2>2. /\ UNCHANGED <<types, rows>>
          /\ SetSpec(worker.type, "absent", {}) \/ spec' = spec
          /\ worker.type \in AvatarType
      BY <1>1, <1>8 DEF Release
    <2>3. spec[o].life = "live" => spec'[o] = spec[o]
      BY <2>1, <2>2 DEF SetSpec, BlueprintInv, BlueprintTypeOK
    <2> QED  BY <2>2, <2>3 DEF RowsStay
  <1> QED  BY <1>2, <1>3, <1>4, <1>5, <1>6, <1>7, <1>8 DEF WorkerStep

\* Needs of a request are parts.
LEMMA NeedsFacts ==
    ASSUME NEW parts \in SUBSET Choice
    PROVE  /\ Needs(parts) \subseteq Part /\ parts \subseteq Needs(parts)
           /\ \A p \in parts : Base[p] \in Needs(parts)
  BY ChoiceFacts DEF Needs

\* Others' steps, and changes of blueprints, leave a creation what it is sure of.
LEMMA SureStays ==
    ASSUME CreationInv, NEW c \in Client, SureFits(c), task'[c] = task[c],
           c \in sure' => c \in sure, faults' = 0 => faults = 0,
           c \in sure' /\ task[c].pc \in {"type", "check", "options"}
              => RowsStay(task[c].req.type)
    PROVE  SureFits(c)'
  <1> DEFINE t == task[c]
  <1>1. t.pc = "idle" => c \notin sure'
    BY DEF SureFits
  <1>2. ASSUME c \in sure', t.pc \in {"type", "check", "options"}
        PROVE  /\ t.req.op = "create" /\ spec'[t.req.type].life = "live"
               /\ t.req.type \in types' /\ \A p \in Needs(t.req.parts) : rows'[t.req.type][p] > 0
               /\ t.pc = "options" =>
                    \A p \in t.todo : Kind[p] = "option" /\ (faults' = 0 => Base[p] \in t.seen)
    <2>1. /\ t.req.op = "create" /\ spec[t.req.type].life = "live"
          /\ Has(t.req.type, Needs(t.req.parts))
          /\ t.pc = "options" =>
               \A p \in t.todo : Kind[p] = "option" /\ (faults = 0 => Base[p] \in t.seen)
      BY <1>2 DEF SureFits
    <2>2. RowsStay(t.req.type)
      BY <1>2
    <2>3. Needs(t.req.parts) \subseteq Part
      BY <1>2, TaskFacts, NeedsFacts
    <2> QED  BY <2>1, <2>2, <2>3 DEF RowsStay, Has
  <1> QED  BY <1>1, <1>2 DEF SureFits, Has

\* Nothing is required of handlers that answer or are past the checks.
LEMMA NothingSure ==
    ASSUME NEW c \in Client,
           c \notin sure' \/ task'[c].pc \notin {"idle", "type", "check", "options"}
    PROVE  SureFits(c)'
  BY DEF SureFits

LEMMA RespondSure ==
    ASSUME CreationInv, NEW c \in Client, NEW status, NEW out, Respond(c, status, out)
    PROVE  SureFits(c)'
  BY RespondChanges, NothingSure

LEMMA ContinueSure ==
    ASSUME CreationInv, NEW c \in Client, NEW t, Continue(c, t),
           t.pc \notin {"idle", "type", "check", "options"}
    PROVE  SureFits(c)'
  <1>1. task'[c] = t
    BY DEF Continue, CreationInv, InstanceTypeOK
  <1> QED  BY <1>1, NothingSure

\* What was written when the request came is there.
LEMMA ReceiveSure ==
    ASSUME CreationInv, NEW c \in Client, SureFits(c), Receive(c)
    PROVE  SureFits(c)'
  <1>1. PICK r \in Workload[c] :
          /\ task' = [task EXCEPT ![c] = Local(FirstStep(r.op), r, 0, r.parts, {}, {}, {}, {})]
          /\ sure' = IF r.op = "create" /\ \E s \in written[r.type] : Needs(r.parts) \subseteq s
                     THEN sure \cup {c} ELSE sure
    BY DEF Receive
  <1>2. task'[c] = Local(FirstStep(r.op), r, 0, r.parts, {}, {}, {}, {})
    BY <1>1 DEF CreationInv, InstanceTypeOK
  <1>3. task'[c].pc = FirstStep(r.op) /\ task'[c].req = r
    BY <1>2, LocalFacts
  <1>4. task'[c].pc \notin {"idle", "check", "options"}
    BY <1>3 DEF FirstStep
  <1>5. c \notin sure /\ UNCHANGED <<spec, types, rows>>
    BY DEF Receive, SureFits, blueprint
  <1>6. r \in Request /\ r.type \in AvatarType
    BY DEF Request
  <1>7. ASSUME c \in sure'
        PROVE  r.op = "create" /\ spec[r.type].life = "live" /\ Has(r.type, Needs(r.parts))
    <2>1. r.op = "create" /\ \E s \in written[r.type] : Needs(r.parts) \subseteq s
      BY <1>1, <1>5, <1>7
    <2>2. PICK s \in written[r.type] : Needs(r.parts) \subseteq s
      BY <2>1
    <2>3. spec[r.type].life = "live" /\ Has(r.type, s)
      BY <1>6, <2>2 DEF CreationInv, BlueprintInv, WrittenFits
    <2> QED  BY <2>1, <2>2, <2>3 DEF Has
  <1> QED  BY <1>3, <1>4, <1>5, <1>7 DEF SureFits, Has

\* The next check: the request and the blueprint are the same.
LEMMA CheckSure ==
    ASSUME CreationInv, NEW c \in Client, SureFits(c),
           task[c].pc \in {"type", "check", "options"},
           UNCHANGED blueprint, NEW t, Continue(c, t), t.req = task[c].req,
           t.pc \in {"check", "options"},
           c \in sure /\ t.pc = "options" =>
             \A p \in t.todo : Kind[p] = "option" /\ (faults' = 0 => Base[p] \in t.seen)
    PROVE  SureFits(c)'
  <1>1. task'[c] = t /\ sure' = sure
    BY DEF Continue, CreationInv, InstanceTypeOK
  <1>2. UNCHANGED <<spec, types, rows>>
    BY DEF blueprint
  <1> QED  BY <1>1, <1>2 DEF SureFits, Has

LEMMA CheckTypeSure ==
    ASSUME CreationInv, NEW c \in Client, SureFits(c), CheckType(c)
    PROVE  SureFits(c)'
  <1>1. PICK r, todo : r = task[c].req /\ todo = task[c].todo
    OBVIOUS
  <1>2. PICK t : t = Local("check", r, 0, todo, {}, {}, {}, {})
    OBVIOUS
  <1>3. t.pc = "check" /\ t.req = r
    BY <1>2, LocalFacts
  <1>4. /\ Continue(c, t) \/ Respond(c, 400, {})
        /\ UNCHANGED blueprint /\ task[c].pc = "type"
    BY <1>1, <1>2 DEF CheckType, At
  <1> QED  BY <1>1, <1>3, <1>4, CheckSure, RespondSure

LEMMA CheckTableSure ==
    ASSUME CreationInv, NEW c \in Client, SureFits(c), CheckTable(c)
    PROVE  SureFits(c)'
  <1>1. PICK r : r = task[c].req
    OBVIOUS
  <1>2. /\ (\E todo : Continue(c, Local("check", r, 0, todo, {}, {}, {}, {})))
           \/ Respond(c, 400, {})
        /\ UNCHANGED blueprint /\ task[c].pc = "check"
    BY <1>1 DEF CheckTable, At
  <1>3. ASSUME NEW todo, Continue(c, Local("check", r, 0, todo, {}, {}, {}, {}))
        PROVE  SureFits(c)'
    <2>1. PICK t : t = Local("check", r, 0, todo, {}, {}, {}, {})
      OBVIOUS
    <2>2. t.pc = "check" /\ t.req = r
      BY <2>1, LocalFacts
    <2> QED  BY <1>1, <1>2, <1>3, <2>1, <2>2, CheckSure
  <1> QED  BY <1>2, <1>3, RespondSure

\* The customizations that are needed are found, unless the statement fails.
LEMMA CustomizationsFound ==
    ASSUME CreationInv, NEW c \in Client, SureFits(c), c \in sure,
           task[c].pc = "check", Plain(task[c].todo) = {}, NEW p \in task[c].todo
    PROVE  Kind[p] = "option" /\ Base[p] \in Found(task[c].req.type, "customization", TRUE)
  <1>1. p \in Choice /\ p \in task[c].req.parts /\ task[c].req.parts \in SUBSET Choice
    BY TaskFacts DEF TaskFits, CheckFits
  <1>2. Kind[p] = "option" /\ p \in Part
    BY <1>1, ChoiceFacts DEF Plain
  <1>3. Kind[Base[p]] = "customization" /\ Base[p] \in Part
    BY <1>2
  <1>4. Base[p] \in Needs(task[c].req.parts)
    BY <1>1, NeedsFacts
  <1>5. rows[task[c].req.type][Base[p]] > 0
    BY <1>4 DEF SureFits, Has
  <1> QED  BY <1>2, <1>3, <1>5 DEF Found, Valid

LEMMA CheckCustomizationsSure ==
    ASSUME CreationInv, NEW c \in Client, SureFits(c), CheckCustomizations(c)
    PROVE  SureFits(c)'
  <1>1. PICK s : s = task[c]
    OBVIOUS
  <1>2. PICK ok \in BOOLEAN :
          /\ Statement(ok)
          /\ Continue(c, Local("options", s.req, 0, s.todo, {},
                               Found(s.req.type, "customization", ok), {}, {}))
    BY <1>1 DEF CheckCustomizations
  <1>3. UNCHANGED blueprint /\ s.pc = "check" /\ Plain(s.todo) = {}
    BY <1>1 DEF CheckCustomizations, At
  <1>4. PICK seen : seen = Found(s.req.type, "customization", ok)
    OBVIOUS
  <1>5. PICK t : t = Local("options", s.req, 0, s.todo, {}, seen, {}, {})
    OBVIOUS
  <1>6. t.pc = "options" /\ t.req = s.req /\ t.todo = s.todo /\ t.seen = seen
    BY <1>5, LocalFacts
  <1>7. faults' = 0 => ok
    BY <1>2, CountFacts
  <1>8. ASSUME c \in sure, NEW p \in s.todo
        PROVE  Kind[p] = "option" /\ (faults' = 0 => Base[p] \in seen)
    <2>1. Kind[p] = "option" /\ Base[p] \in Found(s.req.type, "customization", TRUE)
      BY <1>1, <1>3, <1>8, CustomizationsFound
    <2>2. ok => seen = Found(s.req.type, "customization", TRUE)
      BY <1>4
    <2> QED  BY <1>7, <2>1, <2>2
  <1>9. Continue(c, t)
    BY <1>2, <1>4, <1>5
  <1> QED  BY <1>1, <1>3, <1>6, <1>8, <1>9, CheckSure

LEMMA CheckOptionSure ==
    ASSUME CreationInv, NEW c \in Client, SureFits(c), CheckOption(c)
    PROVE  SureFits(c)'
  <1>1. PICK s : s = task[c]
    OBVIOUS
  <1>2. PICK p \in task[c].todo, ok \in BOOLEAN :
          /\ Statement(ok)
          /\ IF OptionKnown(task[c], p, ok)
             THEN Continue(c, Local("options", task[c].req, 0, task[c].todo \ {p}, {},
                                    task[c].seen, {}, {}))
             ELSE Respond(c, 400, {})
    BY DEF CheckOption
  <1>3. UNCHANGED blueprint /\ s.pc = "options"
    BY <1>1 DEF CheckOption, At
  <1>4. PICK t : t = Local("options", s.req, 0, s.todo \ {p}, {}, s.seen, {}, {})
    OBVIOUS
  <1>5. t.pc = "options" /\ t.req = s.req /\ t.todo = s.todo \ {p} /\ t.seen = s.seen
    BY <1>4, LocalFacts
  <1>6. faults' = 0 => faults = 0
    BY <1>2, CountFacts
  <1>7. c \in sure => \A q \in t.todo : Kind[q] = "option" /\ (faults' = 0 => Base[q] \in t.seen)
    BY <1>1, <1>3, <1>5, <1>6 DEF SureFits
  <1>8. CASE Continue(c, t)
    BY <1>1, <1>3, <1>5, <1>7, <1>8, CheckSure
  <1>9. CASE Respond(c, 400, {})
    BY <1>9, RespondSure
  <1> QED  BY <1>1, <1>2, <1>4, <1>8, <1>9

LEMMA RowsSure ==
    ASSUME CreationInv, NEW c \in Client,
           \/ CreateInsert(c) \/ CreateConflict(c) \/ CreateChild(c) \/ CreateFilled(c)
           \/ CreateReply(c) \/ Delete(c)
    PROVE  SureFits(c)'
  <1> DEFINE r == task[c].req
  <1>1. CASE CreateInsert(c)
    <2>1. Continue(c, Local("fill", r, nextInst, r.parts, {}, {}, {}, {}))
      BY <1>1 DEF CreateInsert
    <2> QED  BY <2>1, LocalFacts, ContinueSure
  <1>2. CASE CreateConflict(c) \/ CreateReply(c) \/ DeleteRemove(c)
    <2>1. Respond(c, 409, {}) \/ Respond(c, 201, Shown(task[c])) \/ Respond(c, 204, {})
      BY <1>2 DEF CreateConflict, CreateReply, DeleteRemove
    <2> QED  BY <2>1, RespondSure
  <1>3. CASE CreateChild(c)
    <2>1. \/ \E todo : Continue(c, Local("fill", r, task[c].inst, todo, {}, {}, {}, {}))
          \/ Respond(c, 500, {})
      BY <1>3 DEF CreateChild
    <2> QED  BY <2>1, LocalFacts, ContinueSure, RespondSure
  <1>4. CASE CreateFilled(c)
    <2>1. Continue(c, Local("build", r, task[c].inst, {}, ResponseTables, {}, {}, {}))
      BY <1>4 DEF CreateFilled
    <2> QED  BY <2>1, LocalFacts, ContinueSure
  <1>5. CASE DeleteFind(c)
    <2>1. \/ \E id : Continue(c, Local("purge", r, id, {}, ChildTables, {}, {}, {}))
          \/ Respond(c, 404, {})
      BY <1>5 DEF DeleteFind
    <2> QED  BY <2>1, LocalFacts, ContinueSure, RespondSure
  <1>6. CASE DeleteTable(c)
    <2>1. \E kinds : Continue(c, Local("purge", r, task[c].inst, {}, kinds, {}, {}, {}))
      BY <1>6 DEF DeleteTable
    <2> QED  BY <2>1, LocalFacts, ContinueSure
  <1> QED  BY <1>1, <1>2, <1>3, <1>4, <1>5, <1>6 DEF Delete

LEMMA ReadSure ==
    ASSUME CreationInv, NEW c \in Client, Read(c)
    PROVE  SureFits(c)'
  <1> DEFINE r == task[c].req
  <1>1. CASE GetFind(c)
    <2>1. \/ \E id : Continue(c, Local("build", r, id, {}, ResponseTables, {}, {}, {}))
          \/ Respond(c, 404, {})
      BY <1>1 DEF GetFind
    <2> QED  BY <2>1, LocalFacts, ContinueSure, RespondSure
  <1>2. CASE ListFind(c)
    <2>1. \E queue : Continue(c, Local("list", r, 0, {}, {}, {}, queue, {}))
      BY <1>2 DEF ListFind
    <2> QED  BY <2>1, LocalFacts, ContinueSure
  <1>3. CASE ListNext(c)
    <2>1. \E id, queue : Continue(c, Local("build", r, id, {}, ResponseTables, {}, queue,
                                           task[c].out))
      BY <1>3 DEF ListNext
    <2> QED  BY <2>1, LocalFacts, ContinueSure
  <1>4. CASE BuildTable(c)
    <2>1. \E kinds, seen : Continue(c, Local("build", r, task[c].inst, {}, kinds, seen,
                                             task[c].queue, task[c].out))
      BY <1>4 DEF BuildTable
    <2> QED  BY <2>1, LocalFacts, ContinueSure
  <1>5. CASE BuildNext(c)
    <2>1. Continue(c, Local("list", r, 0, {}, {}, {}, task[c].queue, Shown(task[c])))
      BY <1>5 DEF BuildNext
    <2> QED  BY <2>1, LocalFacts, ContinueSure
  <1>6. CASE ListReply(c) \/ GetReply(c)
    BY <1>6, RespondSure DEF ListReply, GetReply
  <1> QED  BY <1>1, <1>2, <1>3, <1>4, <1>5, <1>6 DEF Read

LEMMA HandlerSure ==
    ASSUME CreationInv, NEW c \in Client, SureFits(c), Receive(c) \/ Reject(c) \/ Step(c)
    PROVE  SureFits(c)'
  <1>1. CASE Receive(c) \/ Reject(c)
    BY <1>1, ReceiveSure, RespondSure DEF Reject
  <1>2. CASE Create(c)
    BY <1>2, CheckTypeSure, CheckTableSure, CheckCustomizationsSure, CheckOptionSure, RowsSure
       DEF Create
  <1>3. CASE Read(c) \/ Delete(c)
    BY <1>3, ReadSure, RowsSure
  <1> QED  BY <1>1, <1>2, <1>3 DEF Step

-----------------------------------------------------------------------------
(* Steps of others, and all steps.                                         *)

LEMMA DesignerSure ==
    ASSUME CreationInv, NEW c \in Client, SureFits(c), Designer
    PROVE  SureFits(c)'
  <1>1. task' = task
    BY DEF Designer
  <1>2. CASE \E o \in AvatarType : Apply(o) /\ sure' = sure
    <2>1. PICK o \in AvatarType : Apply(o) /\ sure' = sure
      BY <1>2
    <2>2. PICK s \in Declared[o] :
            SetSpec(o, IF spec[o].life = "absent" THEN "new" ELSE spec[o].life, s)
      BY <2>1 DEF Apply
    <2>3. UNCHANGED <<types, rows, faults>>
      BY <2>1 DEF Apply
    <2>4. \A q \in AvatarType : spec[q].life = "live" => spec'[q].life = "live"
      BY <2>2 DEF SetSpec, CreationInv, BlueprintInv, BlueprintTypeOK
    <2>5. c \in sure /\ task[c].pc \in {"type", "check", "options"}
             => RowsStay(task[c].req.type)
      BY <2>3, <2>4, TaskFacts DEF RowsStay
    <2> QED  BY <1>1, <2>1, <2>3, <2>5, SureStays
  <1>3. CASE \E o \in AvatarType :
               DeleteAvatar(o) /\ sure' = {d \in sure : task[d].req.type # o}
    <2>1. PICK o \in AvatarType :
            DeleteAvatar(o) /\ sure' = {d \in sure : task[d].req.type # o}
      BY <1>3
    <2>2. UNCHANGED <<types, rows, faults>>
      BY <2>1 DEF DeleteAvatar
    <2>3. \A q \in AvatarType : q # o => spec'[q] = spec[q]
      BY <2>1 DEF DeleteAvatar, SetSpec, CreationInv, BlueprintInv, BlueprintTypeOK
    <2>4. c \in sure' /\ task[c].pc \in {"type", "check", "options"}
             => RowsStay(task[c].req.type)
      BY <2>1, <2>2, <2>3, TaskFacts DEF RowsStay
    <2> QED  BY <1>1, <2>1, <2>2, <2>4, SureStays
  <1> QED  BY <1>2, <1>3 DEF Designer

LEMMA ReconcilerSure ==
    ASSUME CreationInv, NEW c \in Client, SureFits(c), Reconciler
    PROVE  SureFits(c)'
  <1>1. task' = task /\ sure' = sure
    BY DEF Reconciler
  <1>2. c \in sure /\ task[c].pc \in {"type", "check", "options"} => RowsStay(task[c].req.type)
    BY TaskFacts, WorkerLeavesRows DEF Reconciler, CreationInv
  <1>3. UNCHANGED faults \/ \E ok \in BOOLEAN : Statement(ok)
    BY DEF Reconciler, WorkerStep, Adopt, Reconcile, Finalize, WriteType, WritePart, Written,
           PurgeParts, PurgeType, Release
  <1>4. faults' = 0 => faults = 0
    BY <1>3, CountFacts
  <1> QED  BY <1>1, <1>2, <1>4, SureStays

\* Designer, Reconciler and stuttering change nothing that a read depends on.
LEMMA OutsideReads ==
    ASSUME CreationInv, NEW c \in Client, ReadFits(c), UNCHANGED <<history, task, firm>>,
           faults' = 0 => faults = 0
    PROVE  ReadFits(c)'
  <1>1. HistoryGrows
    BY DEF HistoryGrows, history
  <1> QED  BY <1>1, OthersReads

LEMMA InstanceStep == InstanceInv /\ [Next]_vars => InstanceInv'
  <1> SUFFICES ASSUME InstanceInv, [Next]_vars
               PROVE  InstanceInv'
    OBVIOUS
  <1>1. CreationInv /\ CreationInv'
    BY CreationStep DEF InstanceInv
  <1>2. \A c \in Client : ReadFits(c) /\ SureFits(c)
    BY DEF InstanceInv
  <1>3. ASSUME NEW c \in Client, NEW d \in Client, Receive(d) \/ Reject(d) \/ Step(d)
        PROVE  ReadFits(c)' /\ SureFits(c)'
    <2>1. CASE c = d
      BY <1>1, <1>2, <1>3, <2>1, HandlerReads, HandlerSure
    <2>2. CASE c # d
      <3>1. HistoryGrows
        BY <1>1, <1>3, HandlersGrow
      <3>2. task'[c] = task[c] /\ firm'[c] = firm[c] /\ (c \in sure' => c \in sure)
        BY <1>1, <1>3, <2>2, HandlerLeaves
      <3>3. RowsStay(task[c].req.type)
        BY <1>3, HandlerFacts DEF RowsStay, blueprint
      <3>4. faults' = 0 => faults = 0
        BY <3>1 DEF HistoryGrows
      <3> QED  BY <1>1, <1>2, <3>1, <3>2, <3>3, <3>4, OthersReads, SureStays
    <2> QED  BY <2>1, <2>2
  <1>4. ASSUME NEW c \in Client, Designer
        PROVE  ReadFits(c)' /\ SureFits(c)'
    <2>1. UNCHANGED <<history, task, firm>> /\ faults' = faults
      BY <1>4 DEF Designer, Apply, DeleteAvatar
    <2> QED  BY <1>1, <1>2, <1>4, <2>1, OutsideReads, DesignerSure
  <1>5. ASSUME NEW c \in Client, Reconciler
        PROVE  ReadFits(c)' /\ SureFits(c)'
    <2>1. UNCHANGED <<history, task, firm>>
      BY <1>5 DEF Reconciler
    <2>2. UNCHANGED faults \/ \E ok \in BOOLEAN : Statement(ok)
      BY <1>5 DEF Reconciler, WorkerStep, Adopt, Reconcile, Finalize, WriteType, WritePart,
                  Written, PurgeParts, PurgeType, Release
    <2>3. faults' = 0 => faults = 0
      BY <1>1, <2>2, CountFacts
    <2> QED  BY <1>1, <1>2, <1>5, <2>1, <2>3, OutsideReads, ReconcilerSure
  <1>6. ASSUME NEW c \in Client, Crash
        PROVE  ReadFits(c)' /\ SureFits(c)'
    <2>1. task'[c] = Idle /\ firm'[c] = {} /\ sure' = {}
      BY <1>6 DEF Crash
    <2> QED  BY <2>1, IdleReads, NothingSure
  <1>7. ASSUME NEW c \in Client, UNCHANGED vars
        PROVE  ReadFits(c)' /\ SureFits(c)'
    <2>1. UNCHANGED <<history, task, firm>> /\ faults' = faults /\ sure' = sure
          /\ UNCHANGED <<spec, types, rows>>
      BY <1>7 DEF vars, blueprint
    <2>2. RowsStay(task[c].req.type)
      BY <2>1 DEF RowsStay
    <2> QED  BY <1>1, <1>2, <2>1, <2>2, OutsideReads, SureStays
  <1>8. \A c \in Client : ReadFits(c)' /\ SureFits(c)'
    BY <1>3, <1>4, <1>5, <1>6, <1>7 DEF Next
  <1> QED  BY <1>1, <1>8 DEF InstanceInv

LEMMA InstanceStarts == Init => InstanceInv
  <1> SUFFICES ASSUME Init
               PROVE  InstanceInv
    OBVIOUS
  <1>1. CreationInv
    BY CreationStarts
  <1>2. ASSUME NEW c \in Client
        PROVE  ReadFits(c) /\ SureFits(c)
    <2>1. task[c] = Idle /\ firm[c] = {} /\ sure = {}
      BY DEF Init
    <2>2. Idle.pc = "idle" /\ Idle.out = {}
      BY LocalFacts DEF Idle
    <2> QED  BY <2>1, <2>2 DEF ReadFits, SureFits
  <1> QED  BY <1>1, <1>2 DEF InstanceInv

-----------------------------------------------------------------------------
(* Answers.                                                                *)

LEMMA ContinueStatus ==
    ASSUME NEW c, NEW t, Continue(c, t)
    PROVE  reply'.status = 0
  BY DEF Continue, NoReply

LEMMA RespondStatus ==
    ASSUME NEW c, NEW status, NEW out, Respond(c, status, out)
    PROVE  reply'.status = status
  BY DEF Respond

\* Which steps send which answers.
LEMMA StatusFacts ==
    ASSUME NEW c \in Client, Receive(c) \/ Reject(c) \/ Step(c)
    PROVE  /\ reply'.status = 200 => ListReply(c) \/ GetReply(c)
           /\ reply'.status = 201 => CreateReply(c)
           /\ reply'.status = 404 => GetFind(c) \/ DeleteFind(c)
           /\ reply'.status = 400 => CheckType(c) \/ CheckTable(c) \/ CheckOption(c)
  <1> DEFINE Other(status) == status \notin {200, 201, 400, 404}
  <1>1. CASE \E t : Continue(c, t)
    BY <1>1, ContinueStatus
  <1>2. CASE \E status, out : Respond(c, status, out) /\ Other(status)
    BY <1>2, RespondStatus
  <1>3. CASE Receive(c)
    BY <1>3 DEF Receive, NoReply
  <1>4. CASE Reject(c) \/ CreateConflict(c) \/ DeleteRemove(c)
    <2>1. Respond(c, 500, {}) \/ Respond(c, 409, {}) \/ Respond(c, 204, {})
      BY <1>4 DEF Reject, CreateConflict, DeleteRemove
    <2> QED  BY <2>1, RespondStatus
  <1>5. CASE CheckType(c) \/ CheckTable(c) \/ CheckOption(c)
    <2>1. (\E t : Continue(c, t)) \/ Respond(c, 400, {})
      BY <1>5 DEF CheckType, CheckTable, CheckOption
    <2> QED  BY <1>1, <1>5, <2>1, RespondStatus
  <1>6. CASE CheckCustomizations(c) \/ CreateInsert(c) \/ CreateFilled(c) \/ ListFind(c)
             \/ ListNext(c) \/ BuildTable(c) \/ BuildNext(c) \/ DeleteTable(c)
    <2>1. \E t : Continue(c, t)
      BY <1>6 DEF CheckCustomizations, CreateInsert, CreateFilled, ListFind, ListNext,
                  BuildTable, BuildNext, DeleteTable
    <2> QED  BY <1>1, <2>1
  <1>7. CASE CreateChild(c)
    <2>1. (\E t : Continue(c, t)) \/ Respond(c, 500, {})
      BY <1>7 DEF CreateChild
    <2> QED  BY <1>1, <2>1, RespondStatus
  <1>8. CASE GetFind(c) \/ DeleteFind(c)
    <2>1. (\E t : Continue(c, t)) \/ Respond(c, 404, {})
      BY <1>8 DEF GetFind, DeleteFind
    <2> QED  BY <1>1, <1>8, <2>1, RespondStatus
  <1>9. CASE ListReply(c) \/ GetReply(c) \/ CreateReply(c)
    <2>1. CASE ListReply(c) \/ GetReply(c)
      <3>1. \E out : Respond(c, 200, out)
        BY <2>1 DEF ListReply, GetReply
      <3> QED  BY <2>1, <3>1, RespondStatus
    <2>2. CASE CreateReply(c)
      <3>1. \E out : Respond(c, 201, out)
        BY <2>2 DEF CreateReply
      <3> QED  BY <2>2, <3>1, RespondStatus
    <2> QED  BY <1>9, <2>1, <2>2
  <1> QED  BY <1>3, <1>4, <1>5, <1>6, <1>7, <1>8, <1>9 DEF Step, Create, Read, Delete

\* A request that gets an answer other than a refusal from outside, is
\* answered by its own handler.
LEMMA AnswererFacts ==
    ASSUME CreationInv, [Next]_vars, NEW c \in Client, task'[c] # task[c], reply'.status # 0
    PROVE  Receive(c) \/ Reject(c) \/ Step(c)
  <1>1. ~UNCHANGED vars
    BY DEF vars
  <1>2. CASE Designer \/ Reconciler \/ Crash
    BY <1>2 DEF Designer, Reconciler, Crash, NoReply
  <1>3. ASSUME NEW d \in Client, Receive(d) \/ Reject(d) \/ Step(d), d # c
        PROVE  FALSE
    BY <1>3, HandlerLeaves
  <1> QED  BY <1>1, <1>2, <1>3 DEF Next

\* A creation that is sure of its blueprint passes each check.
LEMMA SurePasses ==
    ASSUME CreationInv, NEW c \in Client, SureFits(c), c \in sure, faults' = 0,
           CheckType(c) \/ CheckTable(c) \/ CheckOption(c)
    PROVE  reply'.status = 0
  <1> DEFINE r == task[c].req
             todo == task[c].todo
  <1>1. /\ task[c].pc \in {"type", "check", "options"}
        /\ r.type \in types /\ r.parts \subseteq Needs(r.parts)
        /\ \A p \in Needs(r.parts) : rows[r.type][p] > 0
    BY TaskFacts, NeedsFacts DEF SureFits, Has, CheckType, CheckTable, CheckOption, At
  <1>2. todo \subseteq r.parts /\ r.parts \subseteq Part
    BY <1>1, TaskFacts, ChoiceFacts DEF TaskFits, CheckFits
  <1>3. \A p \in todo : p \in Found(r.type, Kind[p], TRUE)
    BY <1>1, <1>2 DEF Found, Valid
  <1>4. CASE CheckType(c)
    <2>1. PICK ok \in BOOLEAN :
            /\ Statement(ok)
            /\ ok /\ r.type \in types =>
                 Continue(c, Local("check", r, 0, todo, {}, {}, {}, {}))
      BY <1>4 DEF CheckType
    <2> QED  BY <1>1, <2>1, CountFacts, ContinueStatus
  <1>5. CASE CheckTable(c)
    <2>1. PICK p \in Plain(todo), ok \in BOOLEAN :
            /\ Statement(ok)
            /\ AskedOf(todo, Kind[p]) \subseteq Found(r.type, Kind[p], ok) =>
                 \E t : Continue(c, t)
      BY <1>5 DEF CheckTable
    <2>2. AskedOf(todo, Kind[p]) \subseteq Found(r.type, Kind[p], TRUE)
      BY <1>3 DEF AskedOf
    <2>3. ok = TRUE
      BY <2>1, CountFacts
    <2> QED  BY <2>1, <2>2, <2>3, ContinueStatus
  <1>6. CASE CheckOption(c)
    <2>1. PICK p \in todo, ok \in BOOLEAN :
            /\ Statement(ok)
            /\ OptionKnown(task[c], p, ok) => \E t : Continue(c, t)
      BY <1>6 DEF CheckOption
    <2>2. faults = 0 /\ ok = TRUE
      BY <2>1, CountFacts
    <2>3. Kind[p] = "option" /\ Base[p] \in task[c].seen
      BY <1>6, <2>1, <2>2 DEF SureFits, CheckOption, At
    <2>4. OptionKnown(task[c], p, ok)
      BY <1>3, <2>1, <2>2, <2>3 DEF OptionKnown
    <2> QED  BY <2>1, <2>4, ContinueStatus
  <1> QED  BY <1>4, <1>5, <1>6

\* What GET and the creation answer.
LEMMA AnswerWhole ==
    ASSUME CreationInv, NEW c \in Client, ReadFits(c), task[c].pc = "build", task[c].kinds = {},
           faults = 0, Due(c, task[c].inst)
    PROVE  [inst |-> task[c].inst, parts |-> task[c].seen] = Whole(task[c].inst)
  BY DEF ReadFits, Whole

LEMMA GetComplete ==
    ASSUME CreationInv, NEW c \in Client, ReadFits(c), GetReply(c), faults' = 0,
           NEW i \in Expected(c)
    PROVE  Whole(i) \in reply'.out
  <1>1. /\ task[c].pc = "build" /\ task[c].req.op = "get" /\ task[c].kinds = {} /\ faults = 0
        /\ reply'.out = Shown(task[c])
    BY RespondChanges DEF GetReply, At
  <1>2. i = task[c].inst /\ Due(c, i)
    BY <1>1, ExpectedFacts DEF ReadFits
  <1> QED  BY <1>1, <1>2, AnswerWhole DEF Shown

LEMMA ListComplete ==
    ASSUME CreationInv, NEW c \in Client, ReadFits(c), ListReply(c), faults' = 0,
           NEW i \in Expected(c)
    PROVE  Whole(i) \in reply'.out
  <1>1. /\ task[c].pc = "list" /\ task[c].req.op = "list" /\ task[c].queue = {} /\ faults = 0
        /\ reply'.out = task[c].out
    BY RespondChanges DEF ListReply, At
  <1>2. PICK e \in task[c].out : e.inst = i
    BY <1>1 DEF ReadFits
  <1>3. e = Whole(i)
    BY <1>1, <1>2, ExpectedFacts DEF ReadFits
  <1> QED  BY <1>1, <1>2, <1>3

LEMMA NobodyNamed ==
    ASSUME CreationInv, NEW a, 0 \in Named(a, TRUE)
    PROVE  \A x \in instances : x.name # a
  <1>1. PICK id \in Named(a, TRUE) : id = 0
    OBVIOUS
  <1>2. TRUE \in BOOLEAN
    OBVIOUS
  <1> QED  BY <1>1, <1>2, NamedFacts

LEMMA NotFoundIsTrue ==
    ASSUME CreationInv, NEW c \in Client, ReadFits(c), GetFind(c), faults' = 0,
           reply'.status = 404
    PROVE  Expected(c) = {}
  <1>1. PICK r : r = task[c].req
    OBVIOUS
  <1>2. PICK ok \in BOOLEAN : /\ Statement(ok)
          /\ \E id \in Named(r.a, ok) :
               IF id = 0 THEN Respond(c, 404, {})
               ELSE Continue(c, Local("build", r, id, {}, ResponseTables, {}, {}, {}))
    BY <1>1 DEF GetFind
  <1>3. 0 \in Named(r.a, ok)
    BY <1>2, ContinueStatus
  <1>4. ok
    BY <1>2, CountFacts
  <1>5. r.op = "get"
    BY <1>1 DEF GetFind, At
  <1>6. 0 \in Named(r.a, TRUE)
    <2>1. ok = TRUE
      BY <1>2, <1>4
    <2> QED  BY <1>3, <2>1
  <1>7. PICK a : a = r.a
    OBVIOUS
  <1>8. \A x \in instances : x.name # a
    <2>1. 0 \in Named(a, TRUE)
      BY <1>6, <1>7
    <2>2. CreationInv
      OBVIOUS
    <2> QED  BY <2>1, <2>2, NobodyNamed, Zenon
  <1>9. ASSUME NEW i \in Expected(c)
        PROVE  FALSE
    <2>1. made[i].a = r.a /\ [id |-> i, name |-> made[i].a] \in instances
      BY <1>1, <1>5, ExpectedFacts DEF Expected
    <2> QED  BY <1>7, <1>8, <2>1
  <1> QED  BY <1>9

LEMMA CreationShown ==
    ASSUME CreationInv, NEW c \in Client, ReadFits(c), CreateReply(c), faults' = 0,
           task[c].inst \notin touched
    PROVE  reply'.out = {Whole(task[c].inst)}
  <1>1. /\ task[c].pc = "build" /\ task[c].req.op = "create" /\ task[c].kinds = {} /\ faults = 0
        /\ reply'.out = Shown(task[c])
    BY RespondChanges DEF CreateReply, At
  <1>2. task[c].out = {}
    BY <1>1, TaskFacts DEF TaskFits, CreateFits
  <1>3. Due(c, task[c].inst)
    BY <1>1 DEF Due, Owns
  <1> QED  BY <1>1, <1>2, <1>3, AnswerWhole DEF Shown

-----------------------------------------------------------------------------
(* Theorems.                                                               *)

\* Reads and checks keep what they rely on, whatever other clients, the
\* operators and the reconciler do between their statements.
THEOREM InstanceInvariantHolds == Spec => []InstanceInv
  BY InstanceStarts, InstanceStep, PTL DEF Spec

\* A creation is not refused for its blueprint when what it asks for was
\* written before it arrived (validation.go:9-113, avatar_controller.go:131-196).
THEOREM NoRefusalWithoutReason == Spec => CoveredIsAccepted
  <1>1. ASSUME InstanceInv, [Next]_vars
        PROVE  [\A c \in Client : c \in sure /\ reply'.status = 400 /\ faults' = 0
                                  => task'[c] = task[c]]_vars
    <2> SUFFICES ASSUME NEW c \in Client, c \in sure, reply'.status = 400, faults' = 0,
                        task'[c] # task[c]
                 PROVE  FALSE
      OBVIOUS
    <2>1. CreationInv /\ SureFits(c)
      BY <1>1 DEF InstanceInv
    <2>2. Receive(c) \/ Reject(c) \/ Step(c)
      BY <1>1, <2>1, AnswererFacts
    <2>3. CheckType(c) \/ CheckTable(c) \/ CheckOption(c)
      BY <2>2, StatusFacts
    <2> QED  BY <2>1, <2>3, SurePasses
  <1> QED  BY <1>1, InstanceInvariantHolds, PTL DEF Spec, CoveredIsAccepted

\* The answers to GET and to a creation (handler.go:125-175, 123) are
\* complete although each is read in several statements.
THEOREM CompleteAnswers == Spec => AnswersComplete
  <1>1. ASSUME InstanceInv, [Next]_vars, NEW c \in Client, faults' = 0
        PROVE  /\ Answers(c, 200) => \A i \in Expected(c) : Whole(i) \in reply'.out
               /\ Answers(c, 404) /\ task[c].req.op = "get" => Expected(c) = {}
               /\ Answers(c, 201) /\ task[c].inst \notin touched =>
                    reply'.out = {Whole(task[c].inst)}
    <2>1. CreationInv /\ ReadFits(c)
      BY <1>1 DEF InstanceInv
    <2>2. ASSUME NEW status \in {200, 201, 404}, Answers(c, status)
          PROVE  /\ Receive(c) \/ Reject(c) \/ Step(c)
                 /\ reply'.status = status
      <3>1. task'[c] # task[c] /\ reply'.status = status
        BY <2>2, IdleFacts DEF Answers
      <3> QED  BY <1>1, <2>1, <2>2, <3>1, AnswererFacts
    <2>3. ASSUME Answers(c, 200)
          PROVE  \A i \in Expected(c) : Whole(i) \in reply'.out
      <3>1. ListReply(c) \/ GetReply(c)
        BY <2>2, <2>3, StatusFacts
      <3> QED  BY <1>1, <2>1, <3>1, GetComplete, ListComplete
    <2>4. ASSUME Answers(c, 404), task[c].req.op = "get"
          PROVE  Expected(c) = {}
      <3>1. GetFind(c) /\ reply'.status = 404
        BY <2>2, <2>4, StatusFacts DEF DeleteFind, At
      <3> QED  BY <1>1, <2>1, <3>1, NotFoundIsTrue
    <2>5. ASSUME Answers(c, 201), task[c].inst \notin touched
          PROVE  reply'.out = {Whole(task[c].inst)}
      <3>1. CreateReply(c)
        BY <2>2, <2>5, StatusFacts
      <3> QED  BY <1>1, <2>1, <2>5, <3>1, CreationShown
    <2> QED  BY <2>3, <2>4, <2>5
  <1>2. ASSUME InstanceInv, [Next]_vars
        PROVE  [\A c \in Client :
                  faults' = 0 =>
                    /\ Answers(c, 200) => \A i \in Expected(c) : Whole(i) \in reply'.out
                    /\ Answers(c, 404) /\ task[c].req.op = "get" => Expected(c) = {}
                    /\ Answers(c, 201) /\ task[c].inst \notin touched =>
                         reply'.out = {Whole(task[c].inst)}]_vars
    BY <1>1, <1>2
  <1> QED  BY <1>2, InstanceInvariantHolds, PTL DEF Spec, AnswersComplete
=============================================================================
