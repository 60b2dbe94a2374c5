--------------------------- MODULE BlueprintProofs ---------------------------
(***************************************************************************)
(* Proofs about the blueprints of AvatarInstances for every value of the   *)
(* constants: BlueprintInv is inductive, and a deleted Avatar leaves no    *)
(* row behind.                                                             *)
(***************************************************************************)
EXTENDS InstanceInvariant, TLAPS

USE BlueprintAssumption, InstancesAssumption DEF BlueprintAssumption, InstancesAssumption

-----------------------------------------------------------------------------
(* Single assignments.                                                     *)

\* An Avatar resource is written, and no other.
LEMMA SetSpecFacts ==
    ASSUME BlueprintTypeOK, NEW o \in AvatarType, NEW life \in Life, NEW parts \in SUBSET Part,
           SetSpec(o, life, parts)
    PROVE  /\ spec' \in [AvatarType -> [life : Life, parts : SUBSET Part]]
           /\ spec'[o].life = life /\ spec'[o].parts = parts
           /\ \A q \in AvatarType : q # o => spec'[q] = spec[q]
  BY DEF SetSpec, BlueprintTypeOK

LEMMA RestingFacts ==
    /\ Resting \in Worker /\ Resting.pc = "idle"
  BY DEF Resting, Worker, Table, Rank

LEMMA WorkingFacts ==
    ASSUME NEW pc \in {"type", "parts", "purge", "release"}, NEW o \in AvatarType,
           NEW copy \in SUBSET Part, NEW todo \in SUBSET Part, NEW kinds \in SUBSET Table,
           Working(pc, o, copy, todo, kinds)
    PROVE  /\ worker' \in Worker
           /\ worker'.pc = pc /\ worker'.type = o /\ worker'.copy = copy
           /\ worker'.todo = todo /\ worker'.kinds = kinds
  BY DEF Working, Worker

\* What the worker at work is about.
LEMMA WorkerFacts ==
    ASSUME BlueprintInv
    PROVE  /\ worker \in Worker
           /\ worker.pc # "idle" => worker.type \in AvatarType
           /\ worker.copy \subseteq Part /\ worker.todo \subseteq Part
           /\ worker.kinds \subseteq Table
  BY DEF BlueprintInv, BlueprintTypeOK, Worker, WorkerFits

LEMMA ResourceFacts ==
    ASSUME BlueprintInv, NEW o \in AvatarType
    PROVE  /\ spec[o].life \in Life /\ spec[o].parts \in SUBSET Part
           /\ rows[o] \in [Part -> 0 .. Many]
           /\ ever[o] \subseteq SUBSET Part /\ written[o] \subseteq SUBSET Part
  BY DEF BlueprintInv, BlueprintTypeOK

\* A statement leaves the number of failures in bounds, and nothing that is
\* true as long as none has failed becomes false by it.
LEMMA StatementFacts ==
    ASSUME faults \in 0 .. MaxFaults, NEW ok \in BOOLEAN, Statement(ok)
    PROVE  faults' \in 0 .. MaxFaults /\ (faults' = 0 => faults = 0 /\ ok)
  BY DEF Statement

PartTablesTyped == PartTables \subseteq Table

LEMMA PartTablesFacts == PartTablesTyped
  BY DEF PartTablesTyped, PartTables

-----------------------------------------------------------------------------
(* The invariant holds initially, and as long as nothing it is about        *)
(* changes.                                                                 *)

LEMMA BlueprintStarts ==
    Init => BlueprintInv
  <1> SUFFICES ASSUME Init PROVE BlueprintInv
    OBVIOUS
  <1>1. BlueprintTypeOK /\ faults \in 0 .. MaxFaults
    BY RestingFacts DEF Init, BlueprintInit, BlueprintTypeOK, Life
  <1>2. DeclaredFit
    BY DEF Init, BlueprintInit, DeclaredFit, EverDeclared
  <1>3. worker.pc = "idle"
    BY RestingFacts DEF Init, BlueprintInit
  <1>4. WorkerFits /\ WrittenFits /\ EmptyFits
    BY <1>3 DEF Init, BlueprintInit, WorkerFits, WrittenFits, EmptyFits, Empty
  <1> QED  BY <1>1, <1>2, <1>4 DEF BlueprintInv

LEMMA HandlersKeepBlueprint ==
    ASSUME BlueprintInv, UNCHANGED blueprint,
           UNCHANGED faults \/ \E ok \in BOOLEAN : Statement(ok)
    PROVE  BlueprintInv'
  <1>1. faults' \in 0 .. MaxFaults /\ (faults' = 0 => faults = 0)
    BY StatementFacts DEF BlueprintInv
  <1>2. BlueprintTypeOK'
    BY DEF BlueprintInv, BlueprintTypeOK, blueprint
  <1>3. DeclaredFit' /\ WrittenFits'
    BY DEF BlueprintInv, DeclaredFit, EverDeclared, WrittenFits, Has, blueprint
  <1>4. WorkerFits'
    BY DEF BlueprintInv, WorkerFits, Has, blueprint
  <1>5. EmptyFits'
    BY <1>1 DEF BlueprintInv, EmptyFits, Empty, blueprint
  <1> QED  BY <1>1, <1>2, <1>3, <1>4, <1>5 DEF BlueprintInv

\* The worker may always fall back to rest: the process dies, or it returns.
LEMMA RestKeeps ==
    ASSUME BlueprintInv, worker' = Resting, UNCHANGED <<spec, types, rows, changes, ever>>,
           written' \in [AvatarType -> SUBSET SUBSET Part], WrittenFits',
           faults' \in 0 .. MaxFaults, faults' = 0 => faults = 0
    PROVE  BlueprintInv'
  <1>1. worker' \in Worker /\ worker'.pc = "idle"
    BY RestingFacts
  <1>2. BlueprintTypeOK'
    BY <1>1 DEF BlueprintInv, BlueprintTypeOK
  <1>3. DeclaredFit'
    BY DEF BlueprintInv, DeclaredFit, EverDeclared
  <1>4. WorkerFits'
    BY <1>1 DEF WorkerFits
  <1>5. EmptyFits'
    BY <1>1 DEF BlueprintInv, EmptyFits, Empty
  <1> QED  BY <1>2, <1>3, <1>4, <1>5 DEF BlueprintInv

LEMMA WrittenStays ==
    ASSUME BlueprintInv, UNCHANGED <<spec, types, rows, written>>
    PROVE  WrittenFits'
  BY DEF BlueprintInv, WrittenFits, Has

-----------------------------------------------------------------------------
(* Operators.                                                              *)

LEMMA ApplyKeeps ==
    ASSUME BlueprintInv, NEW o \in AvatarType, Apply(o)
    PROVE  BlueprintInv'
  <1> DEFINE life == IF spec[o].life = "absent" THEN "new" ELSE spec[o].life
  <1>1. PICK s \in Declared[o] :
          SetSpec(o, life, s) /\ ever' = [ever EXCEPT ![o] = @ \cup {s}]
    BY DEF Apply
  <1>2. /\ UNCHANGED <<types, rows, worker, written, faults>>
        /\ spec[o].life \in {"absent", "new", "live"}
        /\ changes < MaxChanges /\ changes' = changes + 1
    BY DEF Apply, Change
  <1>3. /\ BlueprintTypeOK /\ s \in SUBSET Part /\ life \in Life
        /\ life \in {"new", "live"} /\ life = "live" <=> spec[o].life = "live"
        /\ life = "new" <=> spec[o].life \in {"absent", "new"}
    BY <1>2 DEF BlueprintInv, Life
  <1> HIDE DEF life
  <1>4. /\ spec' \in [AvatarType -> [life : Life, parts : SUBSET Part]]
        /\ spec'[o].life = life /\ spec'[o].parts = s
        /\ \A q \in AvatarType : q # o => spec'[q] = spec[q]
    BY <1>1, <1>3, SetSpecFacts
  <1>5. /\ ever' \in [AvatarType -> SUBSET SUBSET Part]
        /\ ever'[o] = ever[o] \cup {s}
        /\ \A q \in AvatarType : q # o => ever'[q] = ever[q]
    BY <1>1, <1>3 DEF BlueprintTypeOK
  <1>6. BlueprintTypeOK'
    BY <1>2, <1>3, <1>4, <1>5 DEF BlueprintTypeOK
  <1>7. \A q \in AvatarType : ever[q] \subseteq ever'[q]
    BY <1>5
  <1>8. DeclaredFit'
    <2> SUFFICES ASSUME NEW q \in AvatarType
                 PROVE  /\ spec'[q].life # "absent" => spec'[q].parts \in ever'[q]
                        /\ q \in types => ever'[q] # {}
                        /\ \A p \in Part : rows[q][p] > 0 => p \in UNION ever'[q]
                        /\ \A t \in ever'[q] : \A p \in t : Base[p] \in t
      BY <1>2 DEF DeclaredFit, EverDeclared
    <2>1. DeclaredFit
      BY DEF BlueprintInv
    <2>2. spec'[q].life # "absent" => spec'[q].parts \in ever'[q]
      BY <1>4, <1>5, <2>1 DEF DeclaredFit
    <2>3. q \in types => ever'[q] # {}
      BY <1>7, <2>1 DEF DeclaredFit
    <2>4. \A p \in Part : rows[q][p] > 0 => p \in UNION ever'[q]
      BY <1>7, <2>1 DEF DeclaredFit, EverDeclared
    <2>5. \A t \in ever'[q] : \A p \in t : Base[p] \in t
      BY <1>5, <2>1 DEF DeclaredFit
    <2> QED  BY <2>2, <2>3, <2>4, <2>5
  <1>9. WorkerFits'
    BY <1>2, <1>3, <1>4, <1>7 DEF BlueprintInv, WorkerFits, Has
  <1>10. WrittenFits'
    BY <1>2, <1>3, <1>4 DEF BlueprintInv, WrittenFits, Has
  <1>11. EmptyFits'
    BY <1>2, <1>3, <1>4 DEF BlueprintInv, EmptyFits, Empty
  <1> QED  BY <1>2, <1>6, <1>8, <1>9, <1>10, <1>11 DEF BlueprintInv

LEMMA DeleteAvatarKeeps ==
    ASSUME BlueprintInv, NEW o \in AvatarType, DeleteAvatar(o)
    PROVE  BlueprintInv'
  <1>1. /\ UNCHANGED <<types, rows, worker, ever, faults>>
        /\ written' = [written EXCEPT ![o] = {}]
        /\ spec[o].life \in {"new", "live"}
        /\ changes < MaxChanges /\ changes' = changes + 1
    BY DEF DeleteAvatar, Change
  <1>2. BlueprintTypeOK /\ spec[o].parts \in SUBSET Part
    BY ResourceFacts DEF BlueprintInv
  <1>3. /\ spec' \in [AvatarType -> [life : Life, parts : SUBSET Part]]
        /\ spec[o].life = "new" => spec'[o].life = "absent"
        /\ spec[o].life = "live" => spec'[o].life = "deleted" /\ spec'[o].parts = spec[o].parts
        /\ \A q \in AvatarType : q # o => spec'[q] = spec[q]
    BY <1>1, <1>2, SetSpecFacts DEF DeleteAvatar, Life
  <1>4. /\ written' \in [AvatarType -> SUBSET SUBSET Part] /\ written'[o] = {}
        /\ \A q \in AvatarType : q # o => written'[q] = written[q]
    BY <1>1, <1>2 DEF BlueprintTypeOK
  <1>5. BlueprintTypeOK'
    BY <1>1, <1>2, <1>3, <1>4 DEF BlueprintTypeOK
  <1>6. DeclaredFit'
    BY <1>1, <1>3 DEF BlueprintInv, DeclaredFit, EverDeclared
  <1>7. WorkerFits'
    BY <1>1, <1>3 DEF BlueprintInv, WorkerFits, Has
  <1>8. WrittenFits'
    BY <1>1, <1>3, <1>4 DEF BlueprintInv, WrittenFits, Has
  <1>9. EmptyFits'
    BY <1>1, <1>3 DEF BlueprintInv, EmptyFits, Empty
  <1> QED  BY <1>1, <1>5, <1>6, <1>7, <1>8, <1>9 DEF BlueprintInv

LEMMA AdoptKeeps ==
    ASSUME BlueprintInv, NEW o \in AvatarType, Adopt(o)
    PROVE  BlueprintInv'
  <1>1. /\ UNCHANGED <<types, rows, worker, changes, ever, written, faults>>
        /\ worker.pc = "idle" /\ spec[o].life = "new"
    BY DEF Adopt
  <1>2. BlueprintTypeOK /\ spec[o].parts \in SUBSET Part
    BY ResourceFacts DEF BlueprintInv
  <1>3. /\ spec' \in [AvatarType -> [life : Life, parts : SUBSET Part]]
        /\ spec'[o].life = "live" /\ spec'[o].parts = spec[o].parts
        /\ \A q \in AvatarType : q # o => spec'[q] = spec[q]
    BY <1>2, SetSpecFacts DEF Adopt, Life
  <1>4. BlueprintTypeOK'
    BY <1>1, <1>2, <1>3 DEF BlueprintTypeOK
  <1>5. DeclaredFit'
    BY <1>1, <1>3 DEF BlueprintInv, DeclaredFit, EverDeclared
  <1>6. WorkerFits'
    BY <1>1 DEF WorkerFits
  <1>7. WrittenFits'
    BY <1>1, <1>3 DEF BlueprintInv, WrittenFits, Has
  <1>8. EmptyFits'
    BY <1>1, <1>3 DEF BlueprintInv, EmptyFits, Empty
  <1> QED  BY <1>1, <1>4, <1>5, <1>6, <1>7, <1>8 DEF BlueprintInv

-----------------------------------------------------------------------------
(* Reconciliation.                                                         *)

LEMMA ReconcileKeeps ==
    ASSUME BlueprintInv, NEW o \in AvatarType, Reconcile(o)
    PROVE  BlueprintInv'
  <1>1. /\ UNCHANGED <<spec, types, rows, changes, ever, written, faults>>
        /\ spec[o].life = "live"
    BY DEF Reconcile
  <1>2. spec[o].parts \in SUBSET Part
    BY ResourceFacts
  <1>3. /\ worker' \in Worker /\ worker'.pc = "type" /\ worker'.type = o
        /\ worker'.copy = spec[o].parts /\ worker'.todo = spec[o].parts
    BY <1>2, WorkingFacts DEF Reconcile
  <1>4. BlueprintTypeOK'
    BY <1>1, <1>3 DEF BlueprintInv, BlueprintTypeOK
  <1>5. DeclaredFit' /\ WrittenFits'
    BY <1>1 DEF BlueprintInv, DeclaredFit, EverDeclared, WrittenFits, Has
  <1>6. WorkerFits'
    BY <1>1, <1>3 DEF BlueprintInv, WorkerFits, DeclaredFit
  <1>7. EmptyFits'
    BY <1>1, <1>3 DEF BlueprintInv, EmptyFits, Empty
  <1> QED  BY <1>1, <1>4, <1>5, <1>6, <1>7 DEF BlueprintInv

LEMMA WriteTypeKeeps ==
    ASSUME BlueprintInv, WriteType
    PROVE  BlueprintInv'
  <1> DEFINE o == worker.type
  <1>1. PICK ok \in BOOLEAN :
          /\ Statement(ok)
          /\ IF ok THEN /\ types' = types \cup {o}
                        /\ Working("parts", o, worker.copy, worker.todo, {})
                   ELSE types' = types /\ Return
    BY DEF WriteType
  <1>2. /\ UNCHANGED <<spec, rows, changes, ever, written>> /\ worker.pc = "type"
    BY DEF WriteType
  <1>3. faults' \in 0 .. MaxFaults /\ (faults' = 0 => faults = 0)
    BY <1>1, StatementFacts DEF BlueprintInv
  <1>4. CASE ~ok
    <2>1. worker' = Resting /\ types' = types
      BY <1>1, <1>4 DEF Return
    <2>2. WrittenFits'
      BY <1>2, <2>1, WrittenStays
    <2> QED  BY <1>2, <1>3, <2>1, <2>2, RestKeeps DEF BlueprintInv, BlueprintTypeOK
  <1>5. CASE ok
    <2>1. /\ o \in AvatarType /\ worker.copy \in SUBSET Part /\ worker.todo \in SUBSET Part
          /\ spec[o].life \in {"live", "deleted"}
          /\ worker.copy \in ever[o] /\ worker.todo \subseteq worker.copy
      BY <1>2, WorkerFacts DEF BlueprintInv, WorkerFits
    <2>2. /\ worker' \in Worker /\ worker'.pc = "parts" /\ worker'.type = o
          /\ worker'.copy = worker.copy /\ worker'.todo = worker.todo
      BY <1>1, <1>5, <2>1, WorkingFacts
    <2>3. types' = types \cup {o}
      BY <1>1, <1>5
    <2> HIDE DEF o
    <2>4. BlueprintTypeOK'
      BY <1>2, <2>1, <2>2, <2>3 DEF BlueprintInv, BlueprintTypeOK
    <2>5. DeclaredFit'
      BY <1>2, <2>1, <2>3 DEF BlueprintInv, DeclaredFit, EverDeclared
    <2>6. WrittenFits'
      BY <1>2, <2>3 DEF BlueprintInv, WrittenFits, Has
    <2>7. WorkerFits'
      <3>1. \A p \in worker.copy \ worker.todo : rows[o][p] > 0
        BY <1>2 DEF BlueprintInv, WorkerFits
      <3> QED  BY <1>2, <2>1, <2>2, <2>3, <3>1 DEF WorkerFits, Has
    <2>8. EmptyFits'
      BY <1>2, <1>3, <2>1, <2>2, <2>3 DEF BlueprintInv, EmptyFits, Empty
    <2> QED  BY <1>3, <2>4, <2>5, <2>6, <2>7, <2>8 DEF BlueprintInv
  <1> QED  BY <1>4, <1>5

\* A row is inserted: it was declared, and no counter goes down.
LEMMA InsertedFacts ==
    ASSUME NEW n \in 0 .. Many
    PROVE  Inserted(n) \in 1 .. Many /\ Inserted(n) >= n
  BY DEF Inserted

Adds(o, p) == rows' = [rows EXCEPT ![o][p] = Inserted(@)]

LEMMA RowAdded ==
    ASSUME BlueprintInv, NEW o \in AvatarType, NEW p \in Part, Adds(o, p)
    PROVE  /\ rows' \in [AvatarType -> [Part -> 0 .. Many]]
           /\ rows'[o][p] > 0
           /\ \A q \in AvatarType : \A x \in Part : rows[q][x] > 0 => rows'[q][x] > 0
           /\ \A q \in AvatarType : q # o => rows'[q] = rows[q]
           /\ \A x \in Part : x # p => rows'[o][x] = rows[o][x]
  <1>1. rows \in [AvatarType -> [Part -> 0 .. Many]]
    BY DEF BlueprintInv, BlueprintTypeOK
  <1>2. rows[o] \in [Part -> 0 .. Many] /\ rows[o][p] \in 0 .. Many
    BY <1>1
  <1> DEFINE n == Inserted(rows[o][p])
             row == [rows[o] EXCEPT ![p] = n]
  <1>3. n \in 1 .. Many
    BY <1>2, InsertedFacts
  <1>4. rows' = [rows EXCEPT ![o] = row]
    BY DEF Adds
  <1> HIDE DEF n
  <1>5. /\ row \in [Part -> 0 .. Many] /\ row[p] = n
        /\ \A x \in Part : x # p => row[x] = rows[o][x]
    BY <1>2, <1>3
  <1> HIDE DEF row
  <1>6. /\ rows' \in [AvatarType -> [Part -> 0 .. Many]] /\ rows'[o] = row
        /\ \A q \in AvatarType : q # o => rows'[q] = rows[q]
    BY <1>1, <1>4, <1>5
  <1>7. \A x \in Part : rows[o][x] > 0 => row[x] > 0
    BY <1>3, <1>5
  <1>8. ASSUME NEW q \in AvatarType, NEW x \in Part, rows[q][x] > 0
        PROVE  rows'[q][x] > 0
    <2>1. CASE q = o
      BY <1>6, <1>7, <1>8, <2>1
    <2>2. CASE q # o
      BY <1>6, <1>8, <2>2
    <2> QED  BY <2>1, <2>2
  <1>9. rows'[o][p] > 0
    BY <1>3, <1>5, <1>6
  <1>10. \A x \in Part : x # p => rows'[o][x] = rows[o][x]
    BY <1>5, <1>6
  <1> QED  BY <1>6, <1>8, <1>9, <1>10

LEMMA WritePartKeeps ==
    ASSUME BlueprintInv, WritePart
    PROVE  BlueprintInv'
  <1> DEFINE o == worker.type
  <1>1. PICK p \in NextParts(worker.todo), ok \in BOOLEAN :
          /\ Statement(ok)
          /\ IF ok THEN /\ rows' = [rows EXCEPT ![o][p] = Inserted(@)]
                        /\ Working("parts", o, worker.copy, worker.todo \ {p}, {})
                   ELSE rows' = rows /\ Return
    BY DEF WritePart
  <1>2. /\ UNCHANGED <<spec, types, changes, ever, written>> /\ worker.pc = "parts"
    BY DEF WritePart
  <1>3. faults' \in 0 .. MaxFaults /\ (faults' = 0 => faults = 0)
    BY <1>1, StatementFacts DEF BlueprintInv
  <1>4. CASE ~ok
    <2>1. worker' = Resting /\ rows' = rows
      BY <1>1, <1>4 DEF Return
    <2>2. WrittenFits'
      BY <1>2, <2>1, WrittenStays
    <2> QED  BY <1>2, <1>3, <2>1, <2>2, RestKeeps DEF BlueprintInv, BlueprintTypeOK
  <1>5. CASE ok
    <2>1. /\ o \in AvatarType /\ worker.copy \in SUBSET Part /\ worker.todo \in SUBSET Part
          /\ spec[o].life \in {"live", "deleted"}
          /\ worker.copy \in ever[o] /\ worker.todo \subseteq worker.copy
          /\ o \in types /\ \A x \in worker.copy \ worker.todo : rows[o][x] > 0
      BY <1>2, WorkerFacts DEF BlueprintInv, WorkerFits, Has
    <2>2. p \in worker.todo /\ p \in Part
      BY <2>1 DEF NextParts, Ready
    <2>3. /\ worker' \in Worker /\ worker'.pc = "parts" /\ worker'.type = o
          /\ worker'.copy = worker.copy /\ worker'.todo = worker.todo \ {p}
      <3>1. worker.todo \ {p} \in SUBSET Part
        BY <2>1
      <3> QED  BY <1>1, <1>5, <2>1, <3>1, WorkingFacts
    <2>4. Adds(o, p)
      BY <1>1, <1>5 DEF Adds
    <2> HIDE DEF o
    <2>5. /\ rows' \in [AvatarType -> [Part -> 0 .. Many]]
          /\ rows'[o][p] > 0
          /\ \A q \in AvatarType : \A x \in Part : rows[q][x] > 0 => rows'[q][x] > 0
          /\ \A q \in AvatarType : q # o => rows'[q] = rows[q]
          /\ \A x \in Part : x # p => rows'[o][x] = rows[o][x]
      BY <2>1, <2>2, <2>4, RowAdded
    <2>6. BlueprintTypeOK'
      BY <1>2, <2>3, <2>5 DEF BlueprintInv, BlueprintTypeOK
    <2>7. p \in EverDeclared(o)
      BY <2>1, <2>2 DEF EverDeclared
    <2>8. DeclaredFit'
      BY <1>2, <2>5, <2>7 DEF BlueprintInv, DeclaredFit, EverDeclared
    <2>9. WrittenFits'
      <3>1. \A q \in AvatarType : \A s \in written[q] : s \subseteq Part
        BY ResourceFacts
      <3> QED  BY <1>2, <2>5, <3>1 DEF BlueprintInv, WrittenFits, Has
    <2>10. WorkerFits'
      <3>1. \A x \in worker.copy \ (worker.todo \ {p}) : rows'[o][x] > 0
        BY <2>1, <2>5
      <3> QED  BY <1>2, <2>1, <2>3, <3>1 DEF WorkerFits, Has
    <2>11. EmptyFits'
      BY <1>2, <1>3, <2>1, <2>3, <2>5 DEF BlueprintInv, EmptyFits, Empty
    <2> QED  BY <1>3, <2>6, <2>8, <2>9, <2>10, <2>11 DEF BlueprintInv
  <1> QED  BY <1>4, <1>5

LEMMA WrittenKeeps ==
    ASSUME BlueprintInv, Written
    PROVE  BlueprintInv'
  <1> DEFINE o == worker.type
  <1>1. /\ UNCHANGED <<spec, types, rows, changes, ever, faults>> /\ worker' = Resting
        /\ worker.pc = "parts" /\ worker.todo = {}
        /\ written' = IF spec[o].life = "live" THEN [written EXCEPT ![o] = {worker.copy}]
                      ELSE written
    BY DEF Written, Return
  <1>2. /\ o \in AvatarType /\ worker.copy \in SUBSET Part
        /\ written \in [AvatarType -> SUBSET SUBSET Part]
    BY <1>1, WorkerFacts DEF BlueprintInv, BlueprintTypeOK
  <1>3. Has(o, worker.copy)
    BY <1>1 DEF BlueprintInv, WorkerFits, Has
  <1> HIDE DEF o
  <1>4. CASE spec[o].life # "live"
    <2>1. written' = written
      BY <1>1, <1>4
    <2>2. WrittenFits'
      BY <1>1, <2>1, WrittenStays
    <2> QED  BY <1>1, <1>2, <2>1, <2>2, RestKeeps DEF BlueprintInv
  <1>5. CASE spec[o].life = "live"
    <2>1. /\ written' \in [AvatarType -> SUBSET SUBSET Part]
          /\ written'[o] = {worker.copy}
          /\ \A q \in AvatarType : q # o => written'[q] = written[q]
      BY <1>1, <1>2, <1>5
    <2>2. WrittenFits'
      BY <1>1, <1>3, <1>5, <2>1 DEF BlueprintInv, WrittenFits, Has
    <2> QED  BY <1>1, <2>1, <2>2, RestKeeps DEF BlueprintInv
  <1> QED  BY <1>4, <1>5

-----------------------------------------------------------------------------
(* Finalization.                                                           *)

LEMMA FinalizeKeeps ==
    ASSUME BlueprintInv, NEW o \in AvatarType, Finalize(o)
    PROVE  BlueprintInv'
  <1>1. PICK ok \in BOOLEAN :
          /\ Statement(ok)
          /\ IF ok THEN Working("purge", o, {}, {}, PartTables)
                   ELSE Working("release", o, {}, {}, {})
    BY DEF Finalize
  <1>2. /\ UNCHANGED <<spec, types, rows, changes, ever, written>>
        /\ spec[o].life = "deleted"
    BY DEF Finalize
  <1>3. faults' \in 0 .. MaxFaults /\ (faults' = 0 => faults = 0 /\ ok)
    BY <1>1, StatementFacts DEF BlueprintInv
  <1>4. /\ worker' \in Worker /\ worker'.type = o
        /\ ok => worker'.pc = "purge" /\ worker'.kinds = PartTables
        /\ ~ok => worker'.pc = "release"
    <2>1. PartTables \in SUBSET Table /\ {} \in SUBSET Part /\ {} \in SUBSET Table
      BY PartTablesFacts DEF PartTablesTyped
    <2>2. CASE ok
      BY <1>1, <2>1, <2>2, WorkingFacts
    <2>3. CASE ~ok
      BY <1>1, <2>1, <2>3, WorkingFacts
    <2> QED  BY <2>2, <2>3
  <1>5. BlueprintTypeOK'
    BY <1>2, <1>4 DEF BlueprintInv, BlueprintTypeOK
  <1>6. DeclaredFit' /\ WrittenFits'
    BY <1>2 DEF BlueprintInv, DeclaredFit, EverDeclared, WrittenFits, Has
  <1>7. WorkerFits'
    BY <1>2, <1>4 DEF BlueprintInv, WorkerFits
  <1>8. EmptyFits'
    BY <1>2, <1>3, <1>4 DEF BlueprintInv, EmptyFits, Empty
  <1> QED  BY <1>3, <1>5, <1>6, <1>7, <1>8 DEF BlueprintInv

\* What the deletion from one table leaves.
LEMMA PurgedFacts ==
    ASSUME NEW parts \in [Part -> 0 .. Many], NEW k
    PROVE  /\ Purged(parts, k) \in [Part -> 0 .. Many]
           /\ \A p \in Part : Kind[p] = k => Purged(parts, k)[p] = 0
           /\ \A p \in Part : Purged(parts, k)[p] = parts[p] \/ Purged(parts, k)[p] = 0
  BY DEF Purged

LEMMA PurgePartsKeeps ==
    ASSUME BlueprintInv, PurgeParts
    PROVE  BlueprintInv'
  <1> DEFINE o == worker.type
  <1>1. PICK k \in worker.kinds, ok \in BOOLEAN :
          /\ Statement(ok)
          /\ rows' = IF ok THEN [rows EXCEPT ![o] = Purged(@, k)] ELSE rows
          /\ Working("purge", o, {}, {}, worker.kinds \ {k})
    BY DEF PurgeParts
  <1>2. /\ UNCHANGED <<spec, types, changes, ever, written>> /\ worker.pc = "purge"
    BY DEF PurgeParts
  <1>3. faults' \in 0 .. MaxFaults /\ (faults' = 0 => faults = 0 /\ ok)
    BY <1>1, StatementFacts DEF BlueprintInv
  <1>4. o \in AvatarType /\ worker.kinds \in SUBSET Table /\ spec[o].life = "deleted"
    BY <1>2, WorkerFacts DEF BlueprintInv, WorkerFits
  <1>5. /\ worker' \in Worker /\ worker'.pc = "purge" /\ worker'.type = o
        /\ worker'.kinds = worker.kinds \ {k}
    <2>1. worker.kinds \ {k} \in SUBSET Table /\ {} \in SUBSET Part
      BY <1>4
    <2> QED  BY <1>1, <1>4, <2>1, WorkingFacts
  <1> HIDE DEF o
  <1>6. rows \in [AvatarType -> [Part -> 0 .. Many]] /\ rows[o] \in [Part -> 0 .. Many]
    BY <1>4 DEF BlueprintInv, BlueprintTypeOK
  <1>7. /\ rows' \in [AvatarType -> [Part -> 0 .. Many]]
        /\ \A q \in AvatarType : q # o => rows'[q] = rows[q]
        /\ \A p \in Part : rows'[o][p] = rows[o][p] \/ rows'[o][p] = 0
        /\ ok => \A p \in Part : Kind[p] = k => rows'[o][p] = 0
    <2> DEFINE new == Purged(rows[o], k)
    <2>1. /\ new \in [Part -> 0 .. Many]
          /\ \A p \in Part : Kind[p] = k => new[p] = 0
          /\ \A p \in Part : new[p] = rows[o][p] \/ new[p] = 0
      BY <1>6, PurgedFacts
    <2>2. rows' = IF ok THEN [rows EXCEPT ![o] = new] ELSE rows
      BY <1>1
    <2> HIDE DEF new
    <2>3. CASE ok
      BY <1>4, <1>6, <2>1, <2>2, <2>3
    <2>4. CASE ~ok
      BY <1>6, <2>2, <2>4
    <2> QED  BY <2>3, <2>4
  <1>8. BlueprintTypeOK'
    BY <1>2, <1>5, <1>7 DEF BlueprintInv, BlueprintTypeOK
  <1>9. \A q \in AvatarType : \A p \in Part : rows'[q][p] > 0 => rows[q][p] > 0
    BY <1>6, <1>7
  <1>10. DeclaredFit'
    BY <1>2, <1>9 DEF BlueprintInv, DeclaredFit, EverDeclared
  <1>11. WrittenFits'
    BY <1>2, <1>4, <1>7 DEF BlueprintInv, WrittenFits, Has
  <1>12. WorkerFits'
    BY <1>2, <1>4, <1>5 DEF WorkerFits
  <1>13. EmptyFits'
    <2> DEFINE Cleared(q, kinds) == \A p \in Part : Kind[p] \in kinds => rows'[q][p] = 0
    <2>1. faults' = 0 => EmptyFits /\ faults = 0 /\ ok
      BY <1>3 DEF BlueprintInv
    <2>2. faults' = 0 => Empty(o, PartTables \ worker.kinds)
      BY <1>2, <2>1 DEF EmptyFits, o
    <2>3. faults' = 0 => Cleared(o, PartTables \ (worker.kinds \ {k}))
      BY <1>7, <2>1, <2>2 DEF Empty
    <2>4. faults' = 0 => \A q \in AvatarType : spec[q].life \in {"absent", "new"} =>
                            q \notin types /\ Cleared(q, PartTables)
      BY <1>4, <1>7, <2>1 DEF EmptyFits, Empty
    <2>5. Cleared(worker'.type, PartTables \ worker'.kinds) <=>
            Cleared(o, PartTables \ (worker.kinds \ {k}))
      BY <1>5
    <2>6. worker'.pc = "purge" /\ types' = types /\ spec' = spec
      BY <1>2, <1>5
    <2> QED  BY <2>3, <2>4, <2>5, <2>6 DEF EmptyFits, Empty
  <1> QED  BY <1>3, <1>8, <1>10, <1>11, <1>12, <1>13 DEF BlueprintInv

LEMMA PurgeTypeKeeps ==
    ASSUME BlueprintInv, PurgeType
    PROVE  BlueprintInv'
  <1> DEFINE o == worker.type
  <1>1. PICK ok \in BOOLEAN :
          /\ Statement(ok)
          /\ types' = IF ok THEN types \ {o} ELSE types
    BY DEF PurgeType
  <1>2. /\ UNCHANGED <<spec, rows, changes, ever, written>>
        /\ worker.pc = "purge" /\ worker.kinds = {}
    BY DEF PurgeType
  <1>3. faults' \in 0 .. MaxFaults /\ (faults' = 0 => faults = 0 /\ ok)
    BY <1>1, StatementFacts DEF BlueprintInv
  <1>4. o \in AvatarType /\ spec[o].life = "deleted"
    BY <1>2, WorkerFacts DEF BlueprintInv, WorkerFits
  <1>5. worker' \in Worker /\ worker'.pc = "release" /\ worker'.type = o
    <2>1. {} \in SUBSET Table /\ {} \in SUBSET Part
      OBVIOUS
    <2> QED  BY <1>4, <2>1, WorkingFacts DEF PurgeType
  <1>6. faults' = 0 => Empty(o, PartTables) /\ o \notin types'
    <2>1. faults' = 0 => Empty(o, PartTables \ worker.kinds)
      BY <1>2, <1>3 DEF BlueprintInv, EmptyFits
    <2> QED  BY <1>1, <1>2, <1>3, <2>1 DEF Empty
  <1> HIDE DEF o
  <1>7. BlueprintTypeOK'
    BY <1>1, <1>2, <1>5 DEF BlueprintInv, BlueprintTypeOK
  <1>8. DeclaredFit'
    BY <1>1, <1>2 DEF BlueprintInv, DeclaredFit, EverDeclared
  <1>9. WrittenFits'
    BY <1>1, <1>2, <1>4 DEF BlueprintInv, WrittenFits, Has
  <1>10. WorkerFits'
    BY <1>2, <1>4, <1>5 DEF WorkerFits
  <1>11. EmptyFits'
    BY <1>1, <1>2, <1>3, <1>4, <1>5, <1>6 DEF BlueprintInv, EmptyFits, Empty
  <1> QED  BY <1>3, <1>7, <1>8, <1>9, <1>10, <1>11 DEF BlueprintInv

LEMMA ReleaseKeeps ==
    ASSUME BlueprintInv, Release
    PROVE  BlueprintInv'
  <1> DEFINE o == worker.type
  <1>1. PICK ok \in BOOLEAN :
          /\ Statement(ok)
          /\ IF ok THEN SetSpec(o, "absent", {}) ELSE spec' = spec
    BY DEF Release
  <1>2. /\ UNCHANGED <<types, rows, changes, ever, written>>
        /\ worker.pc = "release" /\ worker' = Resting
    BY DEF Release, Return
  <1>3. faults' \in 0 .. MaxFaults /\ (faults' = 0 => faults = 0 /\ ok)
    BY <1>1, StatementFacts DEF BlueprintInv
  <1>4. /\ o \in AvatarType /\ spec[o].life = "deleted" /\ BlueprintTypeOK
        /\ {} \in SUBSET Part /\ "absent" \in Life
    BY <1>2, WorkerFacts DEF BlueprintInv, WorkerFits, Life
  <1>5. faults' = 0 => Empty(o, PartTables) /\ o \notin types
    BY <1>2, <1>3 DEF BlueprintInv, EmptyFits
  <1> HIDE DEF o
  <1>6. CASE ~ok
    <2>1. spec' = spec
      BY <1>1, <1>6
    <2>2. WrittenFits'
      BY <1>2, <2>1, WrittenStays
    <2> QED  BY <1>2, <1>3, <2>1, <2>2, RestKeeps DEF BlueprintInv, BlueprintTypeOK
  <1>7. CASE ok
    <2>1. /\ spec' \in [AvatarType -> [life : Life, parts : SUBSET Part]]
          /\ spec'[o].life = "absent"
          /\ \A q \in AvatarType : q # o => spec'[q] = spec[q]
      BY <1>1, <1>4, <1>7, SetSpecFacts
    <2>2. worker' \in Worker /\ worker'.pc = "idle"
      BY <1>2, RestingFacts
    <2>3. BlueprintTypeOK'
      BY <1>2, <2>1, <2>2 DEF BlueprintInv, BlueprintTypeOK
    <2>4. DeclaredFit'
      BY <1>2, <2>1 DEF BlueprintInv, DeclaredFit, EverDeclared
    <2>5. WrittenFits'
      BY <1>2, <1>4, <2>1 DEF BlueprintInv, WrittenFits, Has
    <2>6. WorkerFits'
      BY <2>2 DEF WorkerFits
    <2>7. EmptyFits'
      BY <1>2, <1>3, <1>5, <2>1, <2>2 DEF BlueprintInv, EmptyFits, Empty
    <2> QED  BY <1>3, <2>3, <2>4, <2>5, <2>6, <2>7 DEF BlueprintInv
  <1> QED  BY <1>6, <1>7

-----------------------------------------------------------------------------
(* The specification.                                                      *)

LEMMA WorkerStepKeeps ==
    ASSUME BlueprintInv, WorkerStep
    PROVE  BlueprintInv'
  BY AdoptKeeps, ReconcileKeeps, FinalizeKeeps, WriteTypeKeeps, WritePartKeeps,
     WrittenKeeps, PurgePartsKeeps, PurgeTypeKeeps, ReleaseKeeps DEF WorkerStep

LEMMA DesignerKeeps ==
    ASSUME BlueprintInv, Designer
    PROVE  BlueprintInv'
  BY ApplyKeeps, DeleteAvatarKeeps DEF Designer

LEMMA CrashKeepsBlueprint ==
    ASSUME BlueprintInv, Crash
    PROVE  BlueprintInv'
  <1>1. worker' = Resting /\ UNCHANGED <<spec, types, rows, changes, ever, written, faults>>
    BY DEF Crash
  <1>2. WrittenFits'
    BY <1>1, WrittenStays
  <1> QED  BY <1>1, <1>2, RestKeeps DEF BlueprintInv, BlueprintTypeOK

\* The handlers change no blueprint, and send at most one statement a step.
LEMMA HandlerFacts ==
    ASSUME NEW c \in Client, Receive(c) \/ Reject(c) \/ Step(c)
    PROVE  /\ UNCHANGED blueprint
           /\ UNCHANGED faults \/ \E ok \in BOOLEAN : Statement(ok)
  <1>1. CASE Receive(c) \/ Reject(c)
    BY <1>1 DEF Receive, Reject
  <1>2. CASE Create(c)
    <2>1. CASE CreateConflict(c)
      BY <2>1 DEF CreateConflict, InsertInstance
    <2>2. CASE CreateInsert(c)
      BY <2>2 DEF CreateInsert
    <2>3. CASE CheckType(c) \/ CheckTable(c) \/ CheckCustomizations(c) \/ CheckOption(c)
      BY <2>3 DEF CheckType, CheckTable, CheckCustomizations, CheckOption
    <2>4. CASE CreateChild(c) \/ CreateFilled(c) \/ CreateReply(c)
      BY <2>4 DEF CreateChild, CreateFilled, CreateReply
    <2> QED  BY <1>2, <2>1, <2>2, <2>3, <2>4 DEF Create
  <1>3. CASE Read(c)
    BY <1>3 DEF Read, GetFind, ListFind, ListNext, ListReply, BuildTable, BuildNext, GetReply
  <1>4. CASE Delete(c)
    BY <1>4 DEF Delete, DeleteFind, DeleteTable, DeleteRemove
  <1> QED  BY <1>1, <1>2, <1>3, <1>4 DEF Step

LEMMA BlueprintStep == BlueprintInv /\ [Next]_vars => BlueprintInv'
  <1> SUFFICES ASSUME BlueprintInv, [Next]_vars PROVE BlueprintInv'
    OBVIOUS
  <1>1. CASE UNCHANGED vars
    BY <1>1, HandlersKeepBlueprint DEF vars
  <1>2. ASSUME NEW c \in Client, Receive(c) \/ Reject(c) \/ Step(c)
        PROVE  BlueprintInv'
    BY <1>2, HandlerFacts, HandlersKeepBlueprint
  <1>3. CASE Designer
    BY <1>3, DesignerKeeps
  <1>4. CASE Reconciler
    BY <1>4, WorkerStepKeeps DEF Reconciler
  <1>5. CASE Crash
    BY <1>5, CrashKeepsBlueprint
  <1> QED  BY <1>1, <1>2, <1>3, <1>4, <1>5 DEF Next

\* BlueprintInv is an invariant: what the reconciler writes was declared, and
\* what it has completed stays until the resource is deleted.
THEOREM BlueprintInvariantHolds == Spec => []BlueprintInv
  BY BlueprintStarts, BlueprintStep, PTL DEF Spec

\* Once an Avatar resource is gone, so are all rows of its blueprint, however
\* often they were inserted, as long as no statement has failed
\* (avatar_controller.go:65-70).
THEOREM NothingLeftBehind == Spec => []GoneLeavesNothing
  <1>1. BlueprintInv => GoneLeavesNothing
    <2> SUFFICES ASSUME BlueprintInv, faults = 0, NEW o \in AvatarType,
                        spec[o].life \in {"absent", "new"}
                 PROVE  o \notin types /\ \A p \in Part : rows[o][p] = 0
      BY DEF GoneLeavesNothing
    <2>1. o \notin types /\ Empty(o, PartTables)
      BY DEF BlueprintInv, EmptyFits
    <2>2. \A p \in Part : Kind[p] \in PartTables
      BY DEF PartTables
    <2> QED  BY <2>1, <2>2 DEF Empty
  <1> QED  BY <1>1, BlueprintInvariantHolds, PTL
=============================================================================
