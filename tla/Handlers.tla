------------------------------ MODULE Handlers ------------------------------
(***************************************************************************)
(* What the REST handlers that write have in common: every request runs in *)
(* a goroutine of its own (net/http), works on the avatar instances of one *)
(* game, and sends one SQL statement after the other.  task holds the      *)
(* local variables of each running handler, reply the response sent by the *)
(* last step.                                                              *)
(***************************************************************************)
EXTENDS Tables

CONSTANTS
    Client,         \* requests that can be in progress at the same time
    Avatar,         \* avatar instance names
    IntLimit,       \* int64 is -IntLimit .. IntLimit - 1
    MaxInstance,    \* bound: avatar instances ever inserted
    MaxFaults       \* bound: SQL statements that fail

VARIABLES
    instances,      \* avatar_instances: [id, name], name unique
    nextInst,       \* the sequence behind its autoincrement key
    faults,         \* failed statements so far
    task,           \* for each client, the handler serving its request
    reply

\* The outcome of one statement; a failure uses up one of MaxFaults.
Statement(ok) ==
    \/ ok /\ UNCHANGED faults
    \/ ~ok /\ faults < MaxFaults /\ faults' = faults + 1

At(c, op, pc) == task[c].pc = pc /\ task[c].req.op = op

InstanceRows(a) == {i \in instances : i.name = a}

\* The id of the instance of that name, 0 when none is found: every handler
\* answers 404 then.
Named(a, ok) ==
    LET found == Answer(InstanceRows(a), ok)
    IN  IF found = {} THEN {0} ELSE {i.id : i \in found}

\* Faulty variant of NewInstance: the first id that is free is taken again.
NewInstance_ReusedId(a) ==
    [id |-> CHOOSE n \in 1 .. nextInst : \A i \in instances : i.id # n, name |-> a]


NewInstance(a) == [id |-> nextInst, name |-> a]

Int64 == -IntLimit .. IntLimit - 1

\* Go's int64 addition wraps around.
Plus(x, y) == IF x + y >= IntLimit THEN x + y - 2 * IntLimit ELSE x + y
=============================================================================
