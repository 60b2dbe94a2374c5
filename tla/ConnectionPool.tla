--------------------------- MODULE ConnectionPool ---------------------------
(***************************************************************************)
(* The process-wide pool of database connections: a sync.Map from the name *)
(* of a game's PostgreSQL service to a *gorm.DB.  API handlers and the     *)
(* reconcilers of child resources go through GetOrCreateConnection; the    *)
(* Game reconciler calls CloseConnection when it finalizes a deleted Game. *)
(* Each operation of sync.Map is atomic, the sequences of them are not.    *)
(***************************************************************************)
EXTENDS Integers

CONSTANTS
    Caller,     \* goroutines that may ask for a connection at the same time
    Game,       \* Game resources, of any namespace
    Host,       \* service names
    HostOf,     \* for each Game its service name, which leaves the namespace out
    MaxConn,    \* bound: connections ever created
    MaxFaults   \* bound: failed pings, connection attempts and finalizer updates

ASSUME PoolAssumption ==
    /\ HostOf \in [Game -> Host]
    /\ MaxConn \in Nat /\ MaxFaults \in Nat

Conn == 1 .. MaxConn
None == 0

VARIABLES
    pool,       \* for each host its entry, None if there is none
    open,       \* connections created and not closed
    origin,     \* for each connection, the host it was created for
    nextConn,   \* the next connection to be created
    dropped,    \* history: connections that were taken out of the pool
    call,       \* for each caller, where it is: [pc, host, conn]
    game,       \* for each Game: absent, new (no finalizer yet), live, or terminating
    worker,     \* the Game reconciler's one worker, finalizing: [pc, game, conn]
    faults

vars == <<pool, open, origin, nextConn, dropped, call, game, worker, faults>>
connections == <<open, origin, nextConn>>
games == <<game, worker>>

NoCall == [pc |-> "idle", host |-> None, conn |-> None]
NoWork == [pc |-> "idle", game |-> None, conn |-> None]

Init ==
    /\ pool = [h \in Host |-> None]
    /\ open = {} /\ nextConn = 1 /\ dropped = {}
    /\ origin = [k \in Conn |-> None]
    /\ call = [c \in Caller |-> NoCall]
    /\ game = [g \in Game |-> "absent"]
    /\ worker = NoWork
    /\ faults = 0

At(c, pc) == call[c].pc = pc
Goto(c, pc, k) == call' = [call EXCEPT ![c] = [pc |-> pc, host |-> @.host, conn |-> k]]
Leave(c) == call' = [call EXCEPT ![c] = NoCall]
Fault == faults < MaxFaults /\ faults' = faults + 1

\* sync.Map.Delete and LoadAndDelete.
Drop(h) ==
    /\ pool' = [pool EXCEPT ![h] = None]
    /\ dropped' = dropped \cup ({pool[h]} \ {None})

-----------------------------------------------------------------------------
(* GetOrCreateConnection.                                                  *)

\* resolveGameDB and getGameDB look the Game up before they ask for its
\* connection; one that is terminating is still found.
Ask(c) ==
    /\ At(c, "idle")
    /\ \E g \in Game :
         /\ game[g] # "absent"
         /\ call' = [call EXCEPT ![c] = [pc |-> "load", host |-> HostOf[g], conn |-> None]]
    /\ UNCHANGED <<pool, connections, dropped, games, faults>>

Load(c) ==
    /\ At(c, "load")
    /\ LET entry == pool[call[c].host]
       IN  IF entry = None THEN Goto(c, "create", None) ELSE Goto(c, "ping", entry)
    /\ UNCHANGED <<pool, connections, dropped, games, faults>>

\* A closed sql.DB never answers a ping.
PingAnswered(c) ==
    /\ At(c, "ping")
    /\ call[c].conn \in open
    /\ Goto(c, "use", call[c].conn)
    /\ UNCHANGED <<pool, connections, dropped, games, faults>>

PingFailed(c) ==
    /\ At(c, "ping")
    /\ IF call[c].conn \in open THEN Fault ELSE UNCHANGED faults
    /\ Goto(c, "delete", None)
    /\ UNCHANGED <<pool, connections, dropped, games>>

\* Takes out whatever the entry is by now, and closes nothing.
Delete(c) ==
    /\ At(c, "delete")
    /\ Drop(call[c].host)
    /\ Goto(c, "create", None)
    /\ UNCHANGED <<connections, games, faults>>

Create(c) ==
    /\ At(c, "create")
    /\ nextConn <= MaxConn
    /\ open' = open \cup {nextConn}
    /\ origin' = [origin EXCEPT ![nextConn] = call[c].host]
    /\ nextConn' = nextConn + 1
    /\ Goto(c, "store", nextConn)
    /\ UNCHANGED <<pool, dropped, games, faults>>

\* The database does not answer: the caller gets the error.
CreateFailed(c) ==
    /\ At(c, "create")
    /\ Fault
    /\ Leave(c)
    /\ UNCHANGED <<pool, connections, dropped, games>>

\* Faulty variant of LoadOrStore: the caller gets what was there before.
LoadOrStore_Previous(c) ==
    /\ At(c, "store")
    /\ pool' = [pool EXCEPT ![call[c].host] = IF @ = None THEN call[c].conn ELSE @]
    /\ Goto(c, "use", pool[call[c].host])
    /\ UNCHANGED <<connections, dropped, games, faults>>

\* Faulty variant of LoadOrStore: Store, which replaces an entry.
LoadOrStore_Overwrites(c) ==
    /\ At(c, "store")
    /\ pool' = [pool EXCEPT ![call[c].host] = call[c].conn]
    /\ Goto(c, "use", call[c].conn)
    /\ UNCHANGED <<connections, dropped, games, faults>>

\* Faulty variant of LoadOrStore: the caller keeps the connection it made.
LoadOrStore_KeepsOwn(c) ==
    /\ At(c, "store")
    /\ pool' = [pool EXCEPT ![call[c].host] = IF @ = None THEN call[c].conn ELSE @]
    /\ Goto(c, "use", call[c].conn)
    /\ UNCHANGED <<connections, dropped, games, faults>>

\* The first one stored is given to everybody; a connection that comes second
\* is neither used nor closed.
LoadOrStore(c) ==
    /\ At(c, "store")
    /\ LET h == call[c].host
           actual == IF pool[h] = None THEN call[c].conn ELSE pool[h]
       IN  /\ pool' = [pool EXCEPT ![h] = actual]
           /\ Goto(c, "use", actual)
    /\ UNCHANGED <<connections, dropped, games, faults>>

\* The caller has sent its statements and drops the *gorm.DB.
Done(c) ==
    /\ At(c, "use")
    /\ Leave(c)
    /\ UNCHANGED <<pool, connections, dropped, games, faults>>

-----------------------------------------------------------------------------
(* The Game resource and its finalizer.                                    *)

GameCreated(g) ==
    /\ game[g] = "absent"
    /\ game' = [game EXCEPT ![g] = "new"]
    /\ UNCHANGED <<pool, connections, dropped, call, worker, faults>>

\* The first reconciliation.
AddFinalizer(g) ==
    /\ game[g] = "new" /\ worker.pc = "idle"
    /\ game' = [game EXCEPT ![g] = "live"]
    /\ UNCHANGED <<pool, connections, dropped, call, worker, faults>>

\* Without a finalizer the Game is gone at once.
GameDeleted(g) ==
    /\ game[g] \in {"new", "live"}
    /\ game' = [game EXCEPT ![g] = IF @ = "new" THEN "absent" ELSE "terminating"]
    /\ UNCHANGED <<pool, connections, dropped, call, worker, faults>>

\* Faulty variant of CloseLoad: the entry stays while it is being closed.
CloseLoad_KeepsEntry(g) ==
    /\ game[g] = "terminating" /\ worker.pc = "idle"
    /\ worker' = [pc |-> "close", game |-> g, conn |-> pool[HostOf[g]]]
    /\ UNCHANGED <<pool, dropped, connections, call, game, faults>>

\* CloseConnection: LoadAndDelete, then Close.
CloseLoad(g) ==
    /\ game[g] = "terminating" /\ worker.pc = "idle"
    /\ Drop(HostOf[g])
    /\ worker' = [pc |-> "close", game |-> g, conn |-> pool[HostOf[g]]]
    /\ UNCHANGED <<connections, call, game, faults>>

CloseClose ==
    /\ worker.pc = "close"
    /\ open' = open \ {worker.conn}
    /\ worker' = [worker EXCEPT !.pc = "finalize", !.conn = None]
    /\ UNCHANGED <<pool, dropped, origin, nextConn, call, game, faults>>

\* RemoveFinalizer and Update; the Game goes away with its last finalizer.
Finalized ==
    /\ worker.pc = "finalize"
    /\ game' = [game EXCEPT ![worker.game] = "absent"]
    /\ worker' = NoWork
    /\ UNCHANGED <<pool, dropped, connections, call, faults>>

\* The update fails: the request is retried from the start.
FinalizeFailed ==
    /\ worker.pc = "finalize"
    /\ Fault
    /\ worker' = NoWork
    /\ UNCHANGED <<pool, dropped, connections, call, game>>

Get(c) == \/ Load(c) \/ PingAnswered(c) \/ PingFailed(c) \/ Delete(c)
          \/ Create(c) \/ CreateFailed(c) \/ LoadOrStore(c)
Finalize == (\E g \in Game : CloseLoad(g)) \/ CloseClose \/ Finalized \/ FinalizeFailed

Next == \/ \E c \in Caller : Ask(c) \/ Get(c) \/ Done(c)
        \/ \E g \in Game : GameCreated(g) \/ AddFinalizer(g) \/ GameDeleted(g)
        \/ Finalize

Spec == Init /\ [][Next]_vars

-----------------------------------------------------------------------------
(* Properties.                                                             *)

Call == {NoCall}
        \cup [pc : {"load", "delete", "create"}, host : Host, conn : {None}]
        \cup [pc : {"ping", "store", "use"}, host : Host, conn : Conn]
Work == {NoWork} \cup [pc : {"close", "finalize"}, game : Game, conn : Conn \cup {None}]

\* Types; a call that returns without an error returns a connection, never
\* nil (pool.go:19, 31).
PoolTypeOK ==
    /\ pool \in [Host -> Conn \cup {None}]
    /\ open \subseteq Conn /\ dropped \subseteq Conn
    /\ origin \in [Conn -> Host \cup {None}]
    /\ nextConn \in 1 .. MaxConn + 1
    /\ call \in [Caller -> Call]
    /\ game \in [Game -> {"absent", "new", "live", "terminating"}]
    /\ worker \in Work
    /\ faults \in 0 .. MaxFaults

\* A connection in the pool is never a closed one: CloseConnection takes it
\* out before it closes it (pool.go:35-38), and none of the callers that got
\* hold of it earlier puts it back.
PooledAreOpen == \A h \in Host : pool[h] # None => pool[h] \in open

\* A caller is only ever given a connection to the host it asked for, which
\* is or was in the pool: the one that lost the race of LoadOrStore is used
\* by nobody (pool.go:30-31).
UsedWasPooled ==
    \A c \in Caller :
        At(c, "use") =>
            /\ call[c].conn = pool[call[c].host] \/ call[c].conn \in dropped
            /\ origin[call[c].conn] = call[c].host

\* Callers of a host share one connection until it is taken out of the pool
\* by a failed ping or a finalizer (pool.go:22, 35): nobody replaces an entry.
EntriesStay ==
    [][\A h \in Host : pool[h] # None /\ pool'[h] # pool[h] => pool[h] \in dropped']_vars

=============================================================================
