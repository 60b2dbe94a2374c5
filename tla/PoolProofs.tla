----------------------------- MODULE PoolProofs -----------------------------
(***************************************************************************)
(* PoolInv is inductive, for any callers, games, hosts and bounds; the     *)
(* safety properties of the pool follow from it.                           *)
(***************************************************************************)
EXTENDS PoolInvariant, TLAPS

USE PoolAssumption DEF PoolAssumption

Holding == {"ping", "store", "use"}
Empty == {"load", "delete", "create"}

\* What the type of a call says, case by case.
LEMMA CallShape ==
  ASSUME NEW r \in Call
  PROVE  /\ r.pc \in Holding => r.conn \in Conn
         /\ r.pc \in Empty => r.conn = None
         /\ r.pc \in Holding \cup Empty => r.host \in Host
         /\ r.pc \notin Holding \cup Empty => r = NoCall
         /\ r.conn # None => r.pc \in Holding
  BY DEF Call, NoCall, Holding, Empty, Conn, None

\* A caller that moves on keeps its host; the others stay where they are.
LEMMA GotoShape ==
  ASSUME call \in [Caller -> Call], NEW c \in Caller, call[c].pc # "idle",
         NEW pc, NEW k, Goto(c, pc, k),
         \/ pc \in Holding /\ k \in Conn
         \/ pc \in Empty /\ k = None
  PROVE  /\ call' \in [Caller -> Call]
         /\ call'[c].pc = pc /\ call'[c].conn = k /\ call'[c].host = call[c].host
         /\ \A d \in Caller \ {c} : call'[d] = call[d]
<1>1. call[c] \in Call
  OBVIOUS
<1>2. call[c].pc \in Holding \cup Empty /\ call[c].host \in Host
  BY <1>1 DEF Call, NoCall, Holding, Empty
<1>3. [pc |-> pc, host |-> call[c].host, conn |-> k] \in Call
  BY <1>2 DEF Call, Holding, Empty
<1> QED
  BY <1>3 DEF Goto

LEMMA LeaveShape ==
  ASSUME call \in [Caller -> Call], NEW c \in Caller, Leave(c)
  PROVE  /\ call' \in [Caller -> Call]
         /\ call'[c] = NoCall
         /\ \A d \in Caller \ {c} : call'[d] = call[d]
  BY DEF Leave, Call

LEMMA PoolInit == Init => PoolInv
<1> SUFFICES ASSUME Init PROVE PoolInv
  OBVIOUS
<1>1. PoolTypeOK
  BY DEF Init, PoolTypeOK, Call, Work, NoCall, NoWork, Conn, None
<1>2. \A c \in Caller : call[c].pc = "idle" /\ call[c].conn = None
  BY DEF Init, NoCall
<1> QED
  BY <1>1, <1>2 DEF Init, PoolInv, RefersToCreated, OriginKept, PooledFresh,
     UnstoredPrivate, GivenWasPooled, ClosingDropped, NoWork, None, At

-----------------------------------------------------------------------------
(* The steps of GetOrCreateConnection.                                     *)

\* A caller that holds nothing afterwards changes only its own record.
LEMMA EmptyHanded ==
  ASSUME PoolInv, NEW c \in Caller,
         call' \in [Caller -> Call], call'[c].conn = None,
         \A d \in Caller \ {c} : call'[d] = call[d],
         UNCHANGED <<pool, connections, dropped, games>>, faults' \in 0 .. MaxFaults
  PROVE  PoolInv'
<1>1. PoolTypeOK'
  BY DEF PoolInv, PoolTypeOK, connections, games
<1>2. \A d \in Caller : call'[d].conn # None => call'[d] = call[d]
  OBVIOUS
<1>3. call'[c].pc \notin Holding
  <2>1. call'[c] \in Call /\ None \notin Conn
    BY DEF Conn, None
  <2> QED
    BY <2>1, CallShape
<1>4. RefersToCreated' /\ OriginKept'
  BY <1>2 DEF PoolInv, RefersToCreated, OriginKept, Created, connections
<1>5. PooledFresh' /\ ClosingDropped'
  BY DEF PoolInv, PooledFresh, ClosingDropped, connections, games
<1>6. UnstoredPrivate'
  <2> SUFFICES ASSUME NEW e \in Caller, At(e, "store")'
               PROVE  /\ call'[e].conn \in open \ dropped
                      /\ \A h \in Host : pool[h] # call'[e].conn
                      /\ \A d \in Caller \ {e} : call'[d].conn # call'[e].conn
    BY DEF UnstoredPrivate, connections
  <2>1. e # c /\ call'[e] = call[e] /\ At(e, "store")
    BY <1>3 DEF At, Holding
  <2>2. call[e].conn \in Conn
    BY <2>1, CallShape DEF PoolInv, PoolTypeOK, At, Holding
  <2> QED
    BY <2>1, <2>2 DEF PoolInv, UnstoredPrivate, Conn, None
<1>7. GivenWasPooled'
  BY <1>3 DEF PoolInv, GivenWasPooled, Holding
<1> QED
  BY <1>1, <1>4, <1>5, <1>6, <1>7 DEF PoolInv

LEMMA AskStep == ASSUME PoolInv, NEW c \in Caller, Ask(c) PROVE PoolInv'
<1>1. PICK g \in Game :
        call' = [call EXCEPT ![c] = [pc |-> "load", host |-> HostOf[g], conn |-> None]]
  BY DEF Ask
<1>2. [pc |-> "load", host |-> HostOf[g], conn |-> None] \in Call
  BY DEF Call
<1> QED
  BY <1>1, <1>2, EmptyHanded DEF Ask, PoolInv, PoolTypeOK

\* A caller whose connection is an entry, or was one, before and after.
LEMMA GivenStep ==
  ASSUME PoolInv, NEW c \in Caller, call[c].pc # "idle",
         NEW pc \in {"ping", "use"}, NEW k \in Conn, Goto(c, pc, k),
         pool[call[c].host] = k \/ (call[c].conn = k /\ call[c].pc = "ping"),
         UNCHANGED <<pool, connections, dropped, games, faults>>
  PROVE  PoolInv'
<1>1. /\ call' \in [Caller -> Call]
      /\ call'[c].pc = pc /\ call'[c].conn = k /\ call'[c].host = call[c].host
      /\ \A d \in Caller \ {c} : call'[d] = call[d]
  BY GotoShape DEF PoolInv, PoolTypeOK, Holding
<1>2. call[c].host \in Host /\ k # None
  BY CallShape DEF PoolInv, PoolTypeOK, Conn, None, NoCall
<1>3. k = pool[call[c].host] \/ k \in dropped
  BY <1>2 DEF PoolInv, GivenWasPooled
<1>4. origin[k] = call[c].host /\ k \in Created
  BY <1>2 DEF PoolInv, OriginKept, RefersToCreated
<1>5. PoolTypeOK'
  BY <1>1 DEF PoolInv, PoolTypeOK, connections, games
<1>6. RefersToCreated' /\ OriginKept'
  BY <1>1, <1>4 DEF PoolInv, RefersToCreated, OriginKept, Created, connections
<1>7. PooledFresh' /\ ClosingDropped'
  BY DEF PoolInv, PooledFresh, ClosingDropped, connections, games
<1>8. UnstoredPrivate'
  BY <1>1, <1>2, <1>3 DEF PoolInv, UnstoredPrivate, At, connections
<1>9. GivenWasPooled'
  BY <1>1, <1>3 DEF PoolInv, GivenWasPooled
<1> QED
  BY <1>5, <1>6, <1>7, <1>8, <1>9 DEF PoolInv

LEMMA LoadStep == ASSUME PoolInv, NEW c \in Caller, Load(c) PROVE PoolInv'
<1> DEFINE entry == pool[call[c].host]
<1>1. call[c].pc = "load" /\ call[c].host \in Host
  BY CallShape DEF Load, At, PoolInv, PoolTypeOK, Empty
<1>2. CASE entry = None
  <2>1. Goto(c, "create", None) /\ UNCHANGED <<pool, connections, dropped, games, faults>>
    BY <1>2 DEF Load
  <2>2. call' \in [Caller -> Call] /\ call'[c].conn = None
        /\ \A d \in Caller \ {c} : call'[d] = call[d]
    BY <1>1, <2>1, GotoShape DEF PoolInv, PoolTypeOK, Empty
  <2>3. faults' \in 0 .. MaxFaults
    BY <2>1 DEF PoolInv, PoolTypeOK
  <2> QED
    BY <2>1, <2>2, <2>3, EmptyHanded
<1>3. CASE entry # None
  <2>1. Goto(c, "ping", entry) /\ UNCHANGED <<pool, connections, dropped, games, faults>>
    BY <1>3 DEF Load
  <2>2. entry \in Conn
    BY <1>1, <1>3 DEF PoolInv, PoolTypeOK
  <2> HIDE DEF entry
  <2>3. pool[call[c].host] = entry
    BY DEF entry
  <2> QED
    BY <1>1, <2>1, <2>2, <2>3, GivenStep
<1> QED
  BY <1>2, <1>3

LEMMA PingAnsweredStep == ASSUME PoolInv, NEW c \in Caller, PingAnswered(c) PROVE PoolInv'
<1>1. call[c].pc = "ping" /\ call[c].conn \in Conn
  BY CallShape DEF PingAnswered, At, PoolInv, PoolTypeOK, Holding
<1>2. Goto(c, "use", call[c].conn) /\ UNCHANGED <<pool, connections, dropped, games, faults>>
  BY DEF PingAnswered
<1> QED
  BY <1>1, <1>2, GivenStep

LEMMA PingFailedStep == ASSUME PoolInv, NEW c \in Caller, PingFailed(c) PROVE PoolInv'
<1>1. call[c].pc = "ping" /\ Goto(c, "delete", None)
  BY DEF PingFailed, At
<1>2. call' \in [Caller -> Call] /\ call'[c].conn = None
      /\ \A d \in Caller \ {c} : call'[d] = call[d]
  BY <1>1, GotoShape DEF PoolInv, PoolTypeOK, Empty
<1>3. faults' \in 0 .. MaxFaults
  BY DEF PingFailed, Fault, PoolInv, PoolTypeOK
<1> QED
  BY <1>2, <1>3, EmptyHanded DEF PingFailed

LEMMA CreateFailedStep == ASSUME PoolInv, NEW c \in Caller, CreateFailed(c) PROVE PoolInv'
<1>1. call' \in [Caller -> Call] /\ call'[c].conn = None
      /\ \A d \in Caller \ {c} : call'[d] = call[d]
  BY LeaveShape DEF CreateFailed, PoolInv, PoolTypeOK, NoCall
<1>2. faults' \in 0 .. MaxFaults
  BY DEF CreateFailed, Fault, PoolInv, PoolTypeOK
<1> QED
  BY <1>1, <1>2, EmptyHanded DEF CreateFailed

LEMMA DoneStep == ASSUME PoolInv, NEW c \in Caller, Done(c) PROVE PoolInv'
<1>1. call' \in [Caller -> Call] /\ call'[c].conn = None
      /\ \A d \in Caller \ {c} : call'[d] = call[d]
  BY LeaveShape DEF Done, PoolInv, PoolTypeOK, NoCall
<1>2. faults' \in 0 .. MaxFaults
  BY DEF Done, PoolInv, PoolTypeOK
<1> QED
  BY <1>1, <1>2, EmptyHanded DEF Done

\* Taking the entry of a host out of the pool: the other entries were never
\* dropped, and whoever holds the entry now holds a dropped connection.
LEMMA DropKeeps ==
  ASSUME PoolInv, NEW h \in Host, Drop(h)
  PROVE  /\ pool' \in [Host -> Conn \cup {None}]
         /\ dropped' \subseteq dropped \cup {pool[h]} /\ dropped \subseteq dropped'
         /\ pool[h] # None => pool[h] \in dropped'
         /\ \A g \in Host : pool'[g] # None => pool'[g] = pool[g] /\ pool[g] \notin dropped'
         /\ dropped' \subseteq Created /\ dropped' \subseteq Conn
         /\ \A c \in Caller : At(c, "store") => call[c].conn \notin dropped'
         /\ \A g \in Host : pool[g] # pool'[g] => pool[g] \in dropped'
<1>1. pool \in [Host -> Conn \cup {None}] /\ dropped \subseteq Conn
  BY DEF PoolInv, PoolTypeOK
<1>2. /\ pool' \in [Host -> Conn \cup {None}] /\ pool'[h] = None
      /\ \A g \in Host \ {h} : pool'[g] = pool[g]
  BY <1>1 DEF Drop
<1>3. dropped' = dropped \cup ({pool[h]} \ {None})
  BY DEF Drop
<1>4. \A g \in Host : pool'[g] # None => pool'[g] = pool[g] /\ pool[g] \notin dropped'
  <2> SUFFICES ASSUME NEW g \in Host, pool'[g] # None
               PROVE  pool'[g] = pool[g] /\ pool[g] \notin dropped'
    OBVIOUS
  <2>1. g # h /\ pool'[g] = pool[g]
    BY <1>2
  <2>2. pool[g] \notin dropped
    BY <2>1 DEF PoolInv, PooledFresh
  <2>3. pool[h] # None => pool[g] # pool[h]
    BY <2>1 DEF PoolInv, OriginKept
  <2> QED
    BY <1>3, <2>1, <2>2, <2>3
<1>5. \A c \in Caller : At(c, "store") => call[c].conn \notin dropped'
  BY <1>3 DEF PoolInv, UnstoredPrivate
<1>6. dropped' \subseteq Created /\ dropped' \subseteq Conn
  BY <1>1, <1>3 DEF PoolInv, RefersToCreated
<1>7. \A g \in Host : pool[g] # pool'[g] => pool[g] \in dropped'
  BY <1>2, <1>3
<1> QED
  BY <1>2, <1>3, <1>4, <1>5, <1>6, <1>7

LEMMA DeleteStep == ASSUME PoolInv, NEW c \in Caller, Delete(c) PROVE PoolInv'
<1> DEFINE h == call[c].host
<1>1. call[c].pc = "delete" /\ h \in Host /\ Goto(c, "create", None) /\ Drop(h)
      /\ UNCHANGED <<connections, games, faults>>
  BY CallShape DEF Delete, At, PoolInv, PoolTypeOK, Empty
<1> HIDE DEF h
<1>2. /\ call' \in [Caller -> Call] /\ call'[c].conn = None
      /\ \A d \in Caller \ {c} : call'[d] = call[d]
  BY <1>1, GotoShape DEF PoolInv, PoolTypeOK, Empty
<1>3. /\ pool' \in [Host -> Conn \cup {None}]
      /\ dropped \subseteq dropped'
      /\ \A g \in Host : pool'[g] # None => pool'[g] = pool[g] /\ pool[g] \notin dropped'
      /\ dropped' \subseteq Created /\ dropped' \subseteq Conn
      /\ \A d \in Caller : At(d, "store") => call[d].conn \notin dropped'
      /\ \A g \in Host : pool[g] # pool'[g] => pool[g] \in dropped'
  BY <1>1, DropKeeps
<1>4. PoolTypeOK'
  BY <1>1, <1>2, <1>3 DEF PoolInv, PoolTypeOK, connections, games
<1>5. RefersToCreated' /\ OriginKept'
  BY <1>1, <1>2, <1>3 DEF PoolInv, RefersToCreated, OriginKept, Created, connections
<1>6. PooledFresh' /\ ClosingDropped'
  BY <1>1, <1>3 DEF PoolInv, PooledFresh, ClosingDropped, connections, games
<1>7. call'[c].pc = "create"
  BY <1>1, GotoShape DEF PoolInv, PoolTypeOK, Empty
<1>8. UnstoredPrivate'
  <2> SUFFICES ASSUME NEW e \in Caller, At(e, "store")'
               PROVE  /\ call'[e].conn \in open \ dropped'
                      /\ \A g \in Host : pool'[g] # call'[e].conn
                      /\ \A d \in Caller \ {e} : call'[d].conn # call'[e].conn
    BY <1>1 DEF UnstoredPrivate, connections
  <2>1. e # c /\ call'[e] = call[e] /\ At(e, "store")
    BY <1>2, <1>7 DEF At
  <2>2. call[e].conn \in Conn /\ call[e].conn # None
    BY <2>1, CallShape DEF PoolInv, PoolTypeOK, At, Holding, Conn, None
  <2> QED
    BY <1>2, <1>3, <2>1, <2>2 DEF PoolInv, UnstoredPrivate
<1>9. GivenWasPooled'
  <2> SUFFICES ASSUME NEW e \in Caller, call'[e].pc \in {"ping", "use"}
               PROVE  call'[e].conn = pool'[call'[e].host] \/ call'[e].conn \in dropped'
    BY DEF GivenWasPooled
  <2>1. e # c /\ call'[e] = call[e]
    BY <1>2, <1>7
  <2>2. call[e].host \in Host
    BY <2>1, CallShape DEF PoolInv, PoolTypeOK, Holding
  <2> QED
    BY <1>3, <2>1, <2>2 DEF PoolInv, GivenWasPooled
<1> QED
  BY <1>4, <1>5, <1>6, <1>8, <1>9 DEF PoolInv

LEMMA CreateStep == ASSUME PoolInv, NEW c \in Caller, Create(c) PROVE PoolInv'
<1>1. /\ call[c].pc = "create" /\ Goto(c, "store", nextConn) /\ nextConn \in Conn
      /\ call[c].host \in Host
      /\ open' = open \cup {nextConn} /\ nextConn' = nextConn + 1
      /\ origin' = [origin EXCEPT ![nextConn] = call[c].host]
      /\ UNCHANGED <<pool, dropped, games, faults>>
  BY CallShape DEF Create, At, PoolInv, PoolTypeOK, Empty, Conn
<1>2. /\ call' \in [Caller -> Call]
      /\ call'[c].pc = "store" /\ call'[c].conn = nextConn /\ call'[c].host = call[c].host
      /\ \A d \in Caller \ {c} : call'[d] = call[d]
  BY <1>1, GotoShape DEF PoolInv, PoolTypeOK, Holding
<1>3. nextConn \notin Created /\ Created' = Created \cup {nextConn} /\ None \notin Created
  BY <1>1 DEF Created, Conn, None
<1>4. \A k \in Created : origin'[k] = origin[k]
  BY <1>1, <1>3 DEF PoolInv, PoolTypeOK, Created, Conn
<1>5. origin'[nextConn] = call[c].host
  BY <1>1 DEF PoolInv, PoolTypeOK
<1>6. PoolTypeOK'
  BY <1>1, <1>2 DEF PoolInv, PoolTypeOK, games, Conn
<1>7. RefersToCreated'
  BY <1>1, <1>2, <1>3 DEF PoolInv, RefersToCreated
<1>8. OriginKept'
  BY <1>1, <1>2, <1>4, <1>5 DEF PoolInv, RefersToCreated, OriginKept
<1>9. PooledFresh' /\ ClosingDropped'
  BY <1>1 DEF PoolInv, PooledFresh, ClosingDropped, games
<1>10. UnstoredPrivate'
  <2> SUFFICES ASSUME NEW e \in Caller, At(e, "store")'
               PROVE  /\ call'[e].conn \in open' \ dropped
                      /\ \A g \in Host : pool[g] # call'[e].conn
                      /\ \A d \in Caller \ {e} : call'[d].conn # call'[e].conn
    BY <1>1 DEF UnstoredPrivate
  <2>1. CASE e = c
    BY <1>1, <1>2, <1>3, <2>1 DEF PoolInv, RefersToCreated, Conn, None
  <2>2. CASE e # c
    <3>1. call'[e] = call[e] /\ At(e, "store")
      BY <1>2, <2>2 DEF At
    <3>2. call[e].conn \in Created
      BY <3>1, CallShape DEF PoolInv, PoolTypeOK, RefersToCreated, At, Holding, Conn, None
    <3> QED
      BY <1>1, <1>2, <1>3, <2>2, <3>1, <3>2 DEF PoolInv, UnstoredPrivate
  <2> QED
    BY <2>1, <2>2
<1>11. GivenWasPooled'
  BY <1>1, <1>2 DEF PoolInv, GivenWasPooled
<1> QED
  BY <1>6, <1>7, <1>8, <1>9, <1>10, <1>11 DEF PoolInv

LEMMA LoadOrStoreStep == ASSUME PoolInv, NEW c \in Caller, LoadOrStore(c) PROVE PoolInv'
<1> DEFINE h == call[c].host
           actual == IF pool[h] = None THEN call[c].conn ELSE pool[h]
<1>1. /\ call[c].pc = "store" /\ h \in Host /\ call[c].conn \in Conn
      /\ Goto(c, "use", actual) /\ pool' = [pool EXCEPT ![h] = actual]
      /\ UNCHANGED <<connections, dropped, games, faults>>
  BY CallShape DEF LoadOrStore, At, PoolInv, PoolTypeOK, Holding
<1>2. /\ actual \in Conn /\ actual \in Created /\ actual \in open \ dropped /\ actual # None
      /\ origin[actual] = h
      /\ pool[h] # None => actual = pool[h]
      /\ pool[h] = None => actual = call[c].conn
  <2>1. call[c].conn # None
    BY <1>1 DEF Conn, None
  <2>2. CASE pool[h] = None
    BY <1>1, <2>1, <2>2 DEF PoolInv, OriginKept, UnstoredPrivate, RefersToCreated, At
  <2>3. CASE pool[h] # None
    BY <1>1, <2>3 DEF PoolInv, PoolTypeOK, OriginKept, PooledFresh, RefersToCreated
  <2> QED
    BY <2>2, <2>3
<1> HIDE DEF h, actual
<1>3. /\ call' \in [Caller -> Call]
      /\ call'[c].pc = "use" /\ call'[c].conn = actual /\ call'[c].host = h
      /\ \A d \in Caller \ {c} : call'[d] = call[d]
  BY <1>1, <1>2, GotoShape DEF PoolInv, PoolTypeOK, Holding, h
<1>4. pool' \in [Host -> Conn \cup {None}] /\ pool'[h] = actual
      /\ \A g \in Host \ {h} : pool'[g] = pool[g]
  BY <1>1, <1>2 DEF PoolInv, PoolTypeOK
<1>5. PoolTypeOK'
  BY <1>1, <1>3, <1>4 DEF PoolInv, PoolTypeOK, connections, games
<1>6. RefersToCreated'
  BY <1>1, <1>2, <1>3, <1>4 DEF PoolInv, RefersToCreated, Created, connections
<1>7. OriginKept'
  BY <1>1, <1>2, <1>3, <1>4 DEF PoolInv, OriginKept, connections
<1>8. PooledFresh' /\ ClosingDropped'
  BY <1>1, <1>2, <1>4 DEF PoolInv, PooledFresh, ClosingDropped, connections, games
<1>9. UnstoredPrivate'
  <2> SUFFICES ASSUME NEW e \in Caller, At(e, "store")'
               PROVE  /\ call'[e].conn \in open \ dropped
                      /\ \A g \in Host : pool'[g] # call'[e].conn
                      /\ \A d \in Caller \ {e} : call'[d].conn # call'[e].conn
    BY <1>1 DEF UnstoredPrivate, connections
  <2>1. e # c /\ call'[e] = call[e] /\ At(e, "store")
    BY <1>3 DEF At
  <2>2. /\ call[e].conn \in open \ dropped
        /\ \A g \in Host : pool[g] # call[e].conn
        /\ \A d \in Caller \ {e} : call[d].conn # call[e].conn
    BY <2>1 DEF PoolInv, UnstoredPrivate
  <2>3. actual # call[e].conn
    BY <1>1, <1>2, <2>1, <2>2
  <2> QED
    BY <1>3, <1>4, <2>1, <2>2, <2>3
<1>10. GivenWasPooled'
  <2> SUFFICES ASSUME NEW e \in Caller, call'[e].pc \in {"ping", "use"}
               PROVE  call'[e].conn = pool'[call'[e].host] \/ call'[e].conn \in dropped
    BY <1>1 DEF GivenWasPooled
  <2>1. CASE e = c
    BY <1>3, <1>4, <2>1
  <2>2. CASE e # c
    <3>1. call'[e] = call[e] /\ call[e].host \in Host /\ call[e].conn # None
      BY <1>3, <2>2, CallShape DEF PoolInv, PoolTypeOK, Holding, Conn, None
    <3>2. call[e].conn = pool[call[e].host] \/ call[e].conn \in dropped
      BY <3>1 DEF PoolInv, GivenWasPooled
    <3> QED
      BY <1>2, <1>4, <3>1, <3>2
  <2> QED
    BY <2>1, <2>2
<1> QED
  BY <1>5, <1>6, <1>7, <1>8, <1>9, <1>10 DEF PoolInv

-----------------------------------------------------------------------------
(* The steps of the Game reconciler.                                       *)

\* A step that touches neither the pool nor a connection nor a call.
LEMMA GameStep ==
  ASSUME PoolInv, PoolTypeOK', worker'.conn = None \/ worker' = worker,
         UNCHANGED <<pool, connections, dropped, call>>
  PROVE  PoolInv'
  BY DEF PoolInv, RefersToCreated, OriginKept, PooledFresh, UnstoredPrivate,
     GivenWasPooled, ClosingDropped, Created, At, connections

LEMMA ResourceStep ==
  ASSUME PoolInv, NEW g \in Game, GameCreated(g) \/ AddFinalizer(g) \/ GameDeleted(g)
  PROVE  PoolInv'
<1>1. /\ game' \in [Game -> {"absent", "new", "live", "terminating"}]
      /\ UNCHANGED <<pool, connections, dropped, call, worker, faults>>
  BY DEF PoolInv, PoolTypeOK, GameCreated, AddFinalizer, GameDeleted
<1>2. PoolTypeOK'
  BY <1>1 DEF PoolInv, PoolTypeOK, connections
<1> QED
  BY <1>1, <1>2, GameStep

LEMMA FinalizedStep == ASSUME PoolInv, Finalized \/ FinalizeFailed PROVE PoolInv'
<1>1. worker.game \in Game
  BY DEF PoolInv, PoolTypeOK, Finalized, FinalizeFailed, Work, NoWork
<1>2. /\ game' \in [Game -> {"absent", "new", "live", "terminating"}]
      /\ worker' = NoWork /\ faults' \in 0 .. MaxFaults
      /\ UNCHANGED <<pool, connections, dropped, call>>
  BY <1>1 DEF PoolInv, PoolTypeOK, Finalized, FinalizeFailed, Fault
<1>3. PoolTypeOK'
  BY <1>2 DEF PoolInv, PoolTypeOK, connections, Work
<1> QED
  BY <1>2, <1>3, GameStep DEF NoWork

LEMMA CloseLoadStep == ASSUME PoolInv, NEW g \in Game, CloseLoad(g) PROVE PoolInv'
<1> DEFINE h == HostOf[g]
<1>1. /\ h \in Host /\ Drop(h)
      /\ worker' = [pc |-> "close", game |-> g, conn |-> pool[h]]
      /\ UNCHANGED <<connections, call, game, faults>>
  BY DEF CloseLoad
<1> HIDE DEF h
<1>2. /\ pool' \in [Host -> Conn \cup {None}]
      /\ dropped \subseteq dropped'
      /\ pool[h] # None => pool[h] \in dropped'
      /\ \A i \in Host : pool'[i] # None => pool'[i] = pool[i] /\ pool[i] \notin dropped'
      /\ dropped' \subseteq Created /\ dropped' \subseteq Conn
      /\ \A d \in Caller : At(d, "store") => call[d].conn \notin dropped'
      /\ \A i \in Host : pool[i] # pool'[i] => pool[i] \in dropped'
  BY <1>1, DropKeeps
<1>3. PoolTypeOK'
  <2>1. worker' \in Work
    BY <1>1 DEF PoolInv, PoolTypeOK, Work
  <2> QED
    BY <1>1, <1>2, <2>1 DEF PoolInv, PoolTypeOK, connections
<1>4. RefersToCreated' /\ OriginKept'
  BY <1>1, <1>2 DEF PoolInv, RefersToCreated, OriginKept, Created, connections
<1>5. PooledFresh' /\ ClosingDropped'
  BY <1>1, <1>2 DEF PoolInv, PooledFresh, ClosingDropped, connections
<1>6. UnstoredPrivate'
  <2> SUFFICES ASSUME NEW e \in Caller, At(e, "store")
               PROVE  /\ call[e].conn \in open \ dropped'
                      /\ \A i \in Host : pool'[i] # call[e].conn
                      /\ \A d \in Caller \ {e} : call[d].conn # call[e].conn
    BY <1>1 DEF UnstoredPrivate, connections, At
  <2>1. call[e].conn # None
    BY CallShape DEF PoolInv, PoolTypeOK, At, Holding, Conn, None
  <2> QED
    BY <1>2, <2>1 DEF PoolInv, UnstoredPrivate
<1>7. GivenWasPooled'
  <2> SUFFICES ASSUME NEW e \in Caller, call[e].pc \in {"ping", "use"}
               PROVE  call[e].conn = pool'[call[e].host] \/ call[e].conn \in dropped'
    BY <1>1 DEF GivenWasPooled
  <2>1. call[e].host \in Host
    BY CallShape DEF PoolInv, PoolTypeOK, Holding
  <2> QED
    BY <1>2, <2>1 DEF PoolInv, GivenWasPooled
<1> QED
  BY <1>3, <1>4, <1>5, <1>6, <1>7 DEF PoolInv

LEMMA CloseCloseStep == ASSUME PoolInv, CloseClose PROVE PoolInv'
<1>1. /\ worker.game \in Game /\ worker.pc = "close" /\ open' = open \ {worker.conn}
      /\ worker' = [worker EXCEPT !.pc = "finalize", !.conn = None]
      /\ UNCHANGED <<pool, dropped, origin, nextConn, call, game, faults>>
  BY DEF CloseClose, PoolInv, PoolTypeOK, Work, NoWork
<1>2. worker' \in Work /\ worker'.conn = None
  BY <1>1 DEF PoolInv, PoolTypeOK, Work, NoWork
<1>3. \A k \in open \ dropped : k \in open'
  <2>1. worker.conn = None \/ worker.conn \in dropped
    BY DEF PoolInv, ClosingDropped
  <2>2. None \notin open
    BY DEF PoolInv, PoolTypeOK, Conn, None
  <2> QED
    BY <1>1, <2>1, <2>2
<1>4. PoolTypeOK'
  BY <1>1, <1>2 DEF PoolInv, PoolTypeOK
<1>5. RefersToCreated' /\ OriginKept' /\ GivenWasPooled' /\ ClosingDropped'
  BY <1>1, <1>2 DEF PoolInv, RefersToCreated, OriginKept, GivenWasPooled, ClosingDropped, Created
<1>6. PooledFresh' /\ UnstoredPrivate'
  BY <1>1, <1>3 DEF PoolInv, PooledFresh, UnstoredPrivate, At
<1> QED
  BY <1>4, <1>5, <1>6 DEF PoolInv

-----------------------------------------------------------------------------
(* The theorems.                                                           *)

LEMMA PoolStep == PoolInv /\ [Next]_vars => PoolInv'
<1> SUFFICES ASSUME PoolInv, [Next]_vars PROVE PoolInv'
  OBVIOUS
<1>1. ASSUME NEW c \in Caller, Ask(c) \/ Get(c) \/ Done(c) PROVE PoolInv'
  BY <1>1, AskStep, LoadStep, PingAnsweredStep, PingFailedStep, DeleteStep, CreateStep,
     CreateFailedStep, LoadOrStoreStep, DoneStep DEF Get
<1>2. ASSUME NEW g \in Game, GameCreated(g) \/ AddFinalizer(g) \/ GameDeleted(g) PROVE PoolInv'
  BY <1>2, ResourceStep
<1>3. CASE Finalize
  BY <1>3, CloseLoadStep, CloseCloseStep, FinalizedStep DEF Finalize
<1>4. CASE UNCHANGED vars
  BY <1>4 DEF vars, PoolInv, PoolTypeOK, RefersToCreated, OriginKept, PooledFresh,
     UnstoredPrivate, GivenWasPooled, ClosingDropped, Created, At
<1> QED
  BY <1>1, <1>2, <1>3, <1>4 DEF Next

\* The inductive invariant holds in every reachable state.
THEOREM PoolInvariantHolds == Spec => []PoolInv
  BY PoolInit, PoolStep, PTL DEF Spec

\* Types; no successful call of GetOrCreateConnection returns nil
\* (pool.go:19, 31).
THEOREM PoolTypeCorrect == Spec => []PoolTypeOK
<1>1. PoolInv => PoolTypeOK
  BY DEF PoolInv
<1> QED
  BY <1>1, PoolInvariantHolds, PTL

\* No entry of the pool is a closed connection (pool.go:34-41).
THEOREM NoClosedEntry == Spec => []PooledAreOpen
<1>1. PoolInv => PooledAreOpen
  BY DEF PoolInv, PooledFresh, PooledAreOpen
<1> QED
  BY <1>1, PoolInvariantHolds, PTL

\* What a caller is given is an entry of its host, or was one: never the
\* connection that lost LoadOrStore (pool.go:30-31).
THEOREM GivenFromPool == Spec => []UsedWasPooled
<1>1. PoolInv => UsedWasPooled
  <2> SUFFICES ASSUME PoolInv, NEW c \in Caller, At(c, "use")
               PROVE  /\ call[c].conn = pool[call[c].host] \/ call[c].conn \in dropped
                      /\ origin[call[c].conn] = call[c].host
    BY DEF UsedWasPooled
  <2>1. call[c].conn # None
    BY CallShape DEF PoolInv, PoolTypeOK, At, Holding, Conn, None
  <2> QED
    BY <2>1 DEF PoolInv, GivenWasPooled, OriginKept, At
<1> QED
  BY <1>1, PoolInvariantHolds, PTL

\* An entry changes only when a failed ping or a finalizer takes it out
\* (pool.go:22, 35).
THEOREM EntriesShared == Spec => EntriesStay
<1>1. PoolInv /\ [Next]_vars =>
        [\A h \in Host : pool[h] # None /\ pool'[h] # pool[h] => pool[h] \in dropped']_vars
  <2> SUFFICES ASSUME PoolInv, Next, NEW h \in Host, pool[h] # None, pool'[h] # pool[h]
               PROVE  pool[h] \in dropped'
    OBVIOUS
  <2>1. ASSUME NEW i \in Host, Drop(i) PROVE pool[h] \in dropped'
    BY <2>1, DropKeeps
  <2>2. ASSUME NEW c \in Caller, Ask(c) \/ Get(c) \/ Done(c) PROVE pool[h] \in dropped'
    <3>1. CASE Delete(c)
      <4>1. call[c].host \in Host /\ Drop(call[c].host)
        BY <3>1, CallShape DEF Delete, At, PoolInv, PoolTypeOK, Empty
      <4> QED
        BY <4>1, <2>1
    <3>2. CASE LoadOrStore(c)
      <4>1. pool' = [pool EXCEPT ![call[c].host] =
                       IF pool[call[c].host] = None THEN call[c].conn ELSE pool[call[c].host]]
        BY <3>2 DEF LoadOrStore
      <4>2. pool \in [Host -> Conn \cup {None}]
        BY DEF PoolInv, PoolTypeOK
      <4>3. pool'[h] = pool[h]
        BY <4>1, <4>2
      <4> QED
        BY <4>3
    <3>3. CASE UNCHANGED pool
      BY <3>3
    <3> QED
      BY <2>2, <3>1, <3>2, <3>3 DEF Get, Ask, Load, PingAnswered, PingFailed, Create,
         CreateFailed, Done
  <2>3. ASSUME NEW g \in Game, CloseLoad(g) PROVE pool[h] \in dropped'
    BY <2>1, <2>3 DEF CloseLoad
  <2>4. CASE UNCHANGED pool
    BY <2>4
  <2> QED
    BY <2>2, <2>3, <2>4 DEF Next, Finalize, GameCreated, AddFinalizer, GameDeleted,
       CloseClose, Finalized, FinalizeFailed
<1> QED
  BY <1>1, PoolInvariantHolds, PTL DEF Spec, EntriesStay
=============================================================================
