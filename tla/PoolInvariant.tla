---------------------------- MODULE PoolInvariant ----------------------------
(***************************************************************************)
(* The inductive invariant of ConnectionPool: where a connection can be at *)
(* each moment between Create and Close.                                   *)
(***************************************************************************)
EXTENDS ConnectionPool

\* Nothing refers to a connection that has not been created yet.
Created == 1 .. nextConn - 1
RefersToCreated ==
    /\ open \subseteq Created /\ dropped \subseteq Created
    /\ \A h \in Host : pool[h] # None => pool[h] \in Created
    /\ \A c \in Caller : call[c].conn # None => call[c].conn \in Created

\* Every connection stays with the host it was created for.
OriginKept ==
    /\ \A h \in Host : pool[h] # None => origin[pool[h]] = h
    /\ \A c \in Caller : call[c].conn # None => origin[call[c].conn] = call[c].host

\* An entry is open and was never taken out before.
PooledFresh == \A h \in Host : pool[h] # None => pool[h] \in open \ dropped

\* A connection that its creator has yet to store is known to nobody else.
UnstoredPrivate ==
    \A c \in Caller : At(c, "store") =>
        /\ call[c].conn \in open \ dropped
        /\ \A h \in Host : pool[h] # call[c].conn
        /\ \A d \in Caller \ {c} : call[d].conn # call[c].conn

\* A connection that a caller was given is an entry, or was one.
GivenWasPooled ==
    \A c \in Caller : call[c].pc \in {"ping", "use"} =>
        call[c].conn = pool[call[c].host] \/ call[c].conn \in dropped

\* What the finalizer closes is out of the pool.
ClosingDropped == worker.conn # None => worker.conn \in dropped

\* The inductive invariant of ConnectionPool: a connection is private to its
\* creator, then in the pool, then dropped, and only then closed
\* (pool.go:25-40).
PoolInv ==
    /\ PoolTypeOK
    /\ RefersToCreated
    /\ OriginKept
    /\ PooledFresh
    /\ UnstoredPrivate
    /\ GivenWasPooled
    /\ ClosingDropped
=============================================================================
