------------------------------- MODULE Ledger -------------------------------
(***************************************************************************)
(* What the wallets promise, without tables, snapshots or statements:      *)
(* every request moves money in one step, at most once, by exactly its     *)
(* amount, within what some declared version of the currency allows; a     *)
(* refused, lost or failed request moves nothing.                          *)
(***************************************************************************)
EXTENDS Integers

CONSTANTS Client, Avatar, Currency, Declared, Workload, NoRequest

VARIABLES
    open,       \* avatars that exist
    books,      \* for each avatar and currency no balance ({}) or one ({n})
    pending     \* for each client the request that has not ended yet

vars == <<open, books, pending>>

Init ==
    /\ open = {}
    /\ books = [a \in Avatar |-> [k \in Currency |-> {}]]
    /\ pending = [c \in Client |-> NoRequest]

Begin(c) ==
    /\ pending[c] = NoRequest
    /\ \E r \in Workload[c] : pending' = [pending EXCEPT ![c] = r]
    /\ UNCHANGED <<open, books>>

\* The request is over: nothing is left to be done for it.
Ended(c) == pending' = [pending EXCEPT ![c] = NoRequest]
End(c) == Ended(c) /\ UNCHANGED <<open, books>>

Asks(c, op) == pending[c] # NoRequest /\ pending[c].op = op

Open(c) ==
    /\ Asks(c, "create")
    /\ pending[c].a \notin open
    /\ open' = open \cup {pending[c].a}
    /\ \/ pending' = [pending EXCEPT ![c].op = "endow"]
       \/ Ended(c)
    /\ UNCHANGED books

\* A new avatar gets each initial balance once, and only in an empty book.
Endow(c) ==
    /\ Asks(c, "endow")
    /\ pending[c].a \in open
    /\ \E k \in Currency : \E d \in Declared[k] :
         /\ d.initial > 0
         /\ books[pending[c].a][k] = {}
         /\ books' = [books EXCEPT ![pending[c].a][k] = {d.initial}]
    /\ UNCHANGED <<open, pending>>

Purge(c) ==
    /\ Asks(c, "delete")
    /\ pending[c].a \in open
    /\ books' = [books EXCEPT ![pending[c].a] = [k \in Currency |-> {}]]
    /\ UNCHANGED <<open, pending>>

Close(c) ==
    /\ Asks(c, "delete")
    /\ open' = open \ {pending[c].a}
    /\ books' = [books EXCEPT ![pending[c].a] = [k \in Currency |-> {}]]
    /\ Ended(c)

\* What an avatar owns; without a balance that is 0.
Worth(a, k) == IF books[a][k] = {} THEN 0 ELSE CHOOSE n \in books[a][k] : TRUE

Fits(d, n) == d.max > 0 => n <= d.max

Credit(c) ==
    /\ Asks(c, "credit")
    /\ LET r == pending[c]
           new == Worth(r.a, r.c) + r.n
       IN  /\ r.a \in open
           /\ \E d \in Declared[r.c] : Fits(d, new)
           /\ books' = [books EXCEPT ![r.a][r.c] = {new}]
    /\ Ended(c)
    /\ UNCHANGED open

Debit(c) ==
    /\ Asks(c, "debit")
    /\ LET r == pending[c]
       IN  /\ r.a \in open
           /\ r.n <= Worth(r.a, r.c)
           /\ books' = [books EXCEPT ![r.a][r.c] = {Worth(r.a, r.c) - r.n}]
    /\ Ended(c)
    /\ UNCHANGED open

Transfer(c) ==
    /\ Asks(c, "transfer")
    /\ LET r == pending[c]
           new == Worth(r.b, r.c) + r.n
       IN  /\ {r.a, r.b} \subseteq open
           /\ r.a # r.b
           /\ r.n <= Worth(r.a, r.c)
           /\ \E d \in Declared[r.c] : d.tradeable /\ Fits(d, new)
           /\ books' = [books EXCEPT ![r.a][r.c] = {Worth(r.a, r.c) - r.n},
                                     ![r.b][r.c] = {new}]
    /\ Ended(c)
    /\ UNCHANGED open

\* The server dies: no pending request is ever served.
Crash == pending' = [c \in Client |-> NoRequest] /\ UNCHANGED <<open, books>>

Next == \/ \E c \in Client : \/ Begin(c) \/ End(c) \/ Open(c) \/ Endow(c)
                             \/ Purge(c) \/ Close(c)
                             \/ Credit(c) \/ Debit(c) \/ Transfer(c)
        \/ Crash

Spec == Init /\ [][Next]_vars
=============================================================================
