------------------------------- MODULE Tables -------------------------------
(***************************************************************************)
(* The SQL statements the handlers issue through gorm, over tables that    *)
(* are sets of records with a field "id" (gorm's autoincrement primary     *)
(* key).  PostgreSQL and gorm are not under src/: these operators say what *)
(* the code relies on.                                                     *)
(***************************************************************************)
EXTENDS Integers

\* db.Where(...).First(&x): the matching row with the smallest primary key,
\* as a set with one member; empty stands for ErrRecordNotFound.
First(rows) == {r \in rows : \A q \in rows : r.id <= q.id}

\* No handler tells ErrRecordNotFound from a failed query: both are
\* "result.Error != nil".  ok says that the statement reached the database.
Answer(rows, ok) == IF ok THEN First(rows) ELSE {}

\* db.Model(&row).Update("balance", n): WHERE id = row.ID.  A row that is
\* gone is no error: the statement changes nothing.
SetBalance(rows, id, n) ==
    {IF r.id = id THEN [r EXCEPT !.bal = n] ELSE r : r \in rows}

\* The same for the columns "quantity" and "equipped" of inventory rows.
SetQuantity(rows, id, n) ==
    {IF r.id = id THEN [r EXCEPT !.qty = n] ELSE r : r \in rows}
SetEquipped(rows, id, on) ==
    {IF r.id = id THEN [r EXCEPT !.equipped = on] ELSE r : r \in rows}

\* db.Delete(&row): WHERE id = row.ID.
Remove(rows, id) == {r \in rows : r.id # id}
=============================================================================
