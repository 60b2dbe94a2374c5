------------------------------- MODULE MCPool -------------------------------
(* Small instances of ConnectionPool for TLC.                              *)
EXTENDS PoolInvariant, TLC

CONSTANTS c1, c2, rpg, rpgElsewhere, chess, rpgHost, chessHost

\* Two Games of one name in two namespaces, and a third one.
Hosts == rpg :> rpgHost @@ rpgElsewhere :> rpgHost @@ chess :> chessHost

Alike == Permutations(Caller)
=============================================================================
