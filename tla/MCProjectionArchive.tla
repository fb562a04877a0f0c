------------------------ MODULE MCProjectionArchive ------------------------
(* A small instance of the projection archive for TLC. *)
EXTENDS ProjectionArchive, TLC

CONSTANTS
    w1, w2,               \* two collector processes
    old, new, raw         \* a line, its repost and an unresolved athlete's line

\* The repost replaces the line of the same market.
Markets == [r \in Refs |-> IF r = raw THEN "rebounds" ELSE "points"]

WorkerSymmetry == Permutations(Workers)

Board(complete, refs) == [complete |-> complete, refs |-> refs]
SomeBoards == {Board(TRUE, {old, raw}), Board(FALSE, {new})}

=============================================================================
