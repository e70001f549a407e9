--------------------------- MODULE MC_CommentTree ---------------------------
(* Comment lists of up to three comments with ids from four, so that a    *)
(* list can hold roots, replies two deep, replies to a comment not in the *)
(* list and replies that answer each other in a cycle.                    *)
EXTENDS CommentTree

CONSTANTS c1, c2, c3, c4, null

MCIds == {c1, c2, c3, c4}
=============================================================================
