---------------------------- MODULE MCRenameBatch ----------------------------
EXTENDS RenameBatch
CONSTANTS a, b, c, d

\* A chain, a swap, a free place or one taken by a file that stays, by where the invoices are.
MCTarget == [i \in Invoices |-> CASE i = a -> 2 [] i = b -> 3 [] i = c -> 1 [] OTHER -> None]
=============================================================================
