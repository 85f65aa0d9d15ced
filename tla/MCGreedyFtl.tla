----------------------------- MODULE MCGreedyFtl -----------------------------
(* Bank 0 has two logical pages on its two user blocks and the free block, so that
   collections copy; bank 1 has one page.  Page 2 is written in halves.  The mark is in
   page 0 or in the right half of page 2: page 0 is written again when it is gone. *)
EXTENDS GreedyFtl

\* the block of the map in bank 0, of user data in bank 1
OneBad  == [b \in Banks |-> IF b = 0 THEN {5} ELSE {10, 11}]

WholePages == {<<0, 0, SECTORS_PER_PAGE, Mark>>, <<1, 0, SECTORS_PER_PAGE, Plain>>}
HalfPages  == {<<2, 0, 1, Plain>>, <<2, 1, 1, Plain>>, <<2, 1, 1, Mark>>}
HostWrites == WholePages \cup HalfPages
=============================================================================
