----------------------------- MODULE MCFasterFtl -----------------------------
(* FasterFtl on bank 1 of two: SW log block, two RW log blocks, five       *)
(* isolation blocks, and a bad block.  The host first writes nine pages    *)
(* out of order, which the collection moves to the isolation area, and     *)
(* then one of two pages at a time, among them a run of four and marked    *)
(* sectors, until full merges have been round that area.                   *)
EXTENDS FasterFtl

OnePage == [t \in 0 .. 2 |-> 1]
\* the whole of page i of the bank; a marked sector of it
W(i) == <<2 * i + bank, 0, 2, Plain>>
X(i) == <<2 * i + bank, 1, 1, Mark>>
Fill == <<{W(5), W(0)}>> \o [n \in 1 .. 8 |-> {W((n * 5 + 5) % 12)}]
Mix == <<{W(3), W(0)}, {Flush, W(4)}, {W(7), X(7)}, {W(8), W(1)}, {W(2)}, {W(3), X(3)}, {W(4), W(0)},
         {W(5), W(9)}, {W(11), W(5)}, {W(0), W(6)}, {W(9), W(8), X(10)}, {W(10), W(2)}, {W(8), W(7)}, {W(9)},
         {W(10), W(8)}, {W(11), W(3)}, {W(4), W(5)}, {W(5),W(6)}, {W(6), W(0)}, {W(7)}>>
MixedLoad == Fill \o Mix
=============================================================================
