------------------------------ MODULE MCDacFtl ------------------------------
(* DacFtl on two banks of ten vblocks, four of them metadata and one bad.  *)
(* The host fills logical pages 0, 2, 4 and 6 of bank 0 in order and goes  *)
(* on with any mix of writes to hot pages and rare ones to cold pages,     *)
(* until blocks of both regions have been collected; bank 1 has one write. *)
EXTENDS DacFtl

ScanList == [b \in Banks |-> IF b = 0 THEN {10} ELSE {}]
EraseFailed == [b \in Banks |-> IF b = 0 THEN {} ELSE {2}]
Whole(l) == <<l, 0, 2, Plain>>
Hot  == {Whole(0), <<2, 0, 1, Plain>>}
Cold == {Whole(4), Whole(6)}
Fill == <<{Whole(0)}, {<<2, 0, 1, Plain>>, <<2, 1, 1, Mark>>}, {Whole(4)}, {Whole(6)}>>
Mix  == <<Hot, Hot \cup Cold, Hot, Hot \cup {<<2, 1, 1, Mark>>}, Hot \cup Cold, Hot, Hot \cup Cold,
          Hot, Hot, Hot \cup Cold>>
MixedLoad == [b \in Banks |-> IF b = 0 THEN Fill \o Mix ELSE <<{Whole(1)}>>]
LightLoad == [b \in Banks |-> IF b = 0 THEN <<{Whole(0)}>> ELSE <<>>]
=============================================================================
