---------------------------- MODULE MCTutorialFtl ----------------------------
(* TutorialFtl on two banks of four vblocks.  Bad are vblocks 1 and 2 of   *)
(* bank 0 and all but vblock 0 of bank 1, which the last entry of its scan *)
(* list makes usable and which is soon full.                               *)
EXTENDS TutorialFtl

ScanList == [b \in 0 .. 1 |-> IF b = 0 THEN <<2, 5>> ELSE <<4, 2, 7>>]
MCBuffers == FtlBuffers
MCData == Written \cup {Erased, Cleared}
MCWrites == {<<0, 3>>, <<1, 1>>, <<2, 3>>, <<4, 2>>}
MCReads  == {<<1, 3>>}
MCCopies == {<<4, 0, 2>>, <<2, 4, 2>>}
=============================================================================
