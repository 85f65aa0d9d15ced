---------------------------- MODULE MCReqRoutines ----------------------------
(* ReqRoutines with disks as model values; they are interchangeable.  The  *)
(* even permutations merge nearly as many states as all do, at half the    *)
(* cost.                                                                   *)
EXTENDS ReqRoutines, TLC

Number == CHOOSE f \in [Disks -> 1 .. Cardinality(Disks)] :
            \A d, e \in Disks : f[d] = f[e] => d = e

Inversions(p) == {x \in Disks \X Disks : /\ Number[x[1]] < Number[x[2]]
                                         /\ Number[p[x[1]]] > Number[p[x[2]]]}

Symmetry == {p \in Permutations(Disks) : Cardinality(Inversions(p)) % 2 = 0}
=============================================================================
