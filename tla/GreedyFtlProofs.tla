-------------------------- MODULE GreedyFtlProofs --------------------------
(***************************************************************************)
(* Proofs about GreedyFtl: the metadata agrees with itself and with the    *)
(* flash, reads return the latest data, no page is programmed twice, the   *)
(* log holds the whole page map and the ASSERTs hold but in one situation, *)
(* for every number of banks, blocks, pages and logical pages, every list  *)
(* of bad blocks and every stream of writes within the provisioning.       *)
(*                                                                         *)
(* The inductive invariant IInv speaks of each bank by itself: where the   *)
(* write position is, what is programmed, which places the page map and    *)
(* the lists name, the counts, the data and the logs.  Its operators take  *)
(* the tables as parameters, so that a step that changes several of them   *)
(* in turn (a collection, then a write) is followed lemma by lemma:        *)
(* NextPageOk, NextBlockOk and GcOk lead to the state in which write_page  *)
(* runs, WriteOk from it to the next one, FlushOk covers ftl_flush and the *)
(* end of format.                                                          *)
(***************************************************************************)
EXTENDS GreedyFtl, NumberLemmas, FiniteSetTheorems, TLAPS

-----------------------------------------------------------------------------
(* Counting *)

\* The rank of the members of a finite set of numbers numbers them from 0.
LEMMA Ranks ==
  ASSUME NEW S \in SUBSET Int, IsFiniteSet(S)
  PROVE  /\ Cardinality(S) \in Nat
         /\ \A p \in S : /\ CopyTo(S, p) \in 0 .. Cardinality(S) - 1
                         /\ \A q \in S : p < q => CopyTo(S, p) < CopyTo(S, q)
         /\ \A k \in 0 .. Cardinality(S) - 1 : \E p \in S : CopyTo(S, p) = k
BY CountBelow DEF CopyTo

\* Disjoint sets of k elements or more take k times their number.
LEMMA Packed ==
  ASSUME NEW S, IsFiniteSet(S), NEW D, IsFiniteSet(D), NEW k \in Nat,
         NEW F \in [S -> SUBSET D],
         \A v \in S : Cardinality(F[v]) >= k,
         \A v, w \in S : v # w => F[v] \cap F[w] = {}
  PROVE  Cardinality(D) >= Cardinality(S) * k
<1> DEFINE G == [v \in S |-> CHOOSE g : g \in Injection(1 .. k, F[v])]
           h == [z \in S \X (1 .. k) |-> G[z[1]][z[2]]]
<1>1. ASSUME NEW v \in S PROVE G[v] \in Injection(1 .. k, F[v])
  <2>1. F[v] \in SUBSET D
    OBVIOUS
  <2>2. IsFiniteSet(F[v])
    BY <2>1, FS_Subset
  <2>3. Cardinality(F[v]) \in Nat /\ ExistsBijection(1 .. Cardinality(F[v]), F[v])
    BY <2>2, FS_CardinalityType
  <2>4. PICK g : g \in Bijection(1 .. Cardinality(F[v]), F[v])
    BY <2>3 DEF ExistsBijection
  <2>5. 1 .. k \subseteq 1 .. Cardinality(F[v])
    BY <2>3
  <2>6. [i \in 1 .. k |-> g[i]] \in Injection(1 .. k, F[v])
    BY <2>4, <2>5 DEF Bijection, Injection, IsInjective
  <2> QED
    BY <2>6
<1>2. \A v \in S : \A i \in 1 .. k : G[v][i] \in F[v]
  BY <1>1 DEF Injection
<1>3. \A v \in S : \A i, j \in 1 .. k : G[v][i] = G[v][j] => i = j
  <2> SUFFICES ASSUME NEW v \in S PROVE \A i, j \in 1 .. k : G[v][i] = G[v][j] => i = j
    OBVIOUS
  <2>1. G[v] \in [1 .. k -> F[v]] /\ \A i, j \in DOMAIN G[v] : G[v][i] = G[v][j] => i = j
    BY <1>1 DEF Injection, IsInjective
  <2> HIDE DEF G
  <2> QED
    BY <2>1
<1> HIDE DEF G
<1>4. \A z \in S \X (1 .. k) : h[z] \in D /\ h[z] \in F[z[1]]
  BY <1>2
<1>5. \A y, z \in S \X (1 .. k) : h[y] = h[z] => y = z
  <2> SUFFICES ASSUME NEW y \in S \X (1 .. k), NEW z \in S \X (1 .. k), h[y] = h[z]
               PROVE  y = z
    OBVIOUS
  <2>1. y[1] = z[1]
    <3>1. h[y] \in F[y[1]] /\ h[y] \in F[z[1]]
      BY <1>4
    <3> QED
      BY <3>1
  <2>2. y[2] = z[2]
    BY <2>1, <1>3
  <2> QED
    BY <2>1, <2>2
<1>6. h \in Injection(S \X (1 .. k), D)
  BY <1>4, <1>5 DEF Injection, IsInjective
<1> HIDE DEF h
<1>7. Cardinality(S \X (1 .. k)) <= Cardinality(D)
  BY <1>6, FS_Injection
<1>8. IsFiniteSet(1 .. k) /\ Cardinality(1 .. k) = k
  BY FS_Interval
<1>9. Cardinality(S \X (1 .. k)) = Cardinality(S) * k
  BY <1>8, FS_Product
<1> QED
  BY <1>7, <1>9, FS_CardinalityType

\* A set that a one-to-one function maps onto another has as many members.
LEMMA SameSize ==
  ASSUME NEW S, NEW T, IsFiniteSet(S), NEW f \in [S -> T],
         \A x, y \in S : f[x] = f[y] => x = y,
         \A t \in T : \E x \in S : f[x] = t
  PROVE  IsFiniteSet(T) /\ Cardinality(T) = Cardinality(S)
<1>1. f \in Bijection(S, T)
  BY DEF Bijection, Injection, Surjection, IsInjective
<1> QED
  BY <1>1, FS_Bijection DEF ExistsBijection

\* The least member of a set of natural numbers.
LEMMA MinProperty ==
  ASSUME NEW S \in SUBSET Nat, S # {}
  PROVE  Min(S) \in S /\ \A y \in S : Min(S) <= y
<1>1. \E x \in S : \A y \in S : x =< y
  BY LeastNat
<1> QED
  BY <1>1 DEF Min


-----------------------------------------------------------------------------
(* Blocks and pages *)

\* What the geometry says of the sizes.
LEMMA Sizes ==
  /\ NUM_BANKS \in Nat \ {0} /\ VBLKS_PER_BANK \in Nat \ {0} /\ SECTORS_PER_PAGE \in Nat \ {0}
  /\ MAPBLKS_PER_BANK \in Nat \ {0} /\ MAP_ENTRIES \in Nat \ {0} /\ NUM_LPAGES \in Nat \ {0}
  /\ PAGES_PER_BLK \in Nat /\ PAGES_PER_BLK > 2 /\ PAGES_PER_BLK < VC_MAX
  /\ VC_MAX \in Nat /\ LAST = PAGES_PER_BLK - 1 /\ LAST \in Nat /\ LAST \in Offsets
BY Geometry DEF VC_MAX, LAST, Offsets

\* The page numbers of a bank are the pairs of a block and a page in it.
LEMMA Vpn ==
  ASSUME NEW v \in Int, NEW p \in Offsets
  PROVE  /\ VpnOf(v, p) \in Int /\ BlockOf(VpnOf(v, p)) = v /\ OffsetOf(VpnOf(v, p)) = p
         /\ VpnOf(v, 0) + p = VpnOf(v, p)
<1>1. VpnOf(v, p) = PAGES_PER_BLK * v + p /\ VpnOf(v, 0) = PAGES_PER_BLK * v
  BY Sizes DEF VpnOf, Offsets
<1>2. p \in 0 .. PAGES_PER_BLK - 1 /\ PAGES_PER_BLK \in Nat \ {0}
  BY Sizes DEF Offsets
<1>3. /\ PAGES_PER_BLK * v + p \in Int
      /\ (PAGES_PER_BLK * v + p) \div PAGES_PER_BLK = v
      /\ (PAGES_PER_BLK * v + p) % PAGES_PER_BLK = p
  BY <1>2, DivModUnique
<1> QED
  BY <1>1, <1>3 DEF BlockOf, OffsetOf

\* Every page number is a block and an offset in it.
LEMMA VpnSplit ==
  ASSUME NEW x \in Int
  PROVE  /\ BlockOf(x) \in Int /\ OffsetOf(x) \in Offsets
         /\ VpnOf(BlockOf(x), OffsetOf(x)) = x
<1>1. /\ x = PAGES_PER_BLK * (x \div PAGES_PER_BLK) + (x % PAGES_PER_BLK)
      /\ x \div PAGES_PER_BLK \in Int /\ x % PAGES_PER_BLK \in 0 .. PAGES_PER_BLK - 1
  <2>1. PAGES_PER_BLK \in Nat \ {0}
    BY Sizes
  <2> QED
    BY <2>1, DivMod
<1> DEFINE q == x \div PAGES_PER_BLK
           r == x % PAGES_PER_BLK
<1>2. q \in Int /\ r \in Int /\ x = PAGES_PER_BLK * q + r
  BY <1>1, Sizes
<1> HIDE DEF q, r
<1>3. x = q * PAGES_PER_BLK + r
  BY <1>2, Sizes
<1> QED
  BY <1>1, <1>3 DEF VpnOf, BlockOf, OffsetOf, Offsets, q, r

\* The order of the pages is that of their blocks, then of their offsets.
LEMMA VpnOrder ==
  ASSUME NEW v \in Int, NEW w \in Int, NEW p \in Offsets, NEW q \in Offsets
  PROVE  /\ v < w => VpnOf(v, p) < VpnOf(w, q)
         /\ VpnOf(v, p) < VpnOf(v, q) <=> p < q
         /\ VpnOf(v, LAST) + 1 = VpnOf(v + 1, 0)
<1>1. /\ VpnOf(v, p) = PAGES_PER_BLK * v + p /\ VpnOf(v, q) = PAGES_PER_BLK * v + q
      /\ VpnOf(w, q) = PAGES_PER_BLK * w + q
  BY Sizes DEF VpnOf, Offsets
<1>2. VpnOf(v, LAST) = PAGES_PER_BLK * v + LAST /\ VpnOf(v + 1, 0) = PAGES_PER_BLK * (v + 1)
  BY Sizes DEF VpnOf, Offsets
<1>3. PAGES_PER_BLK * (v + 1) = PAGES_PER_BLK * v + PAGES_PER_BLK
  BY Sizes
<1>4. PAGES_PER_BLK * v \in Int /\ PAGES_PER_BLK * w \in Int
  BY Sizes
<1>5. ASSUME v < w PROVE PAGES_PER_BLK * w >= PAGES_PER_BLK * v + PAGES_PER_BLK
  BY <1>5, Sizes
<1> DEFINE a == PAGES_PER_BLK * v
           c == PAGES_PER_BLK * w
<1>6. a \in Int /\ c \in Int /\ (v < w => c >= a + PAGES_PER_BLK)
  BY <1>4, <1>5
<1>7. /\ VpnOf(v, p) = a + p /\ VpnOf(v, q) = a + q /\ VpnOf(w, q) = c + q
      /\ VpnOf(v, LAST) = a + LAST /\ VpnOf(v + 1, 0) = a + PAGES_PER_BLK
  BY <1>1, <1>2, <1>3
<1> HIDE DEF a, c
<1>8. p \in 0 .. PAGES_PER_BLK - 1 /\ q \in 0 .. PAGES_PER_BLK - 1
  BY DEF Offsets
<1> QED
  BY <1>6, <1>7, <1>8, Sizes

\* The pages of a bank are those of its blocks.
LEMMA VPagesAre ==
  /\ \A x \in VPages : x \in Nat /\ BlockOf(x) \in VBlks /\ OffsetOf(x) \in Offsets
                       /\ VpnOf(BlockOf(x), OffsetOf(x)) = x
  /\ \A v \in VBlks, p \in Offsets :
       VpnOf(v, p) \in VPages /\ BlockOf(VpnOf(v, p)) = v /\ OffsetOf(VpnOf(v, p)) = p
<1> DEFINE top == VpnOf(VBLKS_PER_BANK, 0)
<1>0. 0 \in Offsets /\ VpnOf(0, 0) = 0 /\ VPages = 0 .. top - 1 /\ top \in Int
  BY Sizes DEF Offsets, VPages, VpnOf
<1>1. ASSUME NEW v \in VBlks, NEW p \in Offsets
      PROVE  VpnOf(v, p) \in VPages /\ BlockOf(VpnOf(v, p)) = v /\ OffsetOf(VpnOf(v, p)) = p
  <2>1. v \in Int /\ v < VBLKS_PER_BANK /\ 0 <= v /\ VBLKS_PER_BANK \in Int
    BY Sizes DEF VBlks
  <2>2. VpnOf(v, p) \in Int /\ BlockOf(VpnOf(v, p)) = v /\ OffsetOf(VpnOf(v, p)) = p
    BY <2>1, Vpn
  <2>3. VpnOf(v, p) < top
    BY <1>0, <2>1, VpnOrder
  <2>4. 0 <= VpnOf(v, p)
    <3>1. CASE v = 0
      BY <3>1, <1>0, Sizes DEF VpnOf, Offsets
    <3>2. CASE 0 < v
      <4>1. VpnOf(0, 0) < VpnOf(v, p)
        BY <3>2, <1>0, <2>1, VpnOrder
      <4> QED
        BY <4>1, <1>0, <2>2
    <3> QED
      BY <3>1, <3>2, <2>1
  <2> QED
    BY <1>0, <2>2, <2>3, <2>4
<1>2. ASSUME NEW x \in VPages
      PROVE  x \in Nat /\ BlockOf(x) \in VBlks /\ OffsetOf(x) \in Offsets
             /\ VpnOf(BlockOf(x), OffsetOf(x)) = x
  <2>1. x \in Int /\ 0 <= x /\ x < top
    BY <1>0
  <2>2. BlockOf(x) \in Int /\ OffsetOf(x) \in Offsets /\ VpnOf(BlockOf(x), OffsetOf(x)) = x
    BY <2>1, VpnSplit
  <2>3. BlockOf(x) < VBLKS_PER_BANK
    <3>1. CASE BlockOf(x) = VBLKS_PER_BANK
      <4>1. OffsetOf(x) \in Nat
        BY <2>2 DEF Offsets
      <4>2. top + OffsetOf(x) = x
        BY <3>1, <2>2, Vpn, Sizes
      <4> QED
        BY <4>1, <4>2, <2>1, <1>0
    <3>2. CASE VBLKS_PER_BANK < BlockOf(x)
      <4>1. top < VpnOf(BlockOf(x), OffsetOf(x))
        <5>1. VBLKS_PER_BANK \in Int /\ BlockOf(x) \in Int /\ 0 \in Offsets
              /\ OffsetOf(x) \in Offsets
          BY <2>2, <1>0, Sizes
        <5> QED
          BY <5>1, <3>2, VpnOrder
      <4> QED
        BY <4>1, <2>1, <2>2, <1>0
    <3> QED
      BY <3>1, <3>2, <2>2, Sizes
  <2>4. 0 <= BlockOf(x)
    <3>1. CASE BlockOf(x) < 0
      <4>1. VpnOf(BlockOf(x), OffsetOf(x)) < VpnOf(0, 0)
        BY <3>1, <2>2, <1>0, VpnOrder
      <4> QED
        BY <4>1, <2>1, <2>2, <1>0
    <3> QED
      BY <3>1, <2>2
  <2> QED
    BY <2>1, <2>2, <2>3, <2>4, Sizes DEF VBlks
<1> QED
  BY <1>1, <1>2

\* Distinct pages differ in block or offset.
LEMMA VpnDiffer ==
  \A x, y \in VPages : BlockOf(x) = BlockOf(y) /\ OffsetOf(x) = OffsetOf(y) => x = y
BY VPagesAre

\* The page after a page.
LEMMA NextVpn ==
  ASSUME NEW x \in Int
  PROVE  /\ OffsetOf(x) # LAST => BlockOf(x + 1) = BlockOf(x) /\ OffsetOf(x + 1) = OffsetOf(x) + 1
         /\ OffsetOf(x) = LAST => BlockOf(x + 1) = BlockOf(x) + 1 /\ OffsetOf(x + 1) = 0
<1>0. BlockOf(x) \in Int /\ OffsetOf(x) \in Offsets /\ VpnOf(BlockOf(x), OffsetOf(x)) = x
  BY VpnSplit
<1>1. ASSUME OffsetOf(x) # LAST
      PROVE  BlockOf(x + 1) = BlockOf(x) /\ OffsetOf(x + 1) = OffsetOf(x) + 1
  <2>1. OffsetOf(x) + 1 \in Offsets /\ OffsetOf(x) \in Int
    BY <1>0, <1>1, Sizes DEF Offsets
  <2>2. VpnOf(BlockOf(x), 0) + OffsetOf(x) = x /\ VpnOf(BlockOf(x), 0) \in Int
    BY <1>0, Vpn, Sizes DEF Offsets
  <2>3. VpnOf(BlockOf(x), OffsetOf(x) + 1) = x + 1
    BY <1>0, <2>1, <2>2, Vpn
  <2> QED
    BY <2>1, <2>3, <1>0, Vpn
<1>2. ASSUME OffsetOf(x) = LAST
      PROVE  BlockOf(x + 1) = BlockOf(x) + 1 /\ OffsetOf(x + 1) = 0
  <2>1. 0 \in Offsets /\ BlockOf(x) + 1 \in Int
    BY <1>0, Sizes DEF Offsets
  <2>2. x + 1 = VpnOf(BlockOf(x) + 1, 0)
    BY <1>0, <1>2, <2>1, VpnOrder
  <2> QED
    BY <2>1, <2>2, Vpn
<1> QED
  BY <1>1, <1>2


-----------------------------------------------------------------------------
(* The blocks that format deals out *)

\* How many good blocks a bank has.
LEMMA GoodBlocks ==
  ASSUME NEW b \in Banks
  PROVE  /\ Good(b) \in SUBSET VBlks /\ Good(b) \in SUBSET Int
         /\ IsFiniteSet(Good(b)) /\ Cardinality(Good(b)) \in Nat
         /\ Cardinality(Good(b)) >= MAPBLKS_PER_BANK + 3
         /\ IsFiniteSet(bad[b]) /\ bad[b] \in SUBSET VBlks
         /\ Cardinality(Good(b)) = VBLKS_PER_BANK - 2 - Cardinality(bad[b])
<1>1. VBlks \in SUBSET Int /\ IsFiniteSet(VBlks) /\ Cardinality(VBlks) = VBLKS_PER_BANK
  BY FS_Interval, Sizes DEF VBlks
<1>2. Good(b) \in SUBSET VBlks
  BY DEF Good
<1>3. IsFiniteSet(Good(b)) /\ Cardinality(Good(b)) \in Nat
  BY <1>1, <1>2, FS_Subset, FS_CardinalityType
<1>4. bad[b] \in SUBSET VBlks
  BY DEF bad
<1>5. IsFiniteSet(bad[b]) /\ Cardinality(bad[b]) \in Nat
  BY <1>1, <1>4, FS_Subset, FS_CardinalityType
<1>6. \A v \in bad[b] : v > MISCBLK_VBN
  <2> SUFFICES ASSUME NEW v \in bad[b] PROVE v > MISCBLK_VBN
    OBVIOUS
  <2>1. v \in VBlks /\ {2 * v, 2 * v + 1} \cap scan_list[b] # {}
    BY DEF bad
  <2>2. scan_list[b] \in SUBSET (4 .. 2 * VBLKS_PER_BANK - 1)
    BY Geometry
  <2>3. v \in Int
    BY <2>1, <1>1
  <2>4. 2 * v >= 4 \/ 2 * v + 1 >= 4
    BY <2>1, <2>2, <2>3
  <2> QED
    BY <2>3, <2>4 DEF MISCBLK_VBN
<1>7. Good(b) = (2 .. VBLKS_PER_BANK - 1) \ bad[b]
  BY Sizes DEF Good, VBlks, MISCBLK_VBN
<1>8. (2 .. VBLKS_PER_BANK - 1) \cap bad[b] = bad[b]
  BY <1>4, <1>6, Sizes DEF VBlks, MISCBLK_VBN
<1>9. Cardinality(Good(b)) = Cardinality(2 .. VBLKS_PER_BANK - 1) - Cardinality(bad[b])
  <2> DEFINE all == 2 .. VBLKS_PER_BANK - 1
  <2>1. IsFiniteSet(all)
    BY FS_Interval, Sizes
  <2>2. Good(b) = all \ bad[b] /\ all \cap bad[b] = bad[b]
    BY <1>7, <1>8
  <2> HIDE DEF all
  <2>3. Cardinality(Good(b)) = Cardinality(all) - Cardinality(bad[b])
    BY <2>1, <2>2, FS_Difference
  <2> QED
    BY <2>3 DEF all
<1>10. Cardinality(Good(b)) >= MAPBLKS_PER_BANK + 3
  BY Provisioning
<1>11. VBLKS_PER_BANK >= 2
  <2>1. 2 .. VBLKS_PER_BANK - 1 # {}
    BY <1>7, <1>10, FS_EmptySet, <1>3, Sizes
  <2> QED
    BY <2>1, Sizes
<1>12. Cardinality(2 .. VBLKS_PER_BANK - 1) = VBLKS_PER_BANK - 2
  BY <1>11, FS_Interval, Sizes
<1> QED
  BY <1>1, <1>2, <1>3, <1>4, <1>5, <1>9, <1>10, <1>12

\* NthGood finds a good block, and numbers the good blocks in order.
LEMMA Nth ==
  ASSUME NEW b \in Banks, NEW n \in 1 .. Cardinality(Good(b))
  PROVE  /\ NthGood(b, n) \in Good(b)
         /\ CopyTo(Good(b), NthGood(b, n)) = n - 1
         /\ NthGood(b, n) > n
<1>0. /\ Good(b) \in SUBSET VBlks /\ Good(b) \in SUBSET Int
      /\ IsFiniteSet(Good(b)) /\ Cardinality(Good(b)) \in Nat
  BY GoodBlocks
<1>1. ASSUME NEW v \in Good(b)
      PROVE  Cardinality({w \in Good(b) : w <= v}) = CopyTo(Good(b), v) + 1
  <2> DEFINE B == {w \in Good(b) : w < v}
  <2>1. IsFiniteSet(B) /\ v \notin B
    BY <1>0, FS_Subset, B \in SUBSET Good(b)
  <2>2. {w \in Good(b) : w <= v} = B \cup {v}
    <3>1. \A w \in Good(b) : w <= v <=> (w < v \/ w = v)
      BY <1>0
    <3> QED
      BY <3>1
  <2>3. CopyTo(Good(b), v) = Cardinality(B)
    BY DEF CopyTo
  <2> HIDE DEF B
  <2> QED
    BY <2>1, <2>2, <2>3, FS_AddElement
<1>2. PICK v \in Good(b) : CopyTo(Good(b), v) = n - 1
  <2>1. n - 1 \in 0 .. Cardinality(Good(b)) - 1
    BY <1>0
  <2> QED
    BY <2>1, <1>0, Ranks
<1>3. Cardinality({w \in Good(b) : w <= v}) = n
  BY <1>1, <1>2
<1>4. /\ NthGood(b, n) \in Good(b)
      /\ Cardinality({w \in Good(b) : w <= NthGood(b, n)}) = n
  BY <1>3 DEF NthGood
<1> DEFINE x == NthGood(b, n)
<1>5. x \in Good(b) /\ x \in Int /\ Cardinality({w \in Good(b) : w <= x}) = n
  BY <1>4, <1>0
<1> HIDE DEF x
<1>6. CopyTo(Good(b), x) = n - 1
  <2>1. CopyTo(Good(b), x) \in Int
    BY <1>5, <1>0, Ranks
  <2> QED
    BY <2>1, <1>1, <1>5
<1>7. x > n
  <2>1. {w \in Good(b) : w <= x} \in SUBSET (2 .. x)
    BY <1>0 DEF Good, MISCBLK_VBN
  <2>2. Cardinality({w \in Good(b) : w <= x}) <= Cardinality(2 .. x)
    <3>1. IsFiniteSet(2 .. x)
      BY <1>5, FS_Interval
    <3> QED
      BY <2>1, <3>1, FS_Subset
  <2>3. Cardinality(2 .. x) = IF 2 > x THEN 0 ELSE x - 1
    BY <1>5, FS_Interval
  <2> QED
    BY <2>2, <2>3, <1>5
<1> QED
  BY <1>5, <1>6, <1>7 DEF x

\* NthGood keeps the order of the ranks.
LEMMA NthOrder ==
  ASSUME NEW b \in Banks, NEW m \in 1 .. Cardinality(Good(b)), NEW n \in 1 .. Cardinality(Good(b))
  PROVE  m < n <=> NthGood(b, m) < NthGood(b, n)
<1>0. /\ Good(b) \in SUBSET Int /\ IsFiniteSet(Good(b)) /\ Cardinality(Good(b)) \in Nat
  BY GoodBlocks
<1> DEFINE x == NthGood(b, m)
           y == NthGood(b, n)
<1>1. /\ x \in Good(b) /\ y \in Good(b) /\ x \in Int /\ y \in Int
      /\ CopyTo(Good(b), x) = m - 1 /\ CopyTo(Good(b), y) = n - 1
  BY Nth, <1>0
<1> HIDE DEF x, y
<1>2. x < y => m < n
  <2>1. x < y => CopyTo(Good(b), x) < CopyTo(Good(b), y)
    BY <1>0, <1>1, Ranks
  <2> QED
    BY <2>1, <1>1, <1>0
<1>3. y < x => n < m
  <2>1. y < x => CopyTo(Good(b), y) < CopyTo(Good(b), x)
    BY <1>0, <1>1, Ranks
  <2> QED
    BY <2>1, <1>1, <1>0
<1>4. x = y => m = n
  BY <1>1, <1>0
<1> QED
  BY <1>0, <1>1, <1>2, <1>3, <1>4 DEF x, y

\* Every good block has a rank.
LEMMA NthAll ==
  ASSUME NEW b \in Banks, NEW v \in Good(b)
  PROVE  \E n \in 1 .. Cardinality(Good(b)) : v = NthGood(b, n)
<1>0. /\ Good(b) \in SUBSET Int /\ IsFiniteSet(Good(b)) /\ Cardinality(Good(b)) \in Nat
  BY GoodBlocks
<1> DEFINE k == CopyTo(Good(b), v)
<1>1. k \in 0 .. Cardinality(Good(b)) - 1
  BY <1>0, Ranks
<1>2. k + 1 \in 1 .. Cardinality(Good(b))
  BY <1>0, <1>1
<1> DEFINE x == NthGood(b, k + 1)
<1>3. x \in Good(b) /\ CopyTo(Good(b), x) = k
  <2>1. x \in Good(b) /\ CopyTo(Good(b), x) = (k + 1) - 1
    BY <1>2, Nth
  <2> QED
    BY <2>1, <1>1
<1> HIDE DEF x, k
<1>4. ~(x < v) /\ ~(v < x)
  <2>1. x < v => CopyTo(Good(b), x) < CopyTo(Good(b), v)
    BY <1>0, <1>3, Ranks
  <2>2. v < x => CopyTo(Good(b), v) < CopyTo(Good(b), x)
    BY <1>0, <1>3, Ranks
  <2> QED
    BY <2>1, <2>2, <1>1, <1>3, <1>0 DEF k
<1>5. x = v
  BY <1>4, <1>3, <1>0
<1> QED
  BY <1>5, <1>2 DEF x


\* What format assigns: the map blocks, the user blocks and the first two of them.
LEMMA Blocks ==
  ASSUME NEW b \in Banks
  PROVE  /\ UserBlocks[b] \in SUBSET VBlks /\ UserBlocks[b] \in SUBSET Int
         /\ IsFiniteSet(UserBlocks[b])
         /\ Cardinality(UserBlocks[b]) = Cardinality(Good(b)) - MAPBLKS_PER_BANK
         /\ FirstGcBlock[b] \in UserBlocks[b] /\ FirstBlock[b] \in UserBlocks[b]
         /\ FirstGcBlock[b] < FirstBlock[b]
         /\ \A v \in UserBlocks[b] : /\ v >= META_BLKS_PER_BANK /\ v \notin bad[b]
                                     /\ v # MISCBLK_VBN
                                     /\ v = FirstGcBlock[b] \/ v >= FirstBlock[b]
         /\ \A k \in MapLbns : /\ MapBlock[b][k] \in VBlks /\ MapBlock[b][k] \notin UserBlocks[b]
                               /\ MapBlock[b][k] # MISCBLK_VBN
         /\ \A j, k \in MapLbns : j # k => MapBlock[b][j] # MapBlock[b][k]
<1> DEFINE G == Good(b)
           N == Cardinality(G)
           M == MAPBLKS_PER_BANK
<1>0. /\ G \in SUBSET VBlks /\ G \in SUBSET Int /\ IsFiniteSet(G) /\ N \in Nat /\ N >= M + 3
      /\ M \in Nat \ {0}
  BY GoodBlocks, Sizes
<1>1. /\ FirstGcBlock[b] = NthGood(b, M + 1) /\ FirstBlock[b] = NthGood(b, M + 2)
      /\ \A k \in MapLbns : MapBlock[b][k] = NthGood(b, k + 1)
      /\ UserBlocks[b] = {v \in G : v >= FirstGcBlock[b]}
  BY DEF FirstGcBlock, FirstBlock, MapBlock, UserBlocks
<1>2. /\ M + 1 \in 1 .. N /\ M + 2 \in 1 .. N /\ \A k \in MapLbns : k + 1 \in 1 .. N /\ k + 1 < M + 1
  BY <1>0 DEF MapLbns
<1>3. FirstGcBlock[b] \in G /\ FirstGcBlock[b] > M + 1 /\ CopyTo(G, FirstGcBlock[b]) = M
  <2>1. CopyTo(G, FirstGcBlock[b]) = (M + 1) - 1
    BY <1>1, <1>2, Nth
  <2> QED
    BY <1>0, <1>1, <1>2, <2>1, Nth
<1>4. FirstBlock[b] \in G /\ FirstGcBlock[b] < FirstBlock[b]
  <2>1. M + 1 < M + 2
    BY <1>0
  <2> QED
    BY <1>1, <1>2, <2>1, Nth, NthOrder
<1>5. /\ UserBlocks[b] \in SUBSET VBlks /\ UserBlocks[b] \in SUBSET Int
      /\ UserBlocks[b] \in SUBSET G /\ IsFiniteSet(UserBlocks[b])
  <2>1. UserBlocks[b] \in SUBSET G
    BY <1>1
  <2> HIDE DEF G
  <2> QED
    BY <1>0, <2>1, FS_Subset
<1>6. FirstGcBlock[b] \in UserBlocks[b] /\ FirstBlock[b] \in UserBlocks[b]
  BY <1>0, <1>1, <1>3, <1>4
<1>7. Cardinality(UserBlocks[b]) = N - M
  <2> DEFINE B == {w \in G : w < FirstGcBlock[b]}
  <2>1. UserBlocks[b] = G \ B
    BY <1>0, <1>1, <1>3
  <2>2. Cardinality(B) = M
    BY <1>3 DEF CopyTo
  <2>3. G \cap B = B
    OBVIOUS
  <2> HIDE DEF B, G
  <2>4. Cardinality(G \ B) = Cardinality(G) - Cardinality(G \cap B)
    BY <1>0, FS_Difference
  <2> QED
    BY <2>1, <2>2, <2>3, <2>4
<1>8. ASSUME NEW v \in UserBlocks[b]
      PROVE  /\ v >= META_BLKS_PER_BANK /\ v \notin bad[b] /\ v # MISCBLK_VBN
             /\ v = FirstGcBlock[b] \/ v >= FirstBlock[b]
  <2>1. v \in G /\ v \in Int /\ v >= FirstGcBlock[b] /\ FirstGcBlock[b] \in Int
    BY <1>0, <1>1, <1>3
  <2>2. v >= META_BLKS_PER_BANK
    BY <2>1, <1>3, <1>0 DEF META_BLKS_PER_BANK
  <2>3. v \notin bad[b] /\ v # MISCBLK_VBN
    BY <2>1 DEF Good, MISCBLK_VBN
  <2>4. PICK n \in 1 .. N : v = NthGood(b, n)
    BY <2>1, NthAll
  <2>5. n >= M + 1
    <3>1. n < M + 1 => v < FirstGcBlock[b]
      BY <2>4, <1>1, <1>2, NthOrder
    <3> QED
      BY <3>1, <2>1, <1>0
  <2>6. CASE n = M + 1
    BY <2>6, <2>4, <1>1, <2>2, <2>3
  <2>7. CASE n = M + 2
    BY <2>7, <2>4, <1>1, <2>1, <2>2, <2>3
  <2>8. CASE n > M + 2
    <3>1. M + 2 < n
      BY <2>8, <1>0
    <3>2. FirstBlock[b] < v
      BY <3>1, <2>4, <1>1, <1>2, NthOrder
    <3> QED
      BY <3>2, <2>1, <1>4, <1>0, <2>2, <2>3
  <2> QED
    BY <2>5, <2>6, <2>7, <2>8, <1>0
<1>9. ASSUME NEW k \in MapLbns
      PROVE  /\ MapBlock[b][k] \in VBlks /\ MapBlock[b][k] \notin UserBlocks[b]
             /\ MapBlock[b][k] # MISCBLK_VBN
  <2>1. MapBlock[b][k] \in G
    BY <1>1, <1>2, Nth
  <2>2. MapBlock[b][k] < FirstGcBlock[b]
    BY <1>1, <1>2, NthOrder
  <2>3. MapBlock[b][k] # MISCBLK_VBN
    BY <2>1 DEF Good, MISCBLK_VBN
  <2> QED
    BY <1>0, <1>1, <1>3, <2>1, <2>2, <2>3
<1>10. ASSUME NEW j \in MapLbns, NEW k \in MapLbns, j < k
       PROVE  MapBlock[b][j] # MapBlock[b][k]
  <2>1. j + 1 < k + 1
    BY <1>10, <1>0 DEF MapLbns
  <2>2. NthGood(b, j + 1) < NthGood(b, k + 1)
    BY <1>2, <2>1, NthOrder
  <2>3. NthGood(b, j + 1) \in Int /\ NthGood(b, k + 1) \in Int
    BY <1>0, <1>2, Nth
  <2> QED
    BY <2>2, <2>3, <1>1
<1>11. \A j, k \in MapLbns : j # k => MapBlock[b][j] # MapBlock[b][k]
  <2> SUFFICES ASSUME NEW j \in MapLbns, NEW k \in MapLbns, j # k
               PROVE  MapBlock[b][j] # MapBlock[b][k]
    OBVIOUS
  <2>1. j < k \/ k < j
    BY <1>0 DEF MapLbns
  <2> QED
    BY <2>1, <1>10
<1> QED
  BY <1>4, <1>5, <1>6, <1>7, <1>8, <1>9, <1>11

\* Block 0 has the firmware: of the FTL only format, which erases all others that are
\* good, writes to it.
SameBoot(n, n2) == \A x \in VPages : BlockOf(x) = 0 => n2[x] = n[x]
LEMMA BootBlock ==
  ASSUME NEW b \in Banks
  PROVE  /\ 0 \notin FormattedBlocks[b] /\ MISCBLK_VBN \in FormattedBlocks[b]
         /\ UserBlocks[b] \subseteq FormattedBlocks[b] /\ 0 \notin UserBlocks[b]
         /\ \A k \in MapLbns : MapBlock[b][k] \in FormattedBlocks[b] /\ MapBlock[b][k] # 0
<1>1. FormattedBlocks[b] = {v \in VBlks : v >= MISCBLK_VBN /\ v \notin bad[b]}
  BY DEF FormattedBlocks
<1>2. 0 \notin FormattedBlocks[b]
  BY <1>1 DEF MISCBLK_VBN
<1>3. Good(b) \subseteq FormattedBlocks[b]
  BY <1>1 DEF Good, VBlks, MISCBLK_VBN
<1>4. UserBlocks[b] \subseteq Good(b)
  BY DEF UserBlocks
<1>5. \A k \in MapLbns : MapBlock[b][k] \in Good(b)
  <2> SUFFICES ASSUME NEW k \in MapLbns PROVE MapBlock[b][k] \in Good(b)
    OBVIOUS
  <2>1. Cardinality(Good(b)) \in Nat /\ Cardinality(Good(b)) >= MAPBLKS_PER_BANK + 3
        /\ MAPBLKS_PER_BANK \in Nat
    BY GoodBlocks, Sizes
  <2>2. k + 1 \in 1 .. Cardinality(Good(b))
    BY <2>1 DEF MapLbns
  <2> QED
    BY <2>2, Nth DEF MapBlock
<1>6. MISCBLK_VBN \in FormattedBlocks[b]
  <2>1. MISCBLK_VBN \in VBlks
    <3>1. VBLKS_PER_BANK >= 2
      BY GoodBlocks, FS_CardinalityType, Sizes
    <3> QED
      BY <3>1, Sizes DEF MISCBLK_VBN, VBlks
  <2>2. MISCBLK_VBN \notin bad[b]
    BY Geometry DEF MISCBLK_VBN, bad
  <2> QED
    BY <2>1, <2>2, <1>1 DEF MISCBLK_VBN
<1> QED
  BY <1>2, <1>3, <1>4, <1>5, <1>6

\* What write_page needs of a bank's logical pages.
LEMMA LogicalPages ==
  ASSUME NEW b \in Banks
  PROVE  /\ LPagesOf[b] \in SUBSET LPages /\ IsFiniteSet(LPagesOf[b])
         /\ \A l \in LPagesOf[b] : get_num_bank(l) = b
         /\ Cardinality(LPagesOf[b]) < (Cardinality(UserBlocks[b]) - 1) * (PAGES_PER_BLK - 2)
<1>1. IsFiniteSet(LPages)
  BY FS_Interval, Sizes DEF LPages
<1>2. LPagesOf[b] \in SUBSET LPages
  BY DEF LPagesOf
<1> QED
  BY <1>1, <1>2, FS_Subset, Provisioning DEF LPagesOf

\* A logical page belongs to its bank.
LEMMA BankOf ==
  ASSUME NEW l \in LPages
  PROVE  get_num_bank(l) \in Banks /\ l \in LPagesOf[get_num_bank(l)]
<1>1. l \in Int /\ NUM_BANKS \in Nat \ {0}
  BY Sizes DEF LPages
<1>2. l % NUM_BANKS \in 0 .. NUM_BANKS - 1
  BY <1>1, DivMod
<1> QED
  BY <1>2 DEF get_num_bank, Banks, LPagesOf


-----------------------------------------------------------------------------
(* The invariant of a bank b, of its metadata m, its flash n, the page map and the *)
(* counts vc; c pages of the block that is written have been handed out            *)

Cur(m) == BlockOf(m.cur_write_vpn)
\* Until the first collection the user blocks are begun in order.
Ahead(b, m) == IF m.free_blk_cnt = 2 THEN {} ELSE {v \in UserBlocks[b] : v > Cur(m)}
Clear(b, m) == Ahead(b, m) \cup {m.gc_vblock}
Used(b, m)  == UserBlocks[b] \ Clear(b, m)

Metas(b) == [free_blk_cnt : Nat, cur_miscblk_vpn : Int, cur_mapblk_vpn : [MapLbns -> Int],
             gc_vblock : UserBlocks[b], cur_write_vpn : VPages,
             lpn_list_of_cur_vblock : [Offsets -> LPages]]

Position(b, m) ==
  /\ m \in Metas(b)
  /\ Cur(m) \in Used(b, m)
  /\ OffsetOf(m.cur_write_vpn) < LAST
  /\ m.free_blk_cnt = 2 + Cardinality(Ahead(b, m))
  /\ m.free_blk_cnt # 2 => m.gc_vblock = FirstGcBlock[b]

HasList(n, v) ==
  "list" \in DOMAIN n[VpnOf(v, LAST)] /\ n[VpnOf(v, LAST)].list \in [Offsets -> LPages]
Programmed(b, m, n, c) ==
  /\ DOMAIN n = VPages
  /\ \A x \in VPages : BlockOf(x) # 0 => n[x] # Clobbered
  /\ \A x \in VPages : BlockOf(x) \in Clear(b, m) => n[x] = ErasedPage
  /\ \A x \in VPages : BlockOf(x) = Cur(m) /\ OffsetOf(x) >= c => n[x] = ErasedPage
  /\ \A v \in Used(b, m) : v # Cur(m) => HasList(n, v)

ListAt(m, n, v) == IF v = Cur(m) THEN m.lpn_list_of_cur_vblock ELSE n[VpnOf(v, LAST)].list
Entry(m, n, x)  == ListAt(m, n, BlockOf(x))[OffsetOf(x)]
\* The pages handed out for data; the very first of a bank is never written.
Place(b, m, c, x) == /\ x \in VPages /\ BlockOf(x) \in Used(b, m) /\ OffsetOf(x) < LAST
                     /\ BlockOf(x) = Cur(m) => OffsetOf(x) < c
Unwritten(b, n, x) == x = VpnOf(FirstBlock[b], 0) /\ n[x] = ErasedPage
Listed(b, map, m, n, c) ==
  /\ \A l \in LPagesOf[b] : map[l] # NULL =>
       Place(b, m, c, map[l]) /\ IsData(n[map[l]]) /\ Entry(m, n, map[l]) = l
  /\ \A x \in VPages : Place(b, m, c, x) =>
       Entry(m, n, x) \in LPagesOf[b] \/ (Entry(m, n, x) = 0 /\ Unwritten(b, n, x))

ValidIn(b, map, v) == {l \in LPagesOf[b] : map[l] # NULL /\ BlockOf(map[l]) = v}
Counted(b, map, vc, m) ==
  \A v \in VBlks : vc[v] = IF v \in UserBlocks[b] \ {m.gc_vblock}
                           THEN Cardinality(ValidIn(b, map, v)) ELSE VC_MAX

Stored(b, map, n, lat) ==
  \A l \in LPagesOf[b] : \A s \in Sectors :
    lat[l][s] = IF map[l] = NULL THEN Erased ELSE n[map[l]].data[s]

\* Where the logs go on, and what they hold after the first flush.
LogPlaces(b, m, n) ==
  /\ m.cur_miscblk_vpn + 1 \in VpnOf(MISCBLK_VBN, 0) .. VpnOf(MISCBLK_VBN + 1, 0)
  /\ \A x \in VPages : BlockOf(x) = MISCBLK_VBN /\ x > m.cur_miscblk_vpn => n[x] = ErasedPage
  /\ \A k \in MapLbns :
       /\ m.cur_mapblk_vpn[k] \in VPages /\ BlockOf(m.cur_mapblk_vpn[k]) = MapBlock[b][k]
       /\ \A x \in VPages : BlockOf(x) = MapBlock[b][k] /\ x > m.cur_mapblk_vpn[k]
                            => n[x] = ErasedPage
       /\ k \notin Logged(b) => n[m.cur_mapblk_vpn[k]] = ErasedPage
LogsKept(b, m, n) ==
  \A k \in Logged(b) : n[m.cur_mapblk_vpn[k]] = MapPage(Entries(b, k))

\* The types of the page map, the counts and the history.
IsMap(map)    == map \in [LPages -> VPages]
IsCounts(vc)  == vc \in [VBlks -> Nat]
IsLatest(lat) == lat \in [LPages -> [Sectors -> Data]]

BankOk(b, map, vc, m, n, lat, c) ==
  /\ Position(b, m)
  /\ Programmed(b, m, n, c)
  /\ Listed(b, map, m, n, c)
  /\ Counted(b, map, vc, m)
  /\ Stored(b, map, n, lat)
  /\ LogPlaces(b, m, n)
  /\ LogsKept(b, m, n)

\* A page can be programmed twice in block 0 only, and there only the mark.
Whole(b, n) == \A x \in VPages :
  n[x] = Clobbered => BlockOf(x) = 0 /\ b = 0 /\ x = format_mark_vpn

BankInv(b) == BankOk(b, page_map, vcount[b], g_misc_meta[b], nand[b], latest,
                     OffsetOf(g_misc_meta[b].cur_write_vpn) + 1)
Types == /\ page_map \in [LPages -> VPages]
         /\ vcount \in [Banks -> [VBlks -> Nat]]
         /\ DOMAIN g_misc_meta = Banks
         /\ DOMAIN nand = Banks
         /\ failed \in BOOLEAN
         /\ latest \in [LPages -> [Sectors -> Data]]
\* The mark is the only page that is ever programmed twice, and it is in block 0.
BootInv == \A b \in Banks : Whole(b, nand[b])
IInv == /\ Types /\ (\A b \in Banks : BankInv(b)) /\ BootInv
        /\ AssertsHoldUnlessAliased


-----------------------------------------------------------------------------
(* Kinds of pages *)

\* The kinds of flash pages differ.
LEMMA Kinds ==
  /\ ErasedPage # Clobbered /\ ~IsData(ErasedPage) /\ "list" \notin DOMAIN ErasedPage
  /\ "map" \notin DOMAIN ErasedPage
  /\ \A d : IsData(DataPage(d)) /\ DataPage(d).data = d /\ DataPage(d) # Clobbered
            /\ DataPage(d) # ErasedPage
  /\ \A l : "list" \in DOMAIN ListPage(l) /\ ListPage(l).list = l /\ ListPage(l) # Clobbered
            /\ ~IsData(ListPage(l))
  /\ \A k : MapPage(k) # Clobbered /\ MapPage(k).map = k /\ "map" \in DOMAIN MapPage(k)
  /\ MiscPage # Clobbered
<1>1. /\ DOMAIN ErasedPage = {"erased"} /\ DOMAIN Clobbered = {"clobbered"}
      /\ DOMAIN MiscPage = {"misc"} /\ \A d : DOMAIN DataPage(d) = {"data"}
      /\ \A l : DOMAIN ListPage(l) = {"list"} /\ \A k : DOMAIN MapPage(k) = {"map"}
  BY DEF ErasedPage, Clobbered, MiscPage, DataPage, ListPage, MapPage
<1>2. /\ \A d : DataPage(d).data = d
      /\ \A l : ListPage(l).list = l
      /\ \A k : MapPage(k).map = k
  BY DEF DataPage, ListPage, MapPage
<1>3. \A p : p = Clobbered => DOMAIN p = {"clobbered"}
  BY <1>1
<1>4. \A p : p = ErasedPage => DOMAIN p = {"erased"}
  BY <1>1
<1> QED
  BY <1>1, <1>2, <1>3, <1>4 DEF IsData

-----------------------------------------------------------------------------
(* The position and the next page *)

\* What the position of a bank says of its blocks.
LEMMA PositionFacts ==
  ASSUME NEW b \in Banks, NEW m, Position(b, m)
  PROVE  /\ m.cur_write_vpn \in VPages /\ Cur(m) \in UserBlocks[b] /\ Cur(m) \in VBlks
         /\ Cur(m) \notin Clear(b, m) /\ Cur(m) \in Used(b, m)
         /\ m.gc_vblock \in UserBlocks[b] /\ m.gc_vblock \in Clear(b, m)
         /\ m.gc_vblock \notin Ahead(b, m)
         /\ Clear(b, m) \subseteq UserBlocks[b] /\ Used(b, m) \subseteq UserBlocks[b]
         /\ IsFiniteSet(Ahead(b, m)) /\ Cardinality(Ahead(b, m)) \in Nat
         /\ m.lpn_list_of_cur_vblock \in [Offsets -> LPages]
         /\ m.free_blk_cnt \in Nat /\ m.free_blk_cnt >= 2
         /\ OffsetOf(m.cur_write_vpn) \in Offsets /\ OffsetOf(m.cur_write_vpn) < LAST
<1>1. m \in Metas(b) /\ Cur(m) \in Used(b, m) /\ OffsetOf(m.cur_write_vpn) < LAST
      /\ m.free_blk_cnt = 2 + Cardinality(Ahead(b, m))
      /\ (m.free_blk_cnt # 2 => m.gc_vblock = FirstGcBlock[b])
  BY DEF Position
<1>2. /\ m.cur_write_vpn \in VPages /\ m.gc_vblock \in UserBlocks[b] /\ m.free_blk_cnt \in Nat
      /\ m.lpn_list_of_cur_vblock \in [Offsets -> LPages]
  BY <1>1 DEF Metas
<1>3. /\ UserBlocks[b] \in SUBSET VBlks /\ UserBlocks[b] \in SUBSET Int
      /\ IsFiniteSet(UserBlocks[b]) /\ FirstGcBlock[b] \in UserBlocks[b]
      /\ FirstBlock[b] \in UserBlocks[b] /\ FirstGcBlock[b] < FirstBlock[b]
      /\ \A v \in UserBlocks[b] : v = FirstGcBlock[b] \/ v >= FirstBlock[b]
  BY Blocks
<1>4. Ahead(b, m) \in SUBSET UserBlocks[b]
  BY DEF Ahead
<1>5. IsFiniteSet(Ahead(b, m)) /\ Cardinality(Ahead(b, m)) \in Nat
  BY <1>3, <1>4, FS_Subset, FS_CardinalityType
<1>6. Cur(m) \in UserBlocks[b] /\ Cur(m) \notin Clear(b, m)
  BY <1>1 DEF Used
<1>7. m.gc_vblock \notin Ahead(b, m)
  <2> SUFFICES ASSUME m.free_blk_cnt # 2, m.gc_vblock > Cur(m) PROVE FALSE
    BY DEF Ahead
  <2>1. m.gc_vblock = FirstGcBlock[b] /\ Cur(m) # m.gc_vblock
    BY <1>1, <1>6 DEF Clear
  <2> QED
    BY <2>1, <1>3, <1>6
<1> QED
  BY <1>1, <1>2, <1>3, <1>4, <1>5, <1>6, <1>7, VPagesAre DEF Clear, Used

\* The page that is handed out next belongs to no logical page.
LEMMA NewPageFree ==
  ASSUME NEW b \in Banks, NEW map, NEW m, NEW n, Position(b, m),
         Programmed(b, m, n, OffsetOf(m.cur_write_vpn)),
         Listed(b, map, m, n, OffsetOf(m.cur_write_vpn))
  PROVE  /\ m.cur_write_vpn \in VPages /\ m.cur_write_vpn # NULL
         /\ n[m.cur_write_vpn] = ErasedPage
         /\ \A l \in LPagesOf[b] : map[l] # m.cur_write_vpn
<1>1. m.cur_write_vpn \in VPages /\ OffsetOf(m.cur_write_vpn) \in Int
  BY PositionFacts DEF Offsets
<1>2. n[m.cur_write_vpn] = ErasedPage
  BY <1>1 DEF Programmed, Cur
<1>3. m.cur_write_vpn # NULL
  <2>1. Cur(m) >= META_BLKS_PER_BANK /\ Cur(m) \in Int
    BY PositionFacts, Blocks
  <2>2. Cur(m) > 0
    BY <2>1, Sizes DEF META_BLKS_PER_BANK
  <2>3. BlockOf(0) = 0
    <3>1. VpnOf(0, 0) = 0 /\ 0 \in Offsets
      BY Sizes DEF VpnOf, Offsets
    <3> QED
      BY <3>1, Vpn
  <2> QED
    BY <2>2, <2>3 DEF Cur, NULL
<1>4. \A l \in LPagesOf[b] : map[l] # m.cur_write_vpn
  <2> SUFFICES ASSUME NEW l \in LPagesOf[b], map[l] = m.cur_write_vpn PROVE FALSE
    OBVIOUS
  <2>1. IsData(n[map[l]])
    BY <1>3 DEF Listed
  <2> QED
    BY <2>1, <1>2, Kinds
<1> QED
  BY <1>1, <1>2, <1>3, <1>4


-----------------------------------------------------------------------------
(* write_page, from the state after assign_new_write_vpn *)

WriteMeta(m, lpn) == [m EXCEPT !.lpn_list_of_cur_vblock[OffsetOf(m.cur_write_vpn)] = lpn]
WriteCounts(m, vc, old) == [Invalidate(vc, old) EXCEPT ![BlockOf(m.cur_write_vpn)] = @ + 1]
WriteLatest(lat, lpn, off, cnt, d) ==
  [lat EXCEPT ![lpn] = [s \in Sectors |-> IF s \in off .. off + cnt - 1 THEN d ELSE @[s]]]

\* Page x has been programmed with pg.
Rewritten(n, n2, x, pg) == \A y \in VPages : n2[y] = IF y = x THEN pg ELSE n[y]

\* write_page enters the logical page into the list and leaves the rest of the metadata.
LEMMA WriteMetaFields ==
  ASSUME NEW b \in Banks, NEW m, Position(b, m), NEW lpn \in LPages
  PROVE  /\ WriteMeta(m, lpn) \in Metas(b)
         /\ WriteMeta(m, lpn).cur_write_vpn = m.cur_write_vpn
         /\ WriteMeta(m, lpn).gc_vblock = m.gc_vblock
         /\ WriteMeta(m, lpn).free_blk_cnt = m.free_blk_cnt
         /\ WriteMeta(m, lpn).cur_miscblk_vpn = m.cur_miscblk_vpn
         /\ WriteMeta(m, lpn).cur_mapblk_vpn = m.cur_mapblk_vpn
         /\ WriteMeta(m, lpn).lpn_list_of_cur_vblock =
              [m.lpn_list_of_cur_vblock EXCEPT ![OffsetOf(m.cur_write_vpn)] = lpn]
         /\ Cur(WriteMeta(m, lpn)) = Cur(m) /\ Ahead(b, WriteMeta(m, lpn)) = Ahead(b, m)
         /\ Clear(b, WriteMeta(m, lpn)) = Clear(b, m) /\ Used(b, WriteMeta(m, lpn)) = Used(b, m)
<1>1. m \in Metas(b)
  BY DEF Position
<1>2. /\ WriteMeta(m, lpn) \in Metas(b)
      /\ WriteMeta(m, lpn).cur_write_vpn = m.cur_write_vpn
      /\ WriteMeta(m, lpn).gc_vblock = m.gc_vblock
      /\ WriteMeta(m, lpn).free_blk_cnt = m.free_blk_cnt
      /\ WriteMeta(m, lpn).cur_miscblk_vpn = m.cur_miscblk_vpn
      /\ WriteMeta(m, lpn).cur_mapblk_vpn = m.cur_mapblk_vpn
      /\ WriteMeta(m, lpn).lpn_list_of_cur_vblock =
           [m.lpn_list_of_cur_vblock EXCEPT ![OffsetOf(m.cur_write_vpn)] = lpn]
  BY <1>1 DEF Metas, WriteMeta
<1>3. Cur(WriteMeta(m, lpn)) = Cur(m) /\ Ahead(b, WriteMeta(m, lpn)) = Ahead(b, m)
  BY <1>2 DEF Cur, Ahead
<1>4. Clear(b, WriteMeta(m, lpn)) = Clear(b, m)
  BY <1>2, <1>3 DEF Clear
<1> QED
  BY <1>2, <1>3, <1>4 DEF Used

\* The new page is programmed on an erased one and nothing else changes.
LEMMA WriteProgrammed ==
  ASSUME NEW b \in Banks, NEW m, NEW n, NEW lpn \in LPages, NEW pg, Position(b, m),
         Programmed(b, m, n, OffsetOf(m.cur_write_vpn)), pg # Clobbered
  PROVE  /\ Programmed(b, WriteMeta(m, lpn), Program(n, m.cur_write_vpn, pg),
                       OffsetOf(m.cur_write_vpn) + 1)
         /\ Rewritten(n, Program(n, m.cur_write_vpn, pg), m.cur_write_vpn, pg)
<1> DEFINE new == m.cur_write_vpn
           m2  == WriteMeta(m, lpn)
           n2  == Program(n, m.cur_write_vpn, pg)
<1>0. /\ m2.cur_write_vpn = new /\ Cur(m2) = Cur(m) /\ Clear(b, m2) = Clear(b, m)
      /\ Used(b, m2) = Used(b, m)
  BY WriteMetaFields
<1>1. /\ new \in VPages /\ OffsetOf(new) \in Int /\ OffsetOf(new) < LAST /\ BlockOf(new) = Cur(m)
      /\ Cur(m) \notin Clear(b, m) /\ Used(b, m) \subseteq VBlks
  BY PositionFacts, Blocks DEF Offsets, Cur
<1>2. DOMAIN n = VPages /\ n[new] = ErasedPage
  BY <1>1 DEF Programmed
<1>3. /\ DOMAIN n2 = VPages
      /\ \A x \in VPages : n2[x] = IF x = new THEN pg ELSE n[x]
  BY <1>2 DEF Program
<1> HIDE DEF n2, m2
<1>4. \A x \in VPages : BlockOf(x) # 0 => n2[x] # Clobbered
  BY <1>3 DEF Programmed
<1>5. \A x \in VPages : BlockOf(x) \in Clear(b, m) => n2[x] = ErasedPage
  BY <1>1, <1>3 DEF Programmed
<1>6. \A x \in VPages : BlockOf(x) = Cur(m) /\ OffsetOf(x) >= OffsetOf(new) + 1
                        => n2[x] = ErasedPage
  <2> SUFFICES ASSUME NEW x \in VPages, BlockOf(x) = Cur(m), OffsetOf(x) >= OffsetOf(new) + 1
               PROVE  n2[x] = ErasedPage
    OBVIOUS
  <2>1. OffsetOf(x) \in Int
    BY VPagesAre DEF Offsets
  <2>2. x # new /\ OffsetOf(x) >= OffsetOf(new)
    BY <1>1, <2>1
  <2> QED
    BY <2>2, <1>3 DEF Programmed
<1>7. \A v \in Used(b, m) : v # Cur(m) => HasList(n2, v)
  <2> SUFFICES ASSUME NEW v \in Used(b, m), v # Cur(m) PROVE HasList(n2, v)
    OBVIOUS
  <2>1. VpnOf(v, LAST) \in VPages /\ BlockOf(VpnOf(v, LAST)) = v
    BY <1>1, VPagesAre, Sizes
  <2>2. n2[VpnOf(v, LAST)] = n[VpnOf(v, LAST)]
    BY <2>1, <1>1, <1>3
  <2> QED
    BY <2>2 DEF Programmed, HasList
<1>8. Programmed(b, m2, n2, OffsetOf(new) + 1)
  BY <1>0, <1>3, <1>4, <1>5, <1>6, <1>7 DEF Programmed
<1> QED
  BY <1>3, <1>8 DEF n2, m2, Rewritten

\* The page map and the list go on naming each other after a write.
LEMMA WriteListed ==
  ASSUME NEW b \in Banks, NEW map, IsMap(map), NEW m, NEW n, NEW n2,
         NEW lpn \in LPagesOf[b], Position(b, m),
         Programmed(b, m, n, OffsetOf(m.cur_write_vpn)),
         Listed(b, map, m, n, OffsetOf(m.cur_write_vpn)),
         NEW pg, IsData(pg), pg # ErasedPage,
         Rewritten(n, n2, m.cur_write_vpn, pg)
  PROVE  Listed(b, [map EXCEPT ![lpn] = m.cur_write_vpn], WriteMeta(m, lpn), n2,
                OffsetOf(m.cur_write_vpn) + 1)
<1> DEFINE new  == m.cur_write_vpn
           m2   == WriteMeta(m, lpn)
           map2 == [map EXCEPT ![lpn] = m.cur_write_vpn]
           c    == OffsetOf(m.cur_write_vpn)
<1>0. LPagesOf[b] \in SUBSET LPages /\ lpn \in LPages
  BY LogicalPages
<1>1. /\ m2.lpn_list_of_cur_vblock = [m.lpn_list_of_cur_vblock EXCEPT ![c] = lpn]
      /\ Cur(m2) = Cur(m) /\ Used(b, m2) = Used(b, m)
  BY <1>0, WriteMetaFields
<1>2. /\ new \in VPages /\ c \in Offsets /\ c \in Int /\ c < LAST /\ BlockOf(new) = Cur(m)
      /\ Cur(m) \in Used(b, m) /\ Used(b, m) \subseteq VBlks
      /\ m.lpn_list_of_cur_vblock \in [Offsets -> LPages]
  BY PositionFacts, Blocks DEF Offsets, Cur
<1>3. \A l \in LPages : map2[l] = (IF l = lpn THEN new ELSE map[l]) /\ map[l] \in VPages
  BY DEF IsMap
<1>9. \A x \in VPages : n2[x] = IF x = new THEN pg ELSE n[x]
  BY DEF Rewritten
<1> HIDE DEF m2, map2
<1>4. \A x \in VPages : Place(b, m2, c + 1, x) <=> (Place(b, m, c, x) \/ x = new)
  <2> SUFFICES ASSUME NEW x \in VPages
               PROVE  Place(b, m2, c + 1, x) <=> (Place(b, m, c, x) \/ x = new)
    OBVIOUS
  <2>1. OffsetOf(x) \in Int /\ (BlockOf(x) = Cur(m) /\ OffsetOf(x) = c => x = new)
    BY <1>2, VPagesAre, VpnDiffer DEF Offsets
  <2>2. Cur(m2) = Cur(m) /\ Used(b, m2) = Used(b, m)
    BY <1>1
  <2>3. x = new => BlockOf(x) \in Used(b, m) /\ OffsetOf(x) < LAST /\ OffsetOf(x) = c
    BY <1>2
  <2>4. OffsetOf(x) < c + 1 <=> (OffsetOf(x) < c \/ OffsetOf(x) = c)
    BY <2>1, <1>2
  <2> HIDE DEF c, new
  <2>5. ASSUME Place(b, m2, c + 1, x), x # new PROVE Place(b, m, c, x)
    BY <2>1, <2>2, <2>4, <2>5 DEF Place
  <2>6. ASSUME Place(b, m, c, x) PROVE Place(b, m2, c + 1, x)
    BY <2>2, <2>4, <2>6 DEF Place
  <2>7. ASSUME x = new PROVE Place(b, m2, c + 1, x)
    BY <2>2, <2>3, <2>4, <2>7 DEF Place
  <2> QED
    BY <2>5, <2>6, <2>7
<1>5. ASSUME NEW x \in VPages, Place(b, m, c, x)
      PROVE  x # new /\ Entry(m2, n2, x) = Entry(m, n, x) /\ n2[x] = n[x]
  <2>1. x # new /\ n2[x] = n[x]
    BY <1>5, <1>2, <1>9 DEF Place
  <2>2. BlockOf(x) \in VBlks /\ OffsetOf(x) \in Offsets
    BY VPagesAre
  <2>3. CASE BlockOf(x) = Cur(m)
    <3>1. OffsetOf(x) # c
      BY <2>3, <1>5, <1>2, <2>2 DEF Place, Offsets
    <3> QED
      BY <3>1, <2>1, <2>2, <2>3, <1>1, <1>2 DEF Entry, ListAt
  <2>4. CASE BlockOf(x) # Cur(m)
    <3>1. VpnOf(BlockOf(x), LAST) \in VPages /\ BlockOf(VpnOf(BlockOf(x), LAST)) = BlockOf(x)
      BY <2>2, VPagesAre, Sizes
    <3>2. n2[VpnOf(BlockOf(x), LAST)] = n[VpnOf(BlockOf(x), LAST)]
      BY <3>1, <2>4, <1>2, <1>9
    <3> QED
      BY <3>2, <2>1, <2>4, <1>1 DEF Entry, ListAt
  <2> QED
    BY <2>3, <2>4, <2>1
<1>6. Entry(m2, n2, new) = lpn
  BY <1>0, <1>1, <1>2 DEF Entry, ListAt
<1>7. ASSUME NEW l \in LPagesOf[b], map2[l] # NULL
      PROVE  Place(b, m2, c + 1, map2[l]) /\ IsData(n2[map2[l]]) /\ Entry(m2, n2, map2[l]) = l
  <2>1. CASE l = lpn
    <3>1. map2[l] = new
      BY <2>1, <1>0, <1>3
    <3>2. Place(b, m2, c + 1, new) /\ n2[new] = pg
      BY <1>2, <1>4, <1>9
    <3> QED
      BY <3>1, <3>2, <1>6, <2>1
  <2>2. CASE l # lpn
    <3>1. map2[l] = map[l] /\ map[l] \in VPages
      BY <2>2, <1>0, <1>3
    <3>2. Place(b, m, c, map[l]) /\ IsData(n[map[l]]) /\ Entry(m, n, map[l]) = l
      BY <3>1, <1>7 DEF Listed
    <3>3. /\ Entry(m2, n2, map[l]) = Entry(m, n, map[l]) /\ n2[map[l]] = n[map[l]]
          /\ Place(b, m2, c + 1, map[l])
      BY <3>1, <3>2, <1>4, <1>5
    <3> QED
      BY <3>1, <3>2, <3>3
  <2> QED
    BY <2>1, <2>2
<1>8. ASSUME NEW x \in VPages, Place(b, m2, c + 1, x)
      PROVE  Entry(m2, n2, x) \in LPagesOf[b] \/ (Entry(m2, n2, x) = 0 /\ Unwritten(b, n2, x))
  <2>1. CASE x = new
    BY <2>1, <1>6
  <2>2. CASE x # new
    <3>1. Place(b, m, c, x)
      BY <2>2, <1>4, <1>8
    <3>2. Entry(m2, n2, x) = Entry(m, n, x) /\ n2[x] = n[x]
      BY <3>1, <1>5
    <3>3. Entry(m, n, x) \in LPagesOf[b] \/ (Entry(m, n, x) = 0 /\ Unwritten(b, n, x))
      BY <3>1 DEF Listed
    <3> QED
      BY <3>2, <3>3 DEF Unwritten
  <2> QED
    BY <2>1, <2>2
<1> HIDE DEF c, new
<1>10. Listed(b, map2, m2, n2, c + 1)
  BY <1>7, <1>8 DEF Listed
<1> QED
  BY <1>10 DEF m2, map2, c


\* The valid pages of a block are finitely many logical pages of the bank.
LEMMA ValidSets ==
  ASSUME NEW b \in Banks, NEW map, NEW v
  PROVE  /\ ValidIn(b, map, v) \in SUBSET LPagesOf[b]
         /\ IsFiniteSet(ValidIn(b, map, v)) /\ Cardinality(ValidIn(b, map, v)) \in Nat
<1>1. ValidIn(b, map, v) \in SUBSET LPagesOf[b]
  BY DEF ValidIn
<1>2. IsFiniteSet(ValidIn(b, map, v))
  BY <1>1, LogicalPages, FS_Subset
<1> QED
  BY <1>1, <1>2, FS_CardinalityType

\* The old page is no longer counted and the new one is.
LEMMA WriteCounted ==
  ASSUME NEW b \in Banks, NEW map, IsMap(map), NEW vc, IsCounts(vc), NEW m, NEW n,
         NEW lpn \in LPagesOf[b], Position(b, m),
         Listed(b, map, m, n, OffsetOf(m.cur_write_vpn)), Counted(b, map, vc, m),
         m.cur_write_vpn # NULL
  PROVE  /\ Counted(b, [map EXCEPT ![lpn] = m.cur_write_vpn], WriteCounts(m, vc, map[lpn]),
                    WriteMeta(m, lpn))
         /\ IsCounts(WriteCounts(m, vc, map[lpn]))
<1> DEFINE new  == m.cur_write_vpn
           old  == map[lpn]
           map2 == [map EXCEPT ![lpn] = m.cur_write_vpn]
           vc1  == Invalidate(vc, map[lpn])
           vc2  == WriteCounts(m, vc, map[lpn])
<1>0. LPagesOf[b] \in SUBSET LPages /\ lpn \in LPages /\ WriteMeta(m, lpn).gc_vblock = m.gc_vblock
  <2>1. LPagesOf[b] \in SUBSET LPages
    BY LogicalPages
  <2>2. lpn \in LPages
    BY <2>1
  <2> QED
    BY <2>1, <2>2, WriteMetaFields
<1>1. /\ new \in VPages /\ BlockOf(new) \in UserBlocks[b] \ {m.gc_vblock} /\ BlockOf(new) \in VBlks
      /\ Used(b, m) \subseteq UserBlocks[b] \ {m.gc_vblock} /\ UserBlocks[b] \subseteq VBlks
  BY PositionFacts, Blocks DEF Cur, Used, Clear
<1>2. old # NULL => BlockOf(old) \in UserBlocks[b] \ {m.gc_vblock}
  BY <1>1 DEF Listed, Place
<1>3. \A v \in VBlks : vc1[v] = IF old # NULL /\ v = BlockOf(old) THEN vc[v] - 1 ELSE vc[v]
  BY DEF Invalidate, IsCounts
<1>4. DOMAIN vc1 = VBlks
  BY DEF Invalidate, IsCounts
<1>5. \A v \in VBlks : vc2[v] = IF v = BlockOf(new) THEN vc1[v] + 1 ELSE vc1[v]
  BY <1>4 DEF WriteCounts
<1>6. DOMAIN vc2 = VBlks /\ vc2 = [v \in VBlks |-> vc2[v]]
  BY <1>4 DEF WriteCounts
<1>7. \A l \in LPages : map2[l] = IF l = lpn THEN new ELSE map[l]
  BY DEF IsMap
<1> HIDE DEF vc1, vc2, map2
<1>8. ASSUME NEW v \in UserBlocks[b] \ {m.gc_vblock}
      PROVE  vc2[v] = Cardinality(ValidIn(b, map2, v))
  <2> DEFINE V  == ValidIn(b, map, v)
             V2 == ValidIn(b, map2, v)
  <2>0. v \in VBlks /\ IsFiniteSet(V) /\ Cardinality(V) \in Nat /\ vc[v] = Cardinality(V)
    BY <1>1, ValidSets DEF Counted
  <2>1. lpn \in V <=> (old # NULL /\ v = BlockOf(old))
    BY DEF ValidIn
  <2>2. V2 = IF v = BlockOf(new) THEN (V \ {lpn}) \cup {lpn} ELSE V \ {lpn}
    BY <1>0, <1>7 DEF ValidIn
  <2>3. vc2[v] = (IF lpn \in V THEN vc[v] - 1 ELSE vc[v]) + (IF v = BlockOf(new) THEN 1 ELSE 0)
    BY <1>3, <1>5, <2>0, <2>1
  <2> HIDE DEF V, V2
  <2>4. /\ IsFiniteSet(V \ {lpn})
        /\ Cardinality(V \ {lpn}) = IF lpn \in V THEN Cardinality(V) - 1 ELSE Cardinality(V)
    BY <2>0, FS_RemoveElement
  <2>5. lpn \notin V \ {lpn}
    OBVIOUS
  <2>6. Cardinality((V \ {lpn}) \cup {lpn}) = Cardinality(V \ {lpn}) + 1
    BY <2>4, <2>5, FS_AddElement
  <2>7. CASE v = BlockOf(new)
    BY <2>7, <2>0, <2>2, <2>3, <2>4, <2>6 DEF V2
  <2>8. CASE v # BlockOf(new)
    BY <2>8, <2>0, <2>2, <2>3, <2>4 DEF V2
  <2> QED
    BY <2>7, <2>8
<1>9. ASSUME NEW v \in VBlks, v \notin UserBlocks[b] \ {m.gc_vblock} PROVE vc2[v] = VC_MAX
  <2>1. v # BlockOf(new) /\ ~(old # NULL /\ v = BlockOf(old))
    BY <1>1, <1>2, <1>9
  <2> QED
    BY <2>1, <1>3, <1>5, <1>9 DEF Counted
<1>10. \A v \in VBlks : vc2[v] \in Nat
  BY <1>8, <1>9, ValidSets, Sizes
<1>11. Counted(b, map2, vc2, WriteMeta(m, lpn))
  BY <1>0, <1>8, <1>9 DEF Counted
<1>12. vc2 \in [VBlks -> Nat]
  BY <1>6, <1>10
<1> QED
  BY <1>11, <1>12 DEF map2, vc2, IsCounts

\* The new page holds the written sectors and the rest of the old page.
LEMMA WriteStored ==
  ASSUME NEW b \in Banks, NEW map, IsMap(map), NEW m, NEW n, NEW n2,
         NEW lat, IsLatest(lat), NEW lpn \in LPagesOf[b],
         NEW off, NEW cnt, NEW d, Position(b, m),
         Programmed(b, m, n, OffsetOf(m.cur_write_vpn)),
         Listed(b, map, m, n, OffsetOf(m.cur_write_vpn)), Stored(b, map, n, lat),
         Rewritten(n, n2, m.cur_write_vpn, NewPage(n, map[lpn], off, cnt, d))
  PROVE  Stored(b, [map EXCEPT ![lpn] = m.cur_write_vpn], n2, WriteLatest(lat, lpn, off, cnt, d))
<1> DEFINE new  == m.cur_write_vpn
           map2 == [map EXCEPT ![lpn] = m.cur_write_vpn]
           lat2 == WriteLatest(lat, lpn, off, cnt, d)
<1>0. LPagesOf[b] \in SUBSET LPages /\ lpn \in LPages
  BY LogicalPages
<1>1. /\ new \in VPages /\ new # NULL /\ \A l \in LPagesOf[b] : map[l] # new
  BY NewPageFree
<1>2. \A l \in LPages : map2[l] = (IF l = lpn THEN new ELSE map[l]) /\ map[l] \in VPages
  BY DEF IsMap
<1>7. \A x \in VPages : n2[x] = IF x = new THEN NewPage(n, map[lpn], off, cnt, d) ELSE n[x]
  BY DEF Rewritten
<1>3. \A l \in LPages : \A s \in Sectors :
        lat2[l][s] = IF l = lpn /\ s \in off .. off + cnt - 1 THEN d ELSE lat[l][s]
  BY <1>0 DEF WriteLatest, IsLatest
<1> HIDE DEF map2, lat2
<1> SUFFICES ASSUME NEW l \in LPagesOf[b], NEW s \in Sectors
             PROVE  lat2[l][s] = IF map2[l] = NULL THEN Erased ELSE n2[map2[l]].data[s]
  BY DEF Stored, map2, lat2
<1>4. lat[l][s] = IF map[l] = NULL THEN Erased ELSE n[map[l]].data[s]
  BY DEF Stored
<1>5. CASE l # lpn
  <2>1. map2[l] = map[l] /\ map[l] \in VPages /\ map[l] # new
    BY <1>5, <1>0, <1>1, <1>2
  <2>2. n2[map[l]] = n[map[l]]
    BY <2>1, <1>7
  <2> QED
    BY <2>1, <2>2, <1>0, <1>3, <1>4, <1>5
<1>6. CASE l = lpn
  <2>1. map2[l] = new /\ n2[new] = NewPage(n, map[l], off, cnt, d)
    BY <1>6, <1>0, <1>1, <1>2, <1>7
  <2> DEFINE pd == [t \in Sectors |-> IF t \in off .. off + cnt - 1 THEN d
                       ELSE IF map[l] = NULL THEN Erased ELSE SectorAt(n, map[l], t)]
  <2>2. n2[new].data = pd
    BY <2>1, Kinds DEF NewPage
  <2>3. n2[new].data[s] = IF s \in off .. off + cnt - 1 THEN d
                          ELSE IF map[l] = NULL THEN Erased ELSE SectorAt(n, map[l], s)
    BY <2>2
  <2>4. map[l] # NULL => SectorAt(n, map[l], s) = n[map[l]].data[s]
    BY DEF Listed, SectorAt
  <2> QED
    BY <2>1, <2>3, <2>4, <1>0, <1>1, <1>3, <1>4, <1>6
<1> QED
  BY <1>5, <1>6

\* The logs are not in user blocks.
LEMMA LogsFrame ==
  ASSUME NEW b \in Banks, NEW m, NEW n, NEW m2, NEW n2,
         LogPlaces(b, m, n), LogsKept(b, m, n),
         m2.cur_miscblk_vpn = m.cur_miscblk_vpn, m2.cur_mapblk_vpn = m.cur_mapblk_vpn,
         \A x \in VPages : BlockOf(x) \notin UserBlocks[b] => n2[x] = n[x]
  PROVE  LogPlaces(b, m2, n2) /\ LogsKept(b, m2, n2)
<1>1. \A k \in MapLbns : MapBlock[b][k] \notin UserBlocks[b]
  BY Blocks
<1>2. MISCBLK_VBN \notin UserBlocks[b]
  BY Blocks
<1>3. \A k \in MapLbns : n2[m.cur_mapblk_vpn[k]] = n[m.cur_mapblk_vpn[k]]
  BY <1>1 DEF LogPlaces
<1>4. LogPlaces(b, m2, n2)
  BY <1>1, <1>2, <1>3 DEF LogPlaces
<1>5. Logged(b) \subseteq MapLbns
  BY DEF Logged
<1> QED
  BY <1>3, <1>4, <1>5 DEF LogsKept

\* The whole of write_page.
LEMMA WriteOk ==
  ASSUME NEW b \in Banks, NEW map, IsMap(map), NEW vc, IsCounts(vc), NEW m, NEW n,
         NEW lat, IsLatest(lat), NEW lpn \in LPagesOf[b],
         NEW off, NEW cnt, NEW d,
         BankOk(b, map, vc, m, n, lat, OffsetOf(m.cur_write_vpn))
  PROVE  /\ BankOk(b, [map EXCEPT ![lpn] = m.cur_write_vpn], WriteCounts(m, vc, map[lpn]),
                   WriteMeta(m, lpn),
                   Program(n, m.cur_write_vpn, NewPage(n, map[lpn], off, cnt, d)),
                   WriteLatest(lat, lpn, off, cnt, d),
                   OffsetOf(WriteMeta(m, lpn).cur_write_vpn) + 1)
         /\ IsCounts(WriteCounts(m, vc, map[lpn]))
         /\ SameBoot(n, Program(n, m.cur_write_vpn, NewPage(n, map[lpn], off, cnt, d)))
<1> DEFINE new == m.cur_write_vpn
           pg  == NewPage(n, map[lpn], off, cnt, d)
           n2  == Program(n, m.cur_write_vpn, pg)
           m2  == WriteMeta(m, lpn)
<1>0. /\ Position(b, m) /\ Programmed(b, m, n, OffsetOf(new)) /\ Listed(b, map, m, n, OffsetOf(new))
      /\ Counted(b, map, vc, m) /\ Stored(b, map, n, lat) /\ LogPlaces(b, m, n)
      /\ LogsKept(b, m, n)
  BY DEF BankOk
<1>1. lpn \in LPages
  BY LogicalPages
<1>2. pg # Clobbered /\ IsData(pg) /\ pg # ErasedPage
  BY Kinds DEF NewPage
<1> HIDE DEF pg
<1>3. /\ Programmed(b, m2, n2, OffsetOf(new) + 1)
      /\ Rewritten(n, n2, new, pg)
  <2>1. Position(b, m) /\ Programmed(b, m, n, OffsetOf(m.cur_write_vpn)) /\ pg # Clobbered
    BY <1>0, <1>2
  <2>2. /\ Programmed(b, WriteMeta(m, lpn), Program(n, m.cur_write_vpn, pg),
                       OffsetOf(m.cur_write_vpn) + 1)
        /\ Rewritten(n, Program(n, m.cur_write_vpn, pg), m.cur_write_vpn, pg)
    BY <1>1, <2>1, WriteProgrammed
  <2> QED
    BY <2>2
<1> HIDE DEF n2
<1>4. Listed(b, [map EXCEPT ![lpn] = new], m2, n2, OffsetOf(new) + 1)
  BY <1>0, <1>2, <1>3, WriteListed
<1>5. new # NULL /\ new \in VPages /\ BlockOf(new) \in UserBlocks[b]
  BY <1>0, NewPageFree, PositionFacts DEF Cur
<1>6. /\ Counted(b, [map EXCEPT ![lpn] = new], WriteCounts(m, vc, map[lpn]), m2)
      /\ IsCounts(WriteCounts(m, vc, map[lpn]))
  BY <1>0, <1>5, WriteCounted
<1>7. Stored(b, [map EXCEPT ![lpn] = new], n2, WriteLatest(lat, lpn, off, cnt, d))
  BY <1>0, <1>3, WriteStored DEF pg
<1>8. LogPlaces(b, m2, n2) /\ LogsKept(b, m2, n2)
  <2>1. m2.cur_miscblk_vpn = m.cur_miscblk_vpn /\ m2.cur_mapblk_vpn = m.cur_mapblk_vpn
    BY <1>0, <1>1, WriteMetaFields
  <2>2. \A x \in VPages : BlockOf(x) \notin UserBlocks[b] => n2[x] = n[x]
    BY <1>3, <1>5 DEF Rewritten
  <2> HIDE DEF m2
  <2> QED
    BY <1>0, <2>1, <2>2, LogsFrame
<1>9. Position(b, m2) /\ m2.cur_write_vpn = new
  <2>1. /\ m2 \in Metas(b) /\ m2.cur_write_vpn = new /\ m2.gc_vblock = m.gc_vblock
        /\ m2.free_blk_cnt = m.free_blk_cnt /\ Cur(m2) = Cur(m) /\ Ahead(b, m2) = Ahead(b, m)
        /\ Used(b, m2) = Used(b, m)
    <3>1. Position(b, m) /\ lpn \in LPages
      BY <1>0, <1>1
    <3> QED
      BY <3>1, WriteMetaFields
  <2> HIDE DEF m2
  <2> QED
    BY <1>0, <2>1 DEF Position
<1>10. SameBoot(n, n2)
  BY <1>3, <1>5, BootBlock DEF Rewritten, SameBoot
<1> QED
  BY <1>3, <1>4, <1>6, <1>7, <1>8, <1>9, <1>10 DEF BankOk, n2, pg


-----------------------------------------------------------------------------
(* assign_new_write_vpn: the next page of the block *)

NextPageMeta(m) == [m EXCEPT !.cur_write_vpn = @ + 1]

\* assign_new_write_vpn inside a block.
LEMMA NextPageOk ==
  ASSUME NEW b \in Banks, NEW map, NEW vc, NEW m, NEW n, NEW lat,
         BankOk(b, map, vc, m, n, lat, OffsetOf(m.cur_write_vpn) + 1),
         OffsetOf(m.cur_write_vpn) # PAGES_PER_BLK - 2
  PROVE  BankOk(b, map, vc, NextPageMeta(m), n, lat, OffsetOf(NextPageMeta(m).cur_write_vpn))
<1> DEFINE cur == m.cur_write_vpn
           m2  == NextPageMeta(m)
<1>0. /\ Position(b, m) /\ Programmed(b, m, n, OffsetOf(cur) + 1)
      /\ Listed(b, map, m, n, OffsetOf(cur) + 1)
      /\ Counted(b, map, vc, m) /\ Stored(b, map, n, lat) /\ LogPlaces(b, m, n)
      /\ LogsKept(b, m, n)
  BY DEF BankOk
<1>1. /\ cur \in VPages /\ OffsetOf(cur) \in Int /\ OffsetOf(cur) < LAST /\ Cur(m) \in VBlks
      /\ 0 <= OffsetOf(cur)
  BY <1>0, PositionFacts DEF Offsets
<1>2. OffsetOf(cur) + 1 < LAST
  BY <1>1, Sizes
<1>3. BlockOf(cur + 1) = Cur(m) /\ OffsetOf(cur + 1) = OffsetOf(cur) + 1
  <2>1. cur \in Int /\ OffsetOf(cur) # LAST
    BY <1>1, VPagesAre
  <2> QED
    BY <2>1, NextVpn DEF Cur
<1>4. cur + 1 \in VPages
  <2>1. cur + 1 \in Int
    BY <1>1, VPagesAre
  <2>2. VpnOf(BlockOf(cur + 1), OffsetOf(cur + 1)) = cur + 1
    BY <2>1, VpnSplit
  <2>3. OffsetOf(cur) + 1 \in Offsets
    BY <1>1, <1>2, Sizes DEF Offsets
  <2> QED
    BY <2>2, <2>3, <1>1, <1>3, VPagesAre
<1>5. m \in Metas(b)
  BY <1>0 DEF Position
<1>6. /\ m2 \in Metas(b) /\ m2.cur_write_vpn = cur + 1 /\ m2.gc_vblock = m.gc_vblock
      /\ m2.free_blk_cnt = m.free_blk_cnt
      /\ m2.lpn_list_of_cur_vblock = m.lpn_list_of_cur_vblock
      /\ m2.cur_miscblk_vpn = m.cur_miscblk_vpn /\ m2.cur_mapblk_vpn = m.cur_mapblk_vpn
  BY <1>4, <1>5 DEF NextPageMeta, Metas
<1> HIDE DEF m2, cur
<1>7. Cur(m2) = Cur(m) /\ Ahead(b, m2) = Ahead(b, m)
  BY <1>3, <1>6 DEF Cur, Ahead
<1>8. Clear(b, m2) = Clear(b, m) /\ Used(b, m2) = Used(b, m)
  BY <1>6, <1>7 DEF Clear, Used
<1>9. Position(b, m2)
  BY <1>0, <1>2, <1>3, <1>6, <1>7, <1>8 DEF Position
<1>10. Programmed(b, m2, n, OffsetOf(cur) + 1)
  BY <1>0, <1>7, <1>8 DEF Programmed
<1>11. /\ \A x : Place(b, m2, OffsetOf(cur) + 1, x) <=> Place(b, m, OffsetOf(cur) + 1, x)
       /\ \A x : Entry(m2, n, x) = Entry(m, n, x)
  BY <1>6, <1>7, <1>8 DEF Place, Entry, ListAt
<1>12. Listed(b, map, m2, n, OffsetOf(cur) + 1)
  BY <1>0, <1>11 DEF Listed
<1>13. Counted(b, map, vc, m2)
  BY <1>0, <1>6 DEF Counted
<1>14. LogPlaces(b, m2, n) /\ LogsKept(b, m2, n)
  BY <1>0, <1>6 DEF LogPlaces, LogsKept
<1> QED
  BY <1>0, <1>3, <1>6, <1>9, <1>10, <1>12, <1>13, <1>14 DEF BankOk, m2, cur

-----------------------------------------------------------------------------
(* The list of the full block has gone to its last page *)

InList(n, x) == n[VpnOf(BlockOf(x), LAST)].list[OffsetOf(x)]
Listable(b, m, x) == x \in VPages /\ BlockOf(x) \in Used(b, m) /\ OffsetOf(x) < LAST
Closed(b, map, m, n) ==
  /\ DOMAIN n = VPages
  /\ \A x \in VPages : BlockOf(x) # 0 => n[x] # Clobbered
  /\ \A x \in VPages : BlockOf(x) \in Clear(b, m) => n[x] = ErasedPage
  /\ \A v \in Used(b, m) : HasList(n, v)
  /\ \A l \in LPagesOf[b] : map[l] # NULL =>
       Listable(b, m, map[l]) /\ IsData(n[map[l]]) /\ InList(n, map[l]) = l
  /\ \A x \in VPages : Listable(b, m, x) =>
       InList(n, x) \in LPagesOf[b] \/ (InList(n, x) = 0 /\ Unwritten(b, n, x))

Listing(m, n) == Program(n, VpnOf(Cur(m), LAST), ListPage(m.lpn_list_of_cur_vblock))

\* The full block with its list in its last page.
LEMMA CloseOk ==
  ASSUME NEW b \in Banks, NEW map, NEW vc, NEW m, NEW n, NEW lat,
         BankOk(b, map, vc, m, n, lat, OffsetOf(m.cur_write_vpn) + 1),
         OffsetOf(m.cur_write_vpn) = PAGES_PER_BLK - 2
  PROVE  /\ Closed(b, map, m, Listing(m, n)) /\ Stored(b, map, Listing(m, n), lat)
         /\ LogPlaces(b, m, Listing(m, n)) /\ LogsKept(b, m, Listing(m, n))
         /\ SameBoot(n, Listing(m, n))
<1> DEFINE last == VpnOf(Cur(m), LAST)
           n1   == Listing(m, n)
<1>0. /\ Position(b, m) /\ Programmed(b, m, n, LAST) /\ Listed(b, map, m, n, LAST)
      /\ Stored(b, map, n, lat) /\ LogPlaces(b, m, n) /\ LogsKept(b, m, n)
  <2>1. OffsetOf(m.cur_write_vpn) + 1 = LAST
    BY Sizes
  <2> QED
    BY <2>1 DEF BankOk
<1>1. /\ Cur(m) \in VBlks /\ Cur(m) \in Used(b, m) /\ Cur(m) \notin Clear(b, m)
      /\ Cur(m) \in UserBlocks[b] /\ Used(b, m) \subseteq VBlks
      /\ m.lpn_list_of_cur_vblock \in [Offsets -> LPages]
  BY <1>0, PositionFacts, Blocks
<1>2. last \in VPages /\ BlockOf(last) = Cur(m) /\ OffsetOf(last) = LAST /\ LAST \in Int
  BY <1>1, VPagesAre, Sizes
<1>3. n[last] = ErasedPage /\ DOMAIN n = VPages
  BY <1>0, <1>2 DEF Programmed
<1>4. DOMAIN n1 = VPages /\ \A x \in VPages :
        n1[x] = IF x = last THEN ListPage(m.lpn_list_of_cur_vblock) ELSE n[x]
  BY <1>2, <1>3 DEF Listing, Program
<1> HIDE DEF n1, last
<1>5. \A x \in VPages : BlockOf(x) # 0 => n1[x] # Clobbered
  BY <1>0, <1>4, Kinds DEF Programmed
<1>6. \A x \in VPages : BlockOf(x) \in Clear(b, m) => n1[x] = ErasedPage
  BY <1>0, <1>1, <1>2, <1>4 DEF Programmed
<1>7. \A v \in Used(b, m) : /\ HasList(n1, v)
                            /\ n1[VpnOf(v, LAST)].list = ListAt(m, n, v)
  <2> SUFFICES ASSUME NEW v \in Used(b, m)
               PROVE  HasList(n1, v) /\ n1[VpnOf(v, LAST)].list = ListAt(m, n, v)
    OBVIOUS
  <2>1. VpnOf(v, LAST) \in VPages /\ BlockOf(VpnOf(v, LAST)) = v
    BY <1>1, VPagesAre, Sizes
  <2>2. CASE v = Cur(m)
    <3>1. n1[VpnOf(v, LAST)] = ListPage(m.lpn_list_of_cur_vblock)
      BY <2>1, <2>2, <1>4 DEF last
    <3> QED
      BY <3>1, <2>2, <1>1, Kinds DEF HasList, ListAt
  <2>3. CASE v # Cur(m)
    <3>1. n1[VpnOf(v, LAST)] = n[VpnOf(v, LAST)]
      BY <2>1, <2>3, <1>2, <1>4
    <3> QED
      BY <3>1, <2>3, <1>0 DEF Programmed, HasList, ListAt
  <2> QED
    BY <2>2, <2>3
<1>8. \A x \in VPages : /\ Listable(b, m, x) <=> Place(b, m, LAST, x)
                        /\ Listable(b, m, x) => InList(n1, x) = Entry(m, n, x) /\ n1[x] = n[x]
  <2> SUFFICES ASSUME NEW x \in VPages
               PROVE  /\ Listable(b, m, x) <=> Place(b, m, LAST, x)
                      /\ Listable(b, m, x) => InList(n1, x) = Entry(m, n, x) /\ n1[x] = n[x]
    OBVIOUS
  <2>1. Listable(b, m, x) => x # last
    BY <1>2 DEF Listable
  <2> QED
    BY <2>1, <1>4, <1>7 DEF Listable, Place, InList, Entry
<1>9. ASSUME NEW l \in LPagesOf[b], map[l] # NULL
      PROVE  Listable(b, m, map[l]) /\ IsData(n1[map[l]]) /\ InList(n1, map[l]) = l
             /\ n1[map[l]] = n[map[l]]
  <2>1. Place(b, m, LAST, map[l]) /\ IsData(n[map[l]]) /\ Entry(m, n, map[l]) = l
    BY <1>0, <1>9 DEF Listed
  <2>2. map[l] \in VPages
    BY <2>1 DEF Place
  <2> QED
    BY <2>1, <2>2, <1>8
<1>10. ASSUME NEW x \in VPages, Listable(b, m, x)
       PROVE  InList(n1, x) \in LPagesOf[b] \/ (InList(n1, x) = 0 /\ Unwritten(b, n1, x))
  BY <1>0, <1>8, <1>10 DEF Listed, Unwritten
<1>11. Closed(b, map, m, n1)
  BY <1>4, <1>5, <1>6, <1>7, <1>9, <1>10 DEF Closed
<1>12. Stored(b, map, n1, lat)
  BY <1>0, <1>9 DEF Stored
<1>13. LogPlaces(b, m, n1) /\ LogsKept(b, m, n1)
  <2>1. \A x \in VPages : BlockOf(x) \notin UserBlocks[b] => n1[x] = n[x]
    BY <1>1, <1>2, <1>4
  <2> QED
    BY <2>1, <1>0, LogsFrame
<1>14. SameBoot(n, n1)
  BY <1>1, <1>2, <1>4, BootBlock DEF SameBoot
<1> QED
  BY <1>11, <1>12, <1>13, <1>14 DEF n1


-----------------------------------------------------------------------------
(* assign_new_write_vpn: the first page of the next block *)

Later(m, vc) == {v \in VBlks : v > Cur(m) /\ vc[v] # VC_MAX}
NextBlockMeta(m, v) == [m EXCEPT !.lpn_list_of_cur_vblock = [p \in Offsets |-> 0],
                                 !.free_blk_cnt = @ - 1, !.cur_write_vpn = VpnOf(v, 0)]

\* Until the first collection the candidates for the next block are those not begun.
LEMMA LaterBlocks ==
  ASSUME NEW b \in Banks, NEW map, NEW vc, NEW m, NEW n, NEW lat, NEW c,
         BankOk(b, map, vc, m, n, lat, c), m.free_blk_cnt # 2
  PROVE  /\ Later(m, vc) = Ahead(b, m) /\ Ahead(b, m) # {}
         /\ Ahead(b, m) = {v \in UserBlocks[b] : v > Cur(m)}
<1>0. Position(b, m) /\ Listed(b, map, m, n, c) /\ Counted(b, map, vc, m)
  BY DEF BankOk
<1>1. Ahead(b, m) = {v \in UserBlocks[b] : v > Cur(m)}
  BY DEF Ahead
<1>2. /\ m.gc_vblock \notin Ahead(b, m) /\ IsFiniteSet(Ahead(b, m))
      /\ m.free_blk_cnt = 2 + Cardinality(Ahead(b, m))
  BY <1>0, PositionFacts DEF Position
<1>3. \A v \in Ahead(b, m) : vc[v] # VC_MAX
  <2> SUFFICES ASSUME NEW v \in Ahead(b, m) PROVE vc[v] # VC_MAX
    OBVIOUS
  <2>1. v \in UserBlocks[b] \ {m.gc_vblock} /\ v \in VBlks
    BY <1>1, <1>2, Blocks
  <2>2. v \notin Used(b, m)
    BY DEF Used, Clear
  <2>3. ValidIn(b, map, v) = {}
    BY <1>0, <2>2 DEF ValidIn, Listed, Place
  <2>4. vc[v] = 0
    BY <1>0, <2>1, <2>3, FS_EmptySet DEF Counted
  <2> QED
    BY <2>4 DEF VC_MAX
<1>4. Later(m, vc) = Ahead(b, m)
  <2>1. \A v \in VBlks : v > Cur(m) /\ vc[v] # VC_MAX => v \in UserBlocks[b]
    BY <1>0 DEF Counted
  <2>2. UserBlocks[b] \subseteq VBlks
    BY Blocks
  <2> QED
    BY <2>1, <2>2, <1>1, <1>3 DEF Later
<1>5. Ahead(b, m) # {}
  BY <1>2, FS_EmptySet
<1> QED
  BY <1>1, <1>4, <1>5

\* The metadata when block v is begun.
LEMMA NextBlockMetaFields ==
  ASSUME NEW b \in Banks, NEW m, Position(b, m), m.free_blk_cnt # 2,
         NEW v \in Ahead(b, m), \A w \in Ahead(b, m) : v <= w
  PROVE  LET m2 == NextBlockMeta(m, v)
         IN /\ m2 \in Metas(b) /\ m2.gc_vblock = m.gc_vblock
            /\ m2.lpn_list_of_cur_vblock = [p \in Offsets |-> 0]
            /\ m2.cur_miscblk_vpn = m.cur_miscblk_vpn /\ m2.cur_mapblk_vpn = m.cur_mapblk_vpn
            /\ Cur(m2) = v /\ OffsetOf(m2.cur_write_vpn) = 0
            /\ Clear(b, m2) = Clear(b, m) \ {v} /\ Used(b, m2) = Used(b, m) \cup {v}
            /\ v \in Clear(b, m) /\ Position(b, m2)
<1> DEFINE m2 == NextBlockMeta(m, v)
<1>0. /\ Ahead(b, m) = {w \in UserBlocks[b] : w > Cur(m)}
      /\ UserBlocks[b] \subseteq VBlks /\ UserBlocks[b] \subseteq Int
      /\ IsFiniteSet(Ahead(b, m)) /\ Cardinality(Ahead(b, m)) \in Nat
      /\ m.gc_vblock \notin Ahead(b, m) /\ m.free_blk_cnt = 2 + Cardinality(Ahead(b, m))
      /\ m \in Metas(b) /\ Cur(m) \in UserBlocks[b] /\ m.gc_vblock = FirstGcBlock[b]
  BY PositionFacts, Blocks DEF Ahead, Position
<1>1. v \in UserBlocks[b] /\ v \in VBlks /\ v \in Int /\ 0 \in Offsets /\ v # m.gc_vblock
  BY <1>0, Sizes DEF Offsets
<1>2. VpnOf(v, 0) \in VPages /\ BlockOf(VpnOf(v, 0)) = v /\ OffsetOf(VpnOf(v, 0)) = 0
  BY <1>1, VPagesAre
<1>3. m.free_blk_cnt - 1 \in Nat
  BY <1>0
<1>4. [p \in Offsets |-> 0] \in [Offsets -> LPages]
  BY Sizes DEF LPages
<1>5. /\ m2 \in Metas(b) /\ m2.gc_vblock = m.gc_vblock
      /\ m2.lpn_list_of_cur_vblock = [p \in Offsets |-> 0]
      /\ m2.cur_miscblk_vpn = m.cur_miscblk_vpn /\ m2.cur_mapblk_vpn = m.cur_mapblk_vpn
      /\ m2.cur_write_vpn = VpnOf(v, 0) /\ m2.free_blk_cnt = m.free_blk_cnt - 1
  BY <1>0, <1>2, <1>3, <1>4 DEF Metas, NextBlockMeta
<1> HIDE DEF m2
<1>6. Cur(m2) = v /\ OffsetOf(m2.cur_write_vpn) = 0
  BY <1>2, <1>5 DEF Cur
<1> DEFINE A == Ahead(b, m)
<1>7. {w \in UserBlocks[b] : w > v} = A \ {v}
  <2>1. \A w \in UserBlocks[b] : w > v => w \in A /\ w # v
    BY <1>0, <1>1
  <2>2. \A w \in A : w # v => w > v
    BY <1>0, <1>1
  <2> QED
    BY <2>1, <2>2, <1>0
<1>8. Cardinality(A \ {v}) = Cardinality(A) - 1 /\ IsFiniteSet(A \ {v})
  BY <1>0, FS_RemoveElement
<1>9. Ahead(b, m2) = A \ {v}
  <2>1. CASE m2.free_blk_cnt = 2
    <3>1. Cardinality(A \ {v}) = 0
      BY <2>1, <1>0, <1>5, <1>8
    <3>2. A \ {v} = {}
      BY <3>1, <1>8, FS_EmptySet
    <3> QED
      BY <2>1, <3>2 DEF Ahead
  <2>2. CASE m2.free_blk_cnt # 2
    BY <2>2, <1>6, <1>7 DEF Ahead
  <2> QED
    BY <2>1, <2>2
<1>10. Clear(b, m2) = Clear(b, m) \ {v} /\ v \in Clear(b, m)
  BY <1>1, <1>5, <1>9 DEF Clear
<1>11. Used(b, m2) = Used(b, m) \cup {v}
  BY <1>1, <1>10 DEF Used
<1>12. m2.free_blk_cnt = 2 + Cardinality(Ahead(b, m2))
  BY <1>0, <1>5, <1>8, <1>9
<1>13. Position(b, m2)
  <2>1. 0 < LAST
    BY Sizes
  <2> QED
    BY <2>1, <1>0, <1>5, <1>6, <1>11, <1>12 DEF Position
<1> QED
  BY <1>5, <1>6, <1>10, <1>11, <1>13 DEF m2

\* assign_new_write_vpn at the end of a block, with a block left to begin.
LEMMA NextBlockOk ==
  ASSUME NEW b \in Banks, NEW map, NEW vc, NEW m, NEW n, NEW lat,
         BankOk(b, map, vc, m, n, lat, OffsetOf(m.cur_write_vpn) + 1),
         OffsetOf(m.cur_write_vpn) = PAGES_PER_BLK - 2, m.free_blk_cnt # 2,
         NEW v \in Ahead(b, m), \A w \in Ahead(b, m) : v <= w
  PROVE  BankOk(b, map, vc, NextBlockMeta(m, v), Listing(m, n), lat,
                OffsetOf(NextBlockMeta(m, v).cur_write_vpn))
<1> DEFINE m2 == NextBlockMeta(m, v)
           n1 == Listing(m, n)
<1>0. Position(b, m) /\ Counted(b, map, vc, m)
  BY DEF BankOk
<1>1. /\ Closed(b, map, m, n1) /\ Stored(b, map, n1, lat)
      /\ LogPlaces(b, m, n1) /\ LogsKept(b, m, n1)
  BY CloseOk
<1>2. /\ m2 \in Metas(b) /\ m2.gc_vblock = m.gc_vblock
      /\ m2.cur_miscblk_vpn = m.cur_miscblk_vpn /\ m2.cur_mapblk_vpn = m.cur_mapblk_vpn
      /\ Cur(m2) = v /\ OffsetOf(m2.cur_write_vpn) = 0
      /\ Clear(b, m2) = Clear(b, m) \ {v} /\ Used(b, m2) = Used(b, m) \cup {v}
      /\ v \in Clear(b, m) /\ Position(b, m2)
  BY <1>0, NextBlockMetaFields
<1>3. v \notin Used(b, m)
  BY <1>2 DEF Used
<1> HIDE DEF m2, n1
<1>4. Programmed(b, m2, n1, 0)
  BY <1>1, <1>2 DEF Programmed, Closed
<1>5. \A x \in VPages : /\ Place(b, m2, 0, x) <=> Listable(b, m, x)
                        /\ Listable(b, m, x) => Entry(m2, n1, x) = InList(n1, x)
  <2> SUFFICES ASSUME NEW x \in VPages
               PROVE  /\ Place(b, m2, 0, x) <=> Listable(b, m, x)
                      /\ Listable(b, m, x) => Entry(m2, n1, x) = InList(n1, x)
    OBVIOUS
  <2>1. ~(OffsetOf(x) < 0)
    BY VPagesAre DEF Offsets
  <2>2. BlockOf(x) \in Used(b, m) => BlockOf(x) # v
    BY <1>3
  <2>3. Place(b, m2, 0, x) <=> Listable(b, m, x)
    BY <2>1, <2>2, <1>2 DEF Place, Listable
  <2>4. Listable(b, m, x) => Entry(m2, n1, x) = InList(n1, x)
    BY <2>2, <1>2 DEF Listable, Entry, ListAt, InList
  <2> QED
    BY <2>3, <2>4
<1>6. ASSUME NEW l \in LPagesOf[b], map[l] # NULL
      PROVE  Place(b, m2, 0, map[l]) /\ IsData(n1[map[l]]) /\ Entry(m2, n1, map[l]) = l
  <2>1. Listable(b, m, map[l]) /\ IsData(n1[map[l]]) /\ InList(n1, map[l]) = l
    BY <1>1, <1>6 DEF Closed
  <2>2. map[l] \in VPages
    BY <2>1 DEF Listable
  <2> QED
    BY <2>1, <2>2, <1>5
<1>7. Listed(b, map, m2, n1, 0)
  BY <1>1, <1>5, <1>6 DEF Listed, Closed
<1>8. Counted(b, map, vc, m2)
  BY <1>0, <1>2 DEF Counted
<1>9. LogPlaces(b, m2, n1) /\ LogsKept(b, m2, n1)
  BY <1>1, <1>2 DEF LogPlaces, LogsKept
<1> QED
  BY <1>1, <1>2, <1>4, <1>7, <1>8, <1>9 DEF BankOk, m2, n1


-----------------------------------------------------------------------------
(* garbage_collection of block vt, whose list is in the flash n *)

Lists(n, vt) == n[VpnOf(vt, LAST)].list
Valid(map, n, vt) == {p \in 0 .. LAST - 1 : map[Lists(n, vt)[p]] = VpnOf(vt, p)}
GcMap(map, n, vt, gc) ==
  [l \in LPages |->
     IF \E p \in Valid(map, n, vt) : Lists(n, vt)[p] = l
     THEN VpnOf(gc, CopyTo(Valid(map, n, vt),
                           CHOOSE p \in Valid(map, n, vt) : Lists(n, vt)[p] = l))
     ELSE map[l]]
GcNand(map, n, vt, gc) == EraseAll(CopiedBack(n, vt, gc, Valid(map, n, vt)), {vt})
GcCounts(vc, vt, gc) == [vc EXCEPT ![vt] = VC_MAX, ![gc] = vc[vt]]
GcMeta(map, m, n, vt) ==
  [m EXCEPT !.cur_write_vpn = VpnOf(m.gc_vblock, Cardinality(Valid(map, n, vt))),
            !.gc_vblock = vt,
            !.lpn_list_of_cur_vblock = MovedList(Lists(n, vt), Valid(map, n, vt))]

Victim(b, map, vc, m, n, vt) ==
  /\ IsMap(map) /\ Position(b, m) /\ m.free_blk_cnt = 2
  /\ Closed(b, map, m, n) /\ Counted(b, map, vc, m)
  /\ vt \in Used(b, m)

\* What is known of a victim and of the free block.
LEMMA VictimFacts ==
  ASSUME NEW b \in Banks, NEW map, NEW vc, NEW m, NEW n, NEW vt, Victim(b, map, vc, m, n, vt)
  PROVE  /\ Clear(b, m) = {m.gc_vblock} /\ Used(b, m) = UserBlocks[b] \ {m.gc_vblock}
         /\ vt \in UserBlocks[b] /\ vt # m.gc_vblock /\ m.gc_vblock \in UserBlocks[b]
         /\ vt \in VBlks /\ m.gc_vblock \in VBlks /\ UserBlocks[b] \subseteq VBlks
         /\ Lists(n, vt) \in [Offsets -> LPages]
         /\ Valid(map, n, vt) \in SUBSET (0 .. LAST - 1)
         /\ Valid(map, n, vt) \in SUBSET Int /\ Valid(map, n, vt) \in SUBSET Offsets
         /\ IsFiniteSet(Valid(map, n, vt)) /\ Cardinality(Valid(map, n, vt)) \in Nat
         /\ Cardinality(Valid(map, n, vt)) <= LAST
         /\ IsFiniteSet(ValidIn(b, map, vt)) /\ vc[vt] = Cardinality(ValidIn(b, map, vt))
<1>0. /\ IsMap(map) /\ Position(b, m) /\ m.free_blk_cnt = 2 /\ Closed(b, map, m, n)
      /\ Counted(b, map, vc, m) /\ vt \in Used(b, m)
  BY DEF Victim
<1>1. Clear(b, m) = {m.gc_vblock}
  BY <1>0 DEF Clear, Ahead
<1>2. Used(b, m) = UserBlocks[b] \ {m.gc_vblock}
  BY <1>1 DEF Used
<1>3. /\ vt \in UserBlocks[b] /\ vt # m.gc_vblock /\ m.gc_vblock \in UserBlocks[b]
      /\ vt \in VBlks /\ m.gc_vblock \in VBlks /\ UserBlocks[b] \subseteq VBlks
  BY <1>0, <1>2, PositionFacts, Blocks
<1>4. Lists(n, vt) \in [Offsets -> LPages]
  BY <1>0 DEF Closed, HasList, Lists
<1>5. Valid(map, n, vt) \in SUBSET (0 .. LAST - 1)
  BY DEF Valid
<1>6. /\ IsFiniteSet(0 .. LAST - 1) /\ Cardinality(0 .. LAST - 1) = LAST
      /\ (0 .. LAST - 1) \subseteq Int /\ (0 .. LAST - 1) \subseteq Offsets
  <2>1. LAST \in Int /\ LAST > 0 /\ LAST = PAGES_PER_BLK - 1 /\ PAGES_PER_BLK \in Nat
    BY Sizes
  <2>2. IsFiniteSet(0 .. LAST - 1) /\ Cardinality(0 .. LAST - 1) = LAST
    BY <2>1, FS_Interval
  <2> QED
    BY <2>1, <2>2 DEF Offsets
<1>7. IsFiniteSet(Valid(map, n, vt)) /\ Cardinality(Valid(map, n, vt)) <= LAST
  BY <1>5, <1>6, FS_Subset
<1>8. Cardinality(Valid(map, n, vt)) \in Nat
  BY <1>7, FS_CardinalityType
<1>9. IsFiniteSet(ValidIn(b, map, vt))
  BY ValidSets
<1>10. vc[vt] = Cardinality(ValidIn(b, map, vt))
  BY <1>0, <1>3 DEF Counted
<1> QED
  BY <1>1, <1>2, <1>3, <1>4, <1>5, <1>6, <1>7, <1>8, <1>9, <1>10

\* The pages that the page map points to are found valid.
LEMMA ValidFound ==
  ASSUME NEW b \in Banks, NEW map, NEW vc, NEW m, NEW n, NEW vt, Victim(b, map, vc, m, n, vt),
         NEW l \in ValidIn(b, map, vt)
  PROVE  /\ l \in LPagesOf[b] /\ map[l] # NULL /\ map[l] \in VPages /\ BlockOf(map[l]) = vt
         /\ OffsetOf(map[l]) \in Valid(map, n, vt) /\ Lists(n, vt)[OffsetOf(map[l])] = l
         /\ map[l] = VpnOf(vt, OffsetOf(map[l])) /\ IsData(n[map[l]])
<1>1. l \in LPagesOf[b] /\ map[l] # NULL /\ BlockOf(map[l]) = vt
  BY DEF ValidIn
<1>2. Listable(b, m, map[l]) /\ IsData(n[map[l]]) /\ InList(n, map[l]) = l
  BY <1>1 DEF Victim, Closed
<1>3. map[l] \in VPages /\ OffsetOf(map[l]) < LAST
  BY <1>2 DEF Listable
<1>4. Lists(n, vt)[OffsetOf(map[l])] = l
  BY <1>1, <1>2 DEF InList, Lists
<1>5. OffsetOf(map[l]) \in Offsets /\ map[l] = VpnOf(vt, OffsetOf(map[l]))
  BY <1>1, <1>3, VPagesAre
<1>6. OffsetOf(map[l]) \in 0 .. LAST - 1
  BY <1>3, <1>5, Sizes DEF Offsets
<1>7. OffsetOf(map[l]) \in Valid(map, n, vt)
  BY <1>4, <1>5, <1>6 DEF Valid
<1> QED
  BY <1>1, <1>2, <1>3, <1>4, <1>5, <1>7

\* ... and no others when the count agrees.
LEMMA ValidExact ==
  ASSUME NEW b \in Banks, NEW map, NEW vc, NEW m, NEW n, NEW vt, Victim(b, map, vc, m, n, vt),
         Cardinality(Valid(map, n, vt)) = vc[vt], NEW p \in Valid(map, n, vt)
  PROVE  /\ Lists(n, vt)[p] \in ValidIn(b, map, vt)
         /\ map[Lists(n, vt)[p]] = VpnOf(vt, p) /\ OffsetOf(map[Lists(n, vt)[p]]) = p
<1> DEFINE S == ValidIn(b, map, vt)
           T == Valid(map, n, vt)
           f == [l \in S |-> OffsetOf(map[l])]
<1>1. \A l \in S : f[l] \in T /\ Lists(n, vt)[f[l]] = l
  BY ValidFound
<1>2. IsFiniteSet(T) /\ Cardinality(S) = Cardinality(T) /\ p \in Offsets /\ vt \in VBlks
  BY VictimFacts
<1>3. f \in Injection(S, T)
  <2>1. f \in [S -> T]
    BY <1>1
  <2>2. \A x, y \in S : f[x] = f[y] => x = y
    BY <1>1
  <2> HIDE DEF f
  <2>3. DOMAIN f = S
    BY <2>1
  <2> QED
    BY <2>1, <2>2, <2>3 DEF Injection, IsInjective
<1> HIDE DEF f, S, T
<1>4. f \in Surjection(S, T)
  BY <1>2, <1>3, FS_Injection
<1>5. PICK l \in S : f[l] = p
  BY <1>4 DEF Surjection, T
<1>6. Lists(n, vt)[p] = l
  BY <1>1, <1>5
<1>7. map[Lists(n, vt)[p]] = VpnOf(vt, p)
  BY DEF Valid
<1>8. OffsetOf(VpnOf(vt, p)) = p
  BY <1>2, VPagesAre
<1> QED
  BY <1>5, <1>6, <1>7, <1>8 DEF S

\* The places that the valid pages go to.
LEMMA Targets ==
  ASSUME NEW S \in SUBSET Int, IsFiniteSet(S)
  PROVE  /\ \A p \in S : CopyTo(S, p) \in 0 .. Cardinality(S) - 1
                         /\ CopyFrom(S, CopyTo(S, p)) = p
         /\ \A k \in 0 .. Cardinality(S) - 1 : CopyFrom(S, k) \in S /\ CopyTo(S, CopyFrom(S, k)) = k
<1>0. /\ Cardinality(S) \in Nat
      /\ \A p \in S : CopyTo(S, p) \in 0 .. Cardinality(S) - 1
      /\ \A p, q \in S : p < q => CopyTo(S, p) < CopyTo(S, q)
      /\ \A k \in 0 .. Cardinality(S) - 1 : \E p \in S : CopyTo(S, p) = k
  BY Ranks
<1>1. \A k \in 0 .. Cardinality(S) - 1 : CopyFrom(S, k) \in S /\ CopyTo(S, CopyFrom(S, k)) = k
  BY <1>0 DEF CopyFrom
<1>2. ASSUME NEW p \in S PROVE CopyFrom(S, CopyTo(S, p)) = p
  <2> DEFINE q == CopyFrom(S, CopyTo(S, p))
  <2>1. q \in S /\ CopyTo(S, q) = CopyTo(S, p)
    BY <1>0, <1>1
  <2> HIDE DEF q
  <2>2. ~(p < q) /\ ~(q < p)
    <3>1. CopyTo(S, p) \in Int
      BY <1>0
    <3> QED
      BY <3>1, <2>1, <1>0
  <2>3. p = q
    BY <2>1, <2>2
  <2> QED
    BY <2>3 DEF q
<1> QED
  BY <1>0, <1>1, <1>2


Collects(b, map, vc, m, n, vt) ==
  /\ Victim(b, map, vc, m, n, vt)
  /\ Cardinality(Valid(map, n, vt)) = vc[vt]
  /\ Cardinality(Valid(map, n, vt)) < LAST

\* The metadata after the collection.
LEMMA GcMetaFields ==
  ASSUME NEW b \in Banks, NEW map, NEW vc, NEW m, NEW n, NEW vt, Collects(b, map, vc, m, n, vt)
  PROVE  LET m2 == GcMeta(map, m, n, vt)
             K  == Cardinality(Valid(map, n, vt))
         IN /\ Position(b, m2) /\ m2.gc_vblock = vt /\ Cur(m2) = m.gc_vblock
            /\ OffsetOf(m2.cur_write_vpn) = K
            /\ Clear(b, m2) = {vt} /\ Used(b, m2) = UserBlocks[b] \ {vt}
            /\ m2.cur_miscblk_vpn = m.cur_miscblk_vpn /\ m2.cur_mapblk_vpn = m.cur_mapblk_vpn
            /\ \A k \in 0 .. K - 1 : m2.lpn_list_of_cur_vblock[k] =
                                        Lists(n, vt)[CopyFrom(Valid(map, n, vt), k)]
<1> DEFINE m2 == GcMeta(map, m, n, vt)
           S  == Valid(map, n, vt)
           K  == Cardinality(S)
           gc == m.gc_vblock
           L  == MovedList(Lists(n, vt), S)
<1>0. /\ Victim(b, map, vc, m, n, vt) /\ Position(b, m) /\ m.free_blk_cnt = 2 /\ m \in Metas(b)
      /\ K < LAST
  BY DEF Collects, Victim, Position
<1>1. /\ vt \in UserBlocks[b] /\ vt # gc /\ gc \in UserBlocks[b] /\ gc \in VBlks
      /\ Lists(n, vt) \in [Offsets -> LPages]
      /\ S \in SUBSET Int /\ S \in SUBSET Offsets /\ IsFiniteSet(S) /\ K \in Nat
  BY <1>0, VictimFacts
<1>2. K \in Offsets
  BY <1>0, <1>1, Sizes DEF Offsets
<1>3. VpnOf(gc, K) \in VPages /\ BlockOf(VpnOf(gc, K)) = gc /\ OffsetOf(VpnOf(gc, K)) = K
  BY <1>1, <1>2, VPagesAre
<1>4. \A k \in 0 .. K - 1 : k \in Offsets /\ CopyFrom(S, k) \in Offsets
  <2>1. \A k \in 0 .. K - 1 : CopyFrom(S, k) \in S
    BY <1>1, Targets
  <2>2. \A k \in 0 .. K - 1 : k \in Offsets
    <3>1. K \in Nat /\ K < LAST /\ LAST = PAGES_PER_BLK - 1 /\ PAGES_PER_BLK \in Nat
      BY <1>0, <1>1, Sizes
    <3> HIDE DEF S
    <3> QED
      BY <3>1 DEF Offsets
  <2> QED
    BY <2>1, <2>2, <1>1
<1>5. L \in [Offsets -> LPages]
  <2>1. \A k \in Offsets : k < K => k \in 0 .. K - 1
    BY <1>1 DEF Offsets
  <2>2. \A k \in Offsets : (IF k < K THEN Lists(n, vt)[CopyFrom(S, k)] ELSE Lists(n, vt)[k]) \in LPages
    BY <2>1, <1>1, <1>4
  <2> HIDE DEF S
  <2> QED
    BY <2>2 DEF MovedList
<1>6. \A k \in 0 .. K - 1 : L[k] = Lists(n, vt)[CopyFrom(S, k)]
  <2>1. \A k \in 0 .. K - 1 : k < K /\ k \in Offsets
    BY <1>1, <1>4
  <2> HIDE DEF S
  <2> QED
    BY <2>1 DEF MovedList
<1> HIDE DEF L, S
<1>7. /\ m2 \in Metas(b) /\ m2.gc_vblock = vt /\ m2.cur_write_vpn = VpnOf(gc, K)
      /\ m2.free_blk_cnt = 2 /\ m2.lpn_list_of_cur_vblock = L
      /\ m2.cur_miscblk_vpn = m.cur_miscblk_vpn /\ m2.cur_mapblk_vpn = m.cur_mapblk_vpn
  BY <1>0, <1>1, <1>3, <1>5 DEF Metas, GcMeta, L, S
<1> HIDE DEF m2
<1>8. Cur(m2) = gc /\ Ahead(b, m2) = {}
  BY <1>3, <1>7 DEF Cur, Ahead
<1>9. Clear(b, m2) = {vt} /\ Used(b, m2) = UserBlocks[b] \ {vt}
  BY <1>7, <1>8 DEF Clear, Used
<1>10. Cardinality(Ahead(b, m2)) = 0
  BY <1>8, FS_EmptySet
<1>11. Position(b, m2)
  BY <1>0, <1>1, <1>3, <1>7, <1>8, <1>9, <1>10 DEF Position
<1> QED
  BY <1>3, <1>6, <1>7, <1>8, <1>9, <1>11 DEF m2, S

\* The flash after the collection.
LEMMA GcFlash ==
  ASSUME NEW b \in Banks, NEW map, NEW vc, NEW m, NEW n, NEW vt, Collects(b, map, vc, m, n, vt)
  PROVE  LET n2 == GcNand(map, n, vt, m.gc_vblock)
             K  == Cardinality(Valid(map, n, vt))
         IN /\ DOMAIN n2 = VPages
            /\ \A x \in VPages : BlockOf(x) = vt => n2[x] = ErasedPage
            /\ \A x \in VPages : BlockOf(x) = m.gc_vblock /\ OffsetOf(x) >= K
                                 => n2[x] = ErasedPage
            /\ \A k \in 0 .. K - 1 :
                 /\ VpnOf(m.gc_vblock, k) \in VPages
                 /\ BlockOf(VpnOf(m.gc_vblock, k)) = m.gc_vblock
                 /\ OffsetOf(VpnOf(m.gc_vblock, k)) = k
                 /\ n2[VpnOf(m.gc_vblock, k)] =
                      n[VpnOf(vt, CopyFrom(Valid(map, n, vt), k))]
            /\ \A x \in VPages : BlockOf(x) # vt /\ BlockOf(x) # m.gc_vblock => n2[x] = n[x]
<1> DEFINE n2 == GcNand(map, n, vt, m.gc_vblock)
           S  == Valid(map, n, vt)
           K  == Cardinality(S)
           gc == m.gc_vblock
           to == VpnOf(gc, 0) .. VpnOf(gc, 0) + K - 1
           n1 == CopiedBack(n, vt, gc, S)
<1>0. Victim(b, map, vc, m, n, vt) /\ Closed(b, map, m, n) /\ K < LAST
  BY DEF Collects, Victim
<1>1. vt # gc /\ gc \in VBlks /\ gc \in Int /\ K \in Nat /\ Clear(b, m) = {gc}
  <2>1. vt # gc /\ gc \in VBlks /\ K \in Nat /\ Clear(b, m) = {gc}
    BY <1>0, VictimFacts
  <2> QED
    BY <2>1 DEF VBlks
<1>2. \A x \in VPages : n1[x] = IF x \notin to THEN n[x]
        ELSE IF n[x] = ErasedPage THEN n[VpnOf(vt, CopyFrom(S, OffsetOf(x)))] ELSE Clobbered
  BY DEF CopiedBack
<1>3. DOMAIN n2 = VPages /\ \A x \in VPages : n2[x] = IF BlockOf(x) = vt THEN ErasedPage ELSE n1[x]
  BY DEF GcNand, EraseAll
<1> HIDE DEF n1, n2, S
<1>4. \A x \in VPages : x \in to <=> (BlockOf(x) = gc /\ OffsetOf(x) < K)
  <2> SUFFICES ASSUME NEW x \in VPages
               PROVE  x \in to <=> (BlockOf(x) = gc /\ OffsetOf(x) < K)
    OBVIOUS
  <2>1. x \in Int /\ BlockOf(x) \in Int /\ OffsetOf(x) \in Offsets /\ OffsetOf(x) \in Nat
        /\ x = VpnOf(BlockOf(x), OffsetOf(x))
    BY VPagesAre DEF VBlks, Offsets
  <2>0. 0 \in Offsets /\ K \in Offsets
    BY <1>0, <1>1, Sizes DEF Offsets
  <2>2. VpnOf(gc, 0) \in Int /\ 0 \in Offsets /\ K \in Offsets
    BY <2>0, <1>1, Vpn
  <2>3. VpnOf(gc, 0) + K = VpnOf(gc, K)
    BY <2>2, <1>1, Vpn
  <2>4. x \in to <=> (VpnOf(gc, 0) <= x /\ x < VpnOf(gc, K))
    BY <2>1, <2>2, <2>3, <1>1
  <2>5. CASE BlockOf(x) = gc
    <3>1. x < VpnOf(gc, K) <=> OffsetOf(x) < K
      BY <2>1, <2>2, <2>5, <1>1, VpnOrder
    <3>2. VpnOf(gc, 0) + OffsetOf(x) = x
      BY <2>1, <2>5, Vpn
    <3>3. VpnOf(gc, 0) <= x
      BY <3>2, <2>1, <2>2
    <3> QED
      BY <3>1, <3>3, <2>4, <2>5
  <2>6. CASE BlockOf(x) < gc
    <3>1. x < VpnOf(gc, 0)
      BY <2>1, <2>2, <2>6, <1>1, VpnOrder
    <3> QED
      BY <3>1, <2>1, <2>2, <2>4, <2>6, <1>1
  <2>7. CASE gc < BlockOf(x)
    <3>1. VpnOf(gc, K) < x
      BY <2>1, <2>2, <2>7, <1>1, VpnOrder
    <3>2. VpnOf(gc, K) \in Int
      BY <2>2, <2>3, <1>1
    <3> QED
      BY <3>1, <3>2, <2>1, <2>4, <2>7, <1>1
  <2> QED
    BY <2>5, <2>6, <2>7, <2>1, <1>1
<1> HIDE DEF to
<1>5. \A x \in VPages : BlockOf(x) = gc => n[x] = ErasedPage
  BY <1>0, <1>1 DEF Closed
<1>6. \A x \in VPages : BlockOf(x) = gc /\ OffsetOf(x) >= K => n2[x] = ErasedPage
  <2> SUFFICES ASSUME NEW x \in VPages, BlockOf(x) = gc, OffsetOf(x) >= K
               PROVE  n2[x] = ErasedPage
    OBVIOUS
  <2>1. x \notin to
    BY <1>1, <1>4, VPagesAre DEF Offsets
  <2> QED
    BY <2>1, <1>1, <1>2, <1>3, <1>5
<1>7. ASSUME NEW k \in 0 .. K - 1
      PROVE  /\ VpnOf(gc, k) \in VPages /\ BlockOf(VpnOf(gc, k)) = gc /\ OffsetOf(VpnOf(gc, k)) = k
             /\ n2[VpnOf(gc, k)] = n[VpnOf(vt, CopyFrom(S, k))]
  <2>1. k \in Offsets /\ k < K
    BY <1>0, <1>1, Sizes DEF Offsets
  <2>2. VpnOf(gc, k) \in VPages /\ BlockOf(VpnOf(gc, k)) = gc /\ OffsetOf(VpnOf(gc, k)) = k
    BY <2>1, <1>1, VPagesAre
  <2>3. VpnOf(gc, k) \in to
    BY <2>1, <2>2, <1>4
  <2> QED
    BY <2>2, <2>3, <1>1, <1>2, <1>3, <1>5
<1>8. \A x \in VPages : BlockOf(x) # vt /\ BlockOf(x) # gc => n2[x] = n[x]
  BY <1>2, <1>3, <1>4
<1> QED
  BY <1>3, <1>6, <1>7, <1>8 DEF n2, S

\* The page map after the collection.
LEMMA GcMapped ==
  ASSUME NEW b \in Banks, NEW map, NEW vc, NEW m, NEW n, NEW vt, Collects(b, map, vc, m, n, vt)
  PROVE  LET map2 == GcMap(map, n, vt, m.gc_vblock)
         IN /\ IsMap(map2)
            /\ \A l \in ValidIn(b, map, vt) :
                 map2[l] = VpnOf(m.gc_vblock, CopyTo(Valid(map, n, vt), OffsetOf(map[l])))
            /\ \A l \in LPages : l \notin ValidIn(b, map, vt) => map2[l] = map[l]
<1> DEFINE map2 == GcMap(map, n, vt, m.gc_vblock)
           S    == Valid(map, n, vt)
           L    == Lists(n, vt)
           V    == ValidIn(b, map, vt)
           gc   == m.gc_vblock
<1>0. Victim(b, map, vc, m, n, vt) /\ Cardinality(S) = vc[vt] /\ IsMap(map)
      /\ Cardinality(S) < LAST
  BY DEF Collects, Victim
<1>1. /\ S \in SUBSET Int /\ IsFiniteSet(S) /\ Cardinality(S) \in Nat /\ gc \in VBlks
  BY <1>0, VictimFacts
<1>2. \A p \in S : L[p] \in V /\ OffsetOf(map[L[p]]) = p
  BY <1>0, ValidExact
<1>3. \A l \in V : OffsetOf(map[l]) \in S /\ L[OffsetOf(map[l])] = l /\ l \in LPagesOf[b]
  BY <1>0, ValidFound
<1>4. LPagesOf[b] \subseteq LPages
  BY LogicalPages
<1>5. map2 = [l \in LPages |-> IF \E p \in S : L[p] = l
                 THEN VpnOf(gc, CopyTo(S, CHOOSE p \in S : L[p] = l)) ELSE map[l]]
  BY DEF GcMap
<1> HIDE DEF S, L, V, map2
<1>6. ASSUME NEW l \in V PROVE map2[l] = VpnOf(gc, CopyTo(S, OffsetOf(map[l])))
  <2>1. \A p \in S : L[p] = l <=> p = OffsetOf(map[l])
    BY <1>2, <1>3
  <2>2. (CHOOSE p \in S : L[p] = l) = OffsetOf(map[l])
    BY <2>1, <1>3
  <2>3. l \in LPages /\ \E p \in S : L[p] = l
    BY <1>3, <1>4
  <2> QED
    BY <2>2, <2>3, <1>5
<1>7. ASSUME NEW l \in LPages, l \notin V PROVE map2[l] = map[l]
  BY <1>2, <1>5, <1>7
<1>8. IsMap(map2)
  <2>1. ASSUME NEW l \in LPages PROVE map2[l] \in VPages
    <3>1. CASE l \in V
      <4>1. CopyTo(S, OffsetOf(map[l])) \in 0 .. Cardinality(S) - 1
        BY <3>1, <1>1, <1>3, Targets
      <4>2. CopyTo(S, OffsetOf(map[l])) \in Offsets
        BY <4>1, <1>0, <1>1, Sizes DEF Offsets
      <4> QED
        BY <4>2, <3>1, <1>1, <1>6, VPagesAre
    <3>2. CASE l \notin V
      BY <3>2, <1>0, <1>7 DEF IsMap
    <3> QED
      BY <3>1, <3>2
  <2>2. map2 = [l \in LPages |-> map2[l]]
    BY <1>5
  <2> QED
    BY <2>1, <2>2 DEF IsMap
<1> QED
  BY <1>6, <1>7, <1>8 DEF map2, S, V


\* Where each mapped page is after the collection, with its data and entry.
LEMMA GcPlaces ==
  ASSUME NEW b \in Banks, NEW map, NEW vc, NEW m, NEW n, NEW vt, Collects(b, map, vc, m, n, vt)
  PROVE  LET map2 == GcMap(map, n, vt, m.gc_vblock)
             n2   == GcNand(map, n, vt, m.gc_vblock)
             m2   == GcMeta(map, m, n, vt)
             K    == Cardinality(Valid(map, n, vt))
         IN /\ \A l \in ValidIn(b, map, vt) :
                 /\ map2[l] \in VPages /\ map2[l] # NULL /\ BlockOf(map2[l]) = m.gc_vblock
                 /\ OffsetOf(map2[l]) < K /\ n2[map2[l]] = n[map[l]] /\ Entry(m2, n2, map2[l]) = l
            /\ \A l \in LPagesOf[b] : l \notin ValidIn(b, map, vt) /\ map[l] # NULL =>
                 /\ map2[l] = map[l] /\ map[l] \in VPages /\ OffsetOf(map[l]) < LAST
                 /\ BlockOf(map[l]) \in UserBlocks[b] \ {vt, m.gc_vblock}
                 /\ n2[map[l]] = n[map[l]] /\ Entry(m2, n2, map[l]) = l
            /\ \A l \in LPagesOf[b] : map[l] = NULL => map2[l] = NULL
            /\ \A x \in VPages : BlockOf(x) = m.gc_vblock /\ OffsetOf(x) < K =>
                 Entry(m2, n2, x) \in LPagesOf[b]
            /\ \A x \in VPages : BlockOf(x) \in UserBlocks[b] \ {vt, m.gc_vblock} =>
                 n2[x] = n[x] /\ Entry(m2, n2, x) = InList(n, x)
<1> DEFINE map2 == GcMap(map, n, vt, m.gc_vblock)
           n2   == GcNand(map, n, vt, m.gc_vblock)
           m2   == GcMeta(map, m, n, vt)
           S    == Valid(map, n, vt)
           K    == Cardinality(S)
           V    == ValidIn(b, map, vt)
           L    == Lists(n, vt)
           gc   == m.gc_vblock
<1>0. Victim(b, map, vc, m, n, vt) /\ Closed(b, map, m, n) /\ K < LAST /\ K = vc[vt] /\ IsMap(map)
  BY DEF Collects, Victim
<1>1. /\ S \in SUBSET Int /\ IsFiniteSet(S) /\ K \in Nat /\ gc \in VBlks /\ gc \in UserBlocks[b]
      /\ Used(b, m) = UserBlocks[b] \ {gc} /\ UserBlocks[b] \subseteq VBlks /\ vt # gc
  BY <1>0, VictimFacts
<1>2. gc # 0 /\ BlockOf(NULL) = 0
  <2>1. gc >= META_BLKS_PER_BANK
    BY <1>1, Blocks
  <2>2. META_BLKS_PER_BANK > 0 /\ META_BLKS_PER_BANK \in Int /\ gc \in Int
    BY <1>1, Sizes, Blocks DEF META_BLKS_PER_BANK
  <2>3. 0 \in Int /\ 0 \in Offsets /\ VpnOf(0, 0) = 0
    BY Sizes DEF Offsets, VpnOf
  <2>4. BlockOf(VpnOf(0, 0)) = 0
    BY <2>3, Vpn
  <2> QED
    BY <2>1, <2>2, <2>3, <2>4 DEF NULL
<1>3. /\ Cur(m2) = gc
      /\ \A k \in 0 .. K - 1 : m2.lpn_list_of_cur_vblock[k] = L[CopyFrom(S, k)]
  BY GcMetaFields
<1>4. /\ \A k \in 0 .. K - 1 : /\ VpnOf(gc, k) \in VPages /\ BlockOf(VpnOf(gc, k)) = gc
                                /\ OffsetOf(VpnOf(gc, k)) = k
                                /\ n2[VpnOf(gc, k)] = n[VpnOf(vt, CopyFrom(S, k))]
      /\ \A x \in VPages : BlockOf(x) # vt /\ BlockOf(x) # gc => n2[x] = n[x]
  BY GcFlash
<1>5. /\ \A l \in V : map2[l] = VpnOf(gc, CopyTo(S, OffsetOf(map[l])))
      /\ \A l \in LPages : l \notin V => map2[l] = map[l]
  BY GcMapped
<1> HIDE DEF map2, n2, m2, S, V, L
<1>6. \A k \in 0 .. K - 1 : CopyFrom(S, k) \in S /\ CopyTo(S, CopyFrom(S, k)) = k
  BY <1>1, Targets
<1>7. \A p \in S : CopyTo(S, p) \in 0 .. K - 1 /\ CopyFrom(S, CopyTo(S, p)) = p
  BY <1>1, Targets
<1>8. \A k \in 0 .. K - 1 : Entry(m2, n2, VpnOf(gc, k)) = L[CopyFrom(S, k)]
  BY <1>3, <1>4 DEF Entry, ListAt
<1>9. ASSUME NEW l \in V
      PROVE  /\ map2[l] \in VPages /\ map2[l] # NULL /\ BlockOf(map2[l]) = gc
             /\ OffsetOf(map2[l]) < K /\ n2[map2[l]] = n[map[l]] /\ Entry(m2, n2, map2[l]) = l
  <2> DEFINE p == OffsetOf(map[l])
             k == CopyTo(S, p)
  <2>1. p \in S /\ L[p] = l /\ map[l] = VpnOf(vt, p)
    BY <1>0, ValidFound DEF S, L, V
  <2>2. k \in 0 .. K - 1 /\ CopyFrom(S, k) = p /\ map2[l] = VpnOf(gc, k)
    BY <2>1, <1>5, <1>7
  <2> HIDE DEF p, k
  <2>3. k < K
    BY <2>2, <1>1
  <2> QED
    BY <2>1, <2>2, <2>3, <1>2, <1>4, <1>8
<1>10. ASSUME NEW x \in VPages, BlockOf(x) \in UserBlocks[b] \ {vt, gc}
       PROVE  n2[x] = n[x] /\ Entry(m2, n2, x) = InList(n, x)
  <2>1. LAST \in Offsets /\ BlockOf(x) \in VBlks
    BY Sizes, VPagesAre
  <2>2. VpnOf(BlockOf(x), LAST) \in VPages /\ BlockOf(VpnOf(BlockOf(x), LAST)) = BlockOf(x)
    BY <2>1, VPagesAre
  <2>3. n2[VpnOf(BlockOf(x), LAST)] = n[VpnOf(BlockOf(x), LAST)]
    BY <2>2, <1>4, <1>10
  <2> QED
    BY <2>3, <1>3, <1>4, <1>10 DEF Entry, ListAt, InList
<1>11. ASSUME NEW l \in LPagesOf[b], l \notin V, map[l] # NULL
       PROVE  /\ map2[l] = map[l] /\ map[l] \in VPages /\ OffsetOf(map[l]) < LAST
              /\ BlockOf(map[l]) \in UserBlocks[b] \ {vt, gc}
              /\ n2[map[l]] = n[map[l]] /\ Entry(m2, n2, map[l]) = l
  <2>1. l \in LPages /\ map2[l] = map[l]
    BY <1>5, <1>11, LogicalPages
  <2>2. Listable(b, m, map[l]) /\ InList(n, map[l]) = l
    BY <1>0, <1>11 DEF Closed
  <2>3. map[l] \in VPages /\ OffsetOf(map[l]) < LAST /\ BlockOf(map[l]) \in UserBlocks[b] \ {gc}
    BY <2>2, <1>1 DEF Listable
  <2>4. BlockOf(map[l]) # vt
    BY <1>11 DEF V, ValidIn
  <2> QED
    BY <2>1, <2>2, <2>3, <2>4, <1>10
<1>12. ASSUME NEW l \in LPagesOf[b], map[l] = NULL PROVE map2[l] = NULL
  BY <1>5, <1>12, LogicalPages DEF V, ValidIn
<1>13. ASSUME NEW x \in VPages, BlockOf(x) = gc, OffsetOf(x) < K
       PROVE  Entry(m2, n2, x) \in LPagesOf[b]
  <2>1. x = VpnOf(gc, OffsetOf(x)) /\ OffsetOf(x) \in Offsets
    BY <1>13, VPagesAre
  <2>2. OffsetOf(x) \in 0 .. K - 1
    BY <2>1, <1>13, <1>1 DEF Offsets
  <2>3. Entry(m2, n2, x) = L[CopyFrom(S, OffsetOf(x))] /\ CopyFrom(S, OffsetOf(x)) \in S
    BY <2>1, <2>2, <1>6, <1>8
  <2>4. \A p \in S : L[p] \in V
    BY <1>0, ValidExact DEF S, L, V
  <2> QED
    BY <2>3, <2>4 DEF V, ValidIn
<1> QED
  BY <1>9, <1>10, <1>11, <1>12, <1>13 DEF map2, n2, m2, S, V

\* The whole of garbage_collection.
LEMMA GcOk ==
  ASSUME NEW b \in Banks, NEW map, NEW vc, NEW m, NEW n, NEW vt, NEW lat,
         Collects(b, map, vc, m, n, vt), IsCounts(vc),
         Stored(b, map, n, lat), LogPlaces(b, m, n), LogsKept(b, m, n)
  PROVE  LET map2 == GcMap(map, n, vt, m.gc_vblock)
             m2   == GcMeta(map, m, n, vt)
         IN /\ BankOk(b, map2, GcCounts(vc, vt, m.gc_vblock), m2,
                      GcNand(map, n, vt, m.gc_vblock), lat, OffsetOf(m2.cur_write_vpn))
            /\ IsMap(map2) /\ IsCounts(GcCounts(vc, vt, m.gc_vblock))
            /\ \A l \in LPages : l \notin LPagesOf[b] => map2[l] = map[l]
            /\ SameBoot(n, GcNand(map, n, vt, m.gc_vblock))
<1> DEFINE map2 == GcMap(map, n, vt, m.gc_vblock)
           n2   == GcNand(map, n, vt, m.gc_vblock)
           m2   == GcMeta(map, m, n, vt)
           vc2  == GcCounts(vc, vt, m.gc_vblock)
           K    == Cardinality(Valid(map, n, vt))
           gc   == m.gc_vblock
<1>0. Victim(b, map, vc, m, n, vt) /\ Closed(b, map, m, n) /\ K = vc[vt] /\ Counted(b, map, vc, m)
      /\ IsMap(map)
  BY DEF Collects, Victim
<1>1. /\ Used(b, m) = UserBlocks[b] \ {gc} /\ UserBlocks[b] \subseteq VBlks /\ vt # gc
      /\ gc \in UserBlocks[b] /\ vt \in UserBlocks[b] /\ vc[vt] = Cardinality(ValidIn(b, map, vt))
  BY <1>0, VictimFacts
<1>2. /\ \A l \in ValidIn(b, map, vt) :
           /\ map2[l] \in VPages /\ map2[l] # NULL /\ BlockOf(map2[l]) = gc
           /\ OffsetOf(map2[l]) < K /\ n2[map2[l]] = n[map[l]] /\ Entry(m2, n2, map2[l]) = l
      /\ \A l \in LPagesOf[b] : l \notin ValidIn(b, map, vt) /\ map[l] # NULL =>
           /\ map2[l] = map[l] /\ map[l] \in VPages /\ OffsetOf(map[l]) < LAST
           /\ BlockOf(map[l]) \in UserBlocks[b] \ {vt, gc}
           /\ n2[map[l]] = n[map[l]] /\ Entry(m2, n2, map[l]) = l
      /\ \A l \in LPagesOf[b] : map[l] = NULL => map2[l] = NULL
  BY GcPlaces
<1>3. /\ \A x \in VPages : BlockOf(x) = gc /\ OffsetOf(x) < K => Entry(m2, n2, x) \in LPagesOf[b]
      /\ \A x \in VPages : BlockOf(x) \in UserBlocks[b] \ {vt, gc} =>
           n2[x] = n[x] /\ Entry(m2, n2, x) = InList(n, x)
  BY GcPlaces
<1>4. /\ Position(b, m2) /\ m2.gc_vblock = vt /\ Cur(m2) = gc /\ OffsetOf(m2.cur_write_vpn) = K
      /\ Clear(b, m2) = {vt} /\ Used(b, m2) = UserBlocks[b] \ {vt}
      /\ m2.cur_miscblk_vpn = m.cur_miscblk_vpn /\ m2.cur_mapblk_vpn = m.cur_mapblk_vpn
  BY GcMetaFields
<1>5. /\ DOMAIN n2 = VPages
      /\ \A x \in VPages : BlockOf(x) = vt => n2[x] = ErasedPage
      /\ \A x \in VPages : BlockOf(x) = gc /\ OffsetOf(x) >= K => n2[x] = ErasedPage
      /\ \A x \in VPages : BlockOf(x) # vt /\ BlockOf(x) # gc => n2[x] = n[x]
  BY GcFlash
<1>6. IsMap(map2) /\ \A l \in LPages : l \notin ValidIn(b, map, vt) => map2[l] = map[l]
  BY GcMapped
<1>7. ASSUME NEW k \in 0 .. K - 1
      PROVE  VpnOf(gc, k) \in VPages /\ n2[VpnOf(gc, k)] # Clobbered
  <2> DEFINE p == CopyFrom(Valid(map, n, vt), k)
  <2>1. VpnOf(gc, k) \in VPages /\ n2[VpnOf(gc, k)] = n[VpnOf(vt, p)]
    BY GcFlash
  <2>2. Valid(map, n, vt) \in SUBSET Int /\ IsFiniteSet(Valid(map, n, vt))
        /\ Valid(map, n, vt) \in SUBSET Offsets /\ vt \in VBlks
    BY <1>0, VictimFacts
  <2>3. p \in Valid(map, n, vt)
    BY <2>2, Targets
  <2>4. VpnOf(vt, p) \in VPages /\ BlockOf(VpnOf(vt, p)) = vt
    BY <2>2, <2>3, VPagesAre
  <2>5. vt # 0
    BY <1>0, VictimFacts, BootBlock
  <2> QED
    BY <2>1, <2>4, <2>5, <1>0 DEF Closed
<1>8. K \in Nat /\ gc \in VBlks
  BY <1>0, VictimFacts
<1> HIDE DEF map2, n2, m2, vc2, K
<1>9. Programmed(b, m2, n2, K)
  <2>1. ASSUME NEW x \in VPages, BlockOf(x) # 0 PROVE n2[x] # Clobbered
    <3>1. CASE BlockOf(x) = gc /\ OffsetOf(x) < K
      <4>1. OffsetOf(x) \in Nat /\ x = VpnOf(gc, OffsetOf(x))
        BY <3>1, VPagesAre DEF Offsets
      <4>2. OffsetOf(x) \in 0 .. K - 1
        BY <4>1, <3>1, <1>8
      <4> QED
        BY <4>1, <4>2, <1>7
    <3>2. CASE BlockOf(x) = gc /\ ~(OffsetOf(x) < K)
      <4>1. OffsetOf(x) >= K
        BY <3>2, <1>8, VPagesAre DEF Offsets
      <4> QED
        BY <4>1, <3>2, <1>5, Kinds
    <3>3. CASE BlockOf(x) # gc
      BY <2>1, <3>3, <1>0, <1>5, Kinds DEF Closed
    <3> QED
      BY <3>1, <3>2, <3>3
  <2>2. ASSUME NEW v \in Used(b, m2), v # Cur(m2) PROVE HasList(n2, v)
    <3>1. v \in Used(b, m) /\ v \in VBlks /\ v # vt /\ v # gc
      BY <2>2, <1>1, <1>4
    <3>2. LAST \in Offsets
      BY Sizes
    <3>3. VpnOf(v, LAST) \in VPages /\ BlockOf(VpnOf(v, LAST)) = v
      BY <3>1, <3>2, VPagesAre
    <3>4. n2[VpnOf(v, LAST)] = n[VpnOf(v, LAST)]
      BY <3>1, <3>3, <1>5
    <3> QED
      BY <3>1, <3>4, <1>0 DEF Closed, HasList
  <2> QED
    BY <2>1, <2>2, <1>4, <1>5 DEF Programmed
<1>10. Listed(b, map2, m2, n2, K)
  <2>1. ASSUME NEW l \in LPagesOf[b], map2[l] # NULL
        PROVE  Place(b, m2, K, map2[l]) /\ IsData(n2[map2[l]]) /\ Entry(m2, n2, map2[l]) = l
    <3>1. map[l] # NULL
      BY <2>1, <1>2
    <3>2. IsData(n[map[l]])
      BY <3>1, <1>0 DEF Closed
    <3>3. CASE l \in ValidIn(b, map, vt)
      <4>1. /\ map2[l] \in VPages /\ BlockOf(map2[l]) = gc /\ OffsetOf(map2[l]) < K
            /\ n2[map2[l]] = n[map[l]] /\ Entry(m2, n2, map2[l]) = l
        BY <3>3, <1>2
      <4>2. K < LAST /\ LAST \in Nat
        BY Sizes DEF Collects, K
      <4>3. OffsetOf(map2[l]) < LAST
        BY <4>1, <4>2, <1>8, VPagesAre DEF Offsets
      <4> QED
        BY <4>1, <4>3, <3>2, <1>1, <1>4 DEF Place
    <3>4. CASE l \notin ValidIn(b, map, vt)
      BY <3>1, <3>2, <3>4, <1>2, <1>4 DEF Place
    <3> QED
      BY <3>3, <3>4
  <2>2. ASSUME NEW x \in VPages, Place(b, m2, K, x)
        PROVE  Entry(m2, n2, x) \in LPagesOf[b] \/ (Entry(m2, n2, x) = 0 /\ Unwritten(b, n2, x))
    <3>1. BlockOf(x) \in UserBlocks[b] \ {vt} /\ OffsetOf(x) < LAST
          /\ (BlockOf(x) = gc => OffsetOf(x) < K)
      BY <2>2, <1>4 DEF Place
    <3>2. CASE BlockOf(x) = gc
      BY <3>1, <3>2, <1>3
    <3>3. CASE BlockOf(x) # gc
      <4>1. Listable(b, m, x)
        BY <3>1, <3>3, <1>1 DEF Listable
      <4>2. n2[x] = n[x] /\ Entry(m2, n2, x) = InList(n, x)
        BY <3>1, <3>3, <1>3
      <4> QED
        BY <4>1, <4>2, <1>0 DEF Closed, Unwritten
    <3> QED
      BY <3>2, <3>3
  <2> QED
    BY <2>1, <2>2 DEF Listed
<1>11. Counted(b, map2, vc2, m2)
  <2>1. \A v \in VBlks : vc2[v] = IF v = gc THEN vc[vt] ELSE IF v = vt THEN VC_MAX ELSE vc[v]
    BY <1>1 DEF vc2, GcCounts, IsCounts
  <2>2. ValidIn(b, map2, gc) = ValidIn(b, map, vt)
    <3>1. ASSUME NEW l \in ValidIn(b, map2, gc) PROVE l \in ValidIn(b, map, vt)
      <4>1. l \in LPagesOf[b] /\ map2[l] # NULL /\ BlockOf(map2[l]) = gc
        BY <3>1 DEF ValidIn
      <4> QED
        BY <4>1, <1>2
    <3>2. ASSUME NEW l \in ValidIn(b, map, vt) PROVE l \in ValidIn(b, map2, gc)
      BY <3>2, <1>2 DEF ValidIn
    <3> QED
      BY <3>1, <3>2
  <2>3. ASSUME NEW v \in UserBlocks[b] \ {vt, gc} PROVE ValidIn(b, map2, v) = ValidIn(b, map, v)
    <3>1. ASSUME NEW l \in ValidIn(b, map2, v) PROVE l \in ValidIn(b, map, v)
      <4>1. l \in LPagesOf[b] /\ map2[l] # NULL /\ BlockOf(map2[l]) = v
        BY <3>1 DEF ValidIn
      <4>2. l \notin ValidIn(b, map, vt) /\ map[l] # NULL
        BY <4>1, <1>2
      <4>3. map2[l] = map[l]
        BY <4>1, <4>2, <1>2
      <4> QED
        BY <4>1, <4>2, <4>3 DEF ValidIn
    <3>2. ASSUME NEW l \in ValidIn(b, map, v) PROVE l \in ValidIn(b, map2, v)
      <4>1. l \in LPagesOf[b] /\ map[l] # NULL /\ BlockOf(map[l]) = v
        BY <3>2 DEF ValidIn
      <4>2. l \notin ValidIn(b, map, vt)
        BY <4>1 DEF ValidIn
      <4>3. map2[l] = map[l]
        BY <4>1, <4>2, <1>2
      <4> QED
        BY <4>1, <4>3 DEF ValidIn
    <3> QED
      BY <3>1, <3>2
  <2> SUFFICES ASSUME NEW v \in VBlks
               PROVE  vc2[v] = IF v \in UserBlocks[b] \ {vt}
                               THEN Cardinality(ValidIn(b, map2, v)) ELSE VC_MAX
    BY <1>4 DEF Counted
  <2>4. CASE v = gc
    BY <2>4, <2>1, <2>2, <1>1
  <2>5. CASE v # gc
    <3>1. vc[v] = IF v \in UserBlocks[b] \ {gc} THEN Cardinality(ValidIn(b, map, v)) ELSE VC_MAX
      BY <1>0 DEF Counted
    <3> QED
      BY <3>1, <2>1, <2>3, <2>5, <1>1
  <2> QED
    BY <2>4, <2>5
<1>12. Stored(b, map2, n2, lat)
  <2> SUFFICES ASSUME NEW l \in LPagesOf[b], NEW s \in Sectors
               PROVE  lat[l][s] = IF map2[l] = NULL THEN Erased ELSE n2[map2[l]].data[s]
    BY DEF Stored
  <2>1. lat[l][s] = IF map[l] = NULL THEN Erased ELSE n[map[l]].data[s]
    BY DEF Stored
  <2> QED
    BY <2>1, <1>2
<1>13. LogPlaces(b, m2, n2) /\ LogsKept(b, m2, n2)
  <2>1. \A x \in VPages : BlockOf(x) \notin UserBlocks[b] => n2[x] = n[x]
    BY <1>1, <1>5
  <2> QED
    BY <2>1, <1>4, LogsFrame
<1>14. IsCounts(vc2)
  <2>1. VC_MAX \in Nat /\ vc[vt] \in Nat
    BY <1>1, Sizes DEF IsCounts
  <2> QED
    BY <2>1 DEF IsCounts, vc2, GcCounts
<1>15. \A l \in LPages : l \notin LPagesOf[b] => map2[l] = map[l]
  BY <1>6 DEF ValidIn
<1>16. BankOk(b, map2, vc2, m2, n2, lat, OffsetOf(m2.cur_write_vpn))
  BY <1>4, <1>9, <1>10, <1>11, <1>12, <1>13 DEF BankOk
<1>17. SameBoot(n, n2)
  <2>1. vt # 0 /\ gc # 0
    BY <1>0, VictimFacts, BootBlock
  <2> QED
    BY <2>1, <1>5 DEF SameBoot
<1> QED
  BY <1>6, <1>14, <1>15, <1>16, <1>17 DEF map2, n2, m2, vc2


-----------------------------------------------------------------------------
(* ftl_flush *)

\* inc_mapblk_vpn stays in the map block.
LEMMA MapPageNext ==
  ASSUME NEW v \in VBlks, NEW x \in VPages, BlockOf(x) = v
  PROVE  /\ NextMapVpn(x) \in VPages /\ BlockOf(NextMapVpn(x)) = v
         /\ OffsetOf(x + 1) # 0 => NextMapVpn(x) = x + 1
<1>1. /\ x \in Int /\ v \in Int /\ OffsetOf(x) \in Offsets /\ x = VpnOf(v, OffsetOf(x))
      /\ LAST \in Offsets /\ LAST = PAGES_PER_BLK - 1 /\ PAGES_PER_BLK \in Nat
  BY VPagesAre, Sizes DEF VBlks
<1>2. 0 \in Offsets
  BY Sizes DEF Offsets
<1>3. CASE OffsetOf(x) = LAST
  <2>1. OffsetOf(x + 1) = 0
    BY <1>1, <1>3, NextVpn
  <2>2. VpnOf(v, 0) + LAST = x
    BY <1>1, <1>3, Vpn
  <2>3. VpnOf(v, 0) \in VPages /\ VpnOf(v, 0) \in Int /\ BlockOf(VpnOf(v, 0)) = v
    <3>1. VpnOf(v, 0) \in VPages /\ BlockOf(VpnOf(v, 0)) = v
      BY <1>2, VPagesAre
    <3> QED
      BY <3>1, VPagesAre
  <2>4. NextMapVpn(x) = VpnOf(v, 0)
    BY <1>1, <2>1, <2>2, <2>3 DEF NextMapVpn
  <2> QED
    BY <2>1, <2>3, <2>4
<1>4. CASE OffsetOf(x) # LAST
  <2>1. BlockOf(x + 1) = v /\ OffsetOf(x + 1) = OffsetOf(x) + 1 /\ x + 1 \in Int
    BY <1>1, <1>4, NextVpn
  <2>2. OffsetOf(x + 1) \in Offsets /\ OffsetOf(x + 1) # 0
    BY <1>1, <1>4, <2>1 DEF Offsets
  <2>3. VpnOf(v, OffsetOf(x + 1)) = x + 1
    BY <2>1, VpnSplit
  <2>4. x + 1 \in VPages
    BY <2>2, <2>3, VPagesAre
  <2> QED
    BY <2>1, <2>2, <2>4 DEF NextMapVpn
<1> QED
  BY <1>3, <1>4

\* inc_miscblk_vpn stays in its block.
LEMMA MiscPageNext ==
  ASSUME NEW b \in Banks, NEW y \in Int,
         y + 1 \in VpnOf(MISCBLK_VBN, 0) .. VpnOf(MISCBLK_VBN + 1, 0)
  PROVE  /\ NextMiscVpn(y) \in VPages /\ BlockOf(NextMiscVpn(y)) = MISCBLK_VBN
         /\ NextMiscVpn(y) + 1 \in VpnOf(MISCBLK_VBN, 0) .. VpnOf(MISCBLK_VBN + 1, 0)
         /\ BlockOf(y + 1) = MISCBLK_VBN => NextMiscVpn(y) = y + 1
<1>1. MISCBLK_VBN \in VBlks /\ MISCBLK_VBN \in Int /\ MISCBLK_VBN + 1 \in Int
  <2>1. FirstGcBlock[b] \in VBlks /\ FirstGcBlock[b] >= META_BLKS_PER_BANK
    BY Blocks
  <2> QED
    BY <2>1, Sizes DEF VBlks, MISCBLK_VBN, META_BLKS_PER_BANK
<1>2. 0 \in Offsets /\ LAST \in Offsets /\ LAST \in Nat
  BY Sizes DEF Offsets
<1>3. /\ VpnOf(MISCBLK_VBN, 0) \in VPages /\ BlockOf(VpnOf(MISCBLK_VBN, 0)) = MISCBLK_VBN
      /\ VpnOf(MISCBLK_VBN, 0) \in Int
  BY <1>1, <1>2, VPagesAre
<1>4. VpnOf(MISCBLK_VBN, LAST) + 1 = VpnOf(MISCBLK_VBN + 1, 0)
  BY <1>1, <1>2, VpnOrder
<1>5. VpnOf(MISCBLK_VBN, 0) + LAST = VpnOf(MISCBLK_VBN, LAST) /\ VpnOf(MISCBLK_VBN, LAST) \in Int
  BY <1>1, <1>2, Vpn
<1>6. CASE BlockOf(y + 1) # MISCBLK_VBN
  <2>1. NextMiscVpn(y) = VpnOf(MISCBLK_VBN, 0)
    BY <1>6 DEF NextMiscVpn
  <2> HIDE DEF MISCBLK_VBN
  <2>2. LAST > 0 /\ LAST \in Int
    BY Sizes
  <2>3. VpnOf(MISCBLK_VBN, 0) + 1 \in VpnOf(MISCBLK_VBN, 0) .. VpnOf(MISCBLK_VBN + 1, 0)
    BY <2>2, <1>3, <1>4, <1>5
  <2> QED
    BY <2>1, <2>3, <1>3, <1>6
<1>7. CASE BlockOf(y + 1) = MISCBLK_VBN
  <2>1. NextMiscVpn(y) = y + 1
    BY <1>7 DEF NextMiscVpn
  <2>2. y + 1 \in Int
    OBVIOUS
  <2>3. OffsetOf(y + 1) \in Offsets /\ VpnOf(MISCBLK_VBN, OffsetOf(y + 1)) = y + 1
    BY <1>7, <2>2, VpnSplit
  <2>4. y + 1 \in VPages
    BY <2>3, <1>1, VPagesAre
  <2>5. y + 1 # VpnOf(MISCBLK_VBN + 1, 0)
    BY <1>1, <1>2, <1>7, Vpn DEF MISCBLK_VBN
  <2>6. VpnOf(MISCBLK_VBN + 1, 0) \in Int
    BY <1>1, <1>2, Vpn
  <2>7. y + 1 + 1 \in VpnOf(MISCBLK_VBN, 0) .. VpnOf(MISCBLK_VBN + 1, 0)
    BY <2>2, <2>5, <2>6, <1>3
  <2> QED
    BY <2>1, <2>4, <2>7, <1>7
<1> QED
  BY <1>6, <1>7

\* The metadata after a flush: only the places of the logs move.
LEMMA FlushedMetaFields ==
  ASSUME NEW b \in Banks, NEW m \in Metas(b), NEW n, LogPlaces(b, m, n)
  PROVE  LET m2 == FlushedMeta(b, m)
         IN /\ m2 \in Metas(b) /\ m2.free_blk_cnt = m.free_blk_cnt /\ m2.gc_vblock = m.gc_vblock
            /\ m2.cur_write_vpn = m.cur_write_vpn
            /\ m2.lpn_list_of_cur_vblock = m.lpn_list_of_cur_vblock
            /\ m2.cur_miscblk_vpn = NextMiscVpn(m.cur_miscblk_vpn)
            /\ \A k \in MapLbns : m2.cur_mapblk_vpn[k] = IF k \in Logged(b)
                                      THEN NextMapVpn(m.cur_mapblk_vpn[k]) ELSE m.cur_mapblk_vpn[k]
            /\ \A k \in MapLbns : m2.cur_mapblk_vpn[k] \in VPages
                                  /\ BlockOf(m2.cur_mapblk_vpn[k]) = MapBlock[b][k]
<1> DEFINE m2 == FlushedMeta(b, m)
<1>1. /\ m2.free_blk_cnt = m.free_blk_cnt /\ m2.gc_vblock = m.gc_vblock
      /\ m2.cur_write_vpn = m.cur_write_vpn
      /\ m2.lpn_list_of_cur_vblock = m.lpn_list_of_cur_vblock
      /\ m2.cur_miscblk_vpn = NextMiscVpn(m.cur_miscblk_vpn)
      /\ m2.cur_mapblk_vpn = [k \in MapLbns |-> IF k \in Logged(b)
            THEN NextMapVpn(m.cur_mapblk_vpn[k]) ELSE m.cur_mapblk_vpn[k]]
  BY DEF FlushedMeta, Metas
<1>2. ASSUME NEW k \in MapLbns
      PROVE  /\ m2.cur_mapblk_vpn[k] = IF k \in Logged(b)
                    THEN NextMapVpn(m.cur_mapblk_vpn[k]) ELSE m.cur_mapblk_vpn[k]
             /\ m2.cur_mapblk_vpn[k] \in VPages /\ BlockOf(m2.cur_mapblk_vpn[k]) = MapBlock[b][k]
  <2>1. m2.cur_mapblk_vpn[k] = IF k \in Logged(b)
            THEN NextMapVpn(m.cur_mapblk_vpn[k]) ELSE m.cur_mapblk_vpn[k]
    BY <1>1
  <2> HIDE DEF m2
  <2>2. m.cur_mapblk_vpn[k] \in VPages /\ BlockOf(m.cur_mapblk_vpn[k]) = MapBlock[b][k]
        /\ MapBlock[b][k] \in VBlks
    BY Blocks DEF LogPlaces
  <2>3. NextMapVpn(m.cur_mapblk_vpn[k]) \in VPages
        /\ BlockOf(NextMapVpn(m.cur_mapblk_vpn[k])) = MapBlock[b][k]
    BY <2>2, MapPageNext
  <2> QED
    BY <2>1, <2>2, <2>3
<1>3. NextMiscVpn(m.cur_miscblk_vpn) \in Int
  <2>1. m.cur_miscblk_vpn \in Int
        /\ m.cur_miscblk_vpn + 1 \in VpnOf(MISCBLK_VBN, 0) .. VpnOf(MISCBLK_VBN + 1, 0)
    BY DEF Metas, LogPlaces
  <2>2. NextMiscVpn(m.cur_miscblk_vpn) \in VPages
    BY <2>1, MiscPageNext
  <2> QED
    BY <2>2, VPagesAre
<1>4. [k \in MapLbns |-> IF k \in Logged(b) THEN NextMapVpn(m.cur_mapblk_vpn[k])
                         ELSE m.cur_mapblk_vpn[k]] \in [MapLbns -> Int]
  <2>1. \A k \in MapLbns : m2.cur_mapblk_vpn[k] \in Int
    BY <1>2, VPagesAre
  <2> HIDE DEF m2
  <2> QED
    BY <2>1, <1>1
<1>5. m2 \in Metas(b)
  BY <1>3, <1>4 DEF Metas, FlushedMeta
<1> QED
  BY <1>1, <1>2, <1>5 DEF m2


\* A page of block v that the flush programs is erased when it does: either the log
\* goes on after x, or block v was full and has been erased.
LEMMA FlushedFlash ==
  ASSUME NEW b \in Banks, NEW m \in Metas(b), NEW n, LogPlaces(b, m, n),
         \A x \in VPages : BlockOf(x) # 0 => n[x] # Clobbered
  PROVE  LET m2 == FlushedMeta(b, m)
             n2 == FlushedNand(b, m, n)
         IN /\ DOMAIN n2 = VPages
            /\ \A x \in VPages : BlockOf(x) # 0 => n2[x] # Clobbered
            /\ \A x \in VPages : BlockOf(x) \in UserBlocks[b] => n2[x] = n[x]
            /\ SameBoot(n, n2)
            /\ LogPlaces(b, m2, n2) /\ LogsKept(b, m2, n2)
<1> DEFINE m2   == FlushedMeta(b, m)
           n2   == FlushedNand(b, m, n)
           new  == MetaPages(b, m2)
           to   == DOMAIN new
           F    == FullMetaBlocks(b, m)
           old  == EraseAll(n, F)
           misc == m2.cur_miscblk_vpn
           at(k) == m2.cur_mapblk_vpn[k]
<1>1. /\ m2.cur_miscblk_vpn = NextMiscVpn(m.cur_miscblk_vpn)
      /\ \A k \in MapLbns : at(k) = IF k \in Logged(b)
            THEN NextMapVpn(m.cur_mapblk_vpn[k]) ELSE m.cur_mapblk_vpn[k]
      /\ \A k \in MapLbns : at(k) \in VPages /\ BlockOf(at(k)) = MapBlock[b][k]
  BY FlushedMetaFields
<1>2. /\ \A k \in MapLbns : /\ MapBlock[b][k] \in VBlks /\ MapBlock[b][k] \notin UserBlocks[b]
                            /\ MapBlock[b][k] # MISCBLK_VBN
      /\ \A j, k \in MapLbns : j # k => MapBlock[b][j] # MapBlock[b][k]
      /\ MISCBLK_VBN \notin UserBlocks[b]
  BY Blocks
<1>3. Logged(b) \subseteq MapLbns
  BY DEF Logged
<1>4. to = {misc} \cup {at(k) : k \in Logged(b)}
  BY DEF MetaPages
<1>5. \A x \in to : new[x] = IF x = misc THEN MiscPage
                    ELSE MapPage(Entries(b, CHOOSE k \in Logged(b) : at(k) = x))
  BY <1>4 DEF MetaPages
<1>6. \A x \in VPages : n2[x] = IF x \notin to THEN old[x]
                                ELSE IF old[x] = ErasedPage THEN new[x] ELSE Clobbered
  BY DEF FlushedNand
<1>7. DOMAIN n2 = VPages
  BY DEF FlushedNand
<1>8. \A x \in VPages : old[x] = IF BlockOf(x) \in F THEN ErasedPage ELSE n[x]
  BY DEF EraseAll
<1>9. \A k \in MapLbns : MapBlock[b][k] \in F <=>
                            k \in Logged(b) /\ OffsetOf(m.cur_mapblk_vpn[k] + 1) = 0
  BY <1>2, <1>3 DEF FullMetaBlocks, LogPlaces
<1>10. MISCBLK_VBN \in F <=> BlockOf(m.cur_miscblk_vpn + 1) # MISCBLK_VBN
  BY <1>2, <1>3 DEF FullMetaBlocks, LogPlaces
<1>11. \A v \in F : v = MISCBLK_VBN \/ \E k \in MapLbns : v = MapBlock[b][k]
  BY <1>3 DEF FullMetaBlocks, LogPlaces
<1>12. /\ misc \in VPages /\ BlockOf(misc) = MISCBLK_VBN
       /\ misc + 1 \in VpnOf(MISCBLK_VBN, 0) .. VpnOf(MISCBLK_VBN + 1, 0)
       /\ BlockOf(m.cur_miscblk_vpn + 1) = MISCBLK_VBN => misc = m.cur_miscblk_vpn + 1
       /\ m.cur_miscblk_vpn \in Int
  <2>1. m.cur_miscblk_vpn \in Int
        /\ m.cur_miscblk_vpn + 1 \in VpnOf(MISCBLK_VBN, 0) .. VpnOf(MISCBLK_VBN + 1, 0)
    BY DEF Metas, LogPlaces
  <2> QED
    BY <2>1, <1>1, MiscPageNext
<1> HIDE DEF m2, n2, new, to, F, old, misc, at
<1>13. \A x \in VPages : BlockOf(x) = MISCBLK_VBN => (x \in to <=> x = misc)
  BY <1>1, <1>2, <1>3, <1>4
<1>14. \A k \in MapLbns, x \in VPages : BlockOf(x) = MapBlock[b][k] =>
         (x \in to <=> k \in Logged(b) /\ x = at(k))
  BY <1>1, <1>2, <1>3, <1>4, <1>12
<1>15. \A x \in VPages : BlockOf(x) = MISCBLK_VBN /\ x >= misc => old[x] = ErasedPage
  <2> SUFFICES ASSUME NEW x \in VPages, BlockOf(x) = MISCBLK_VBN, x >= misc
               PROVE  old[x] = ErasedPage
    OBVIOUS
  <2>1. CASE BlockOf(m.cur_miscblk_vpn + 1) # MISCBLK_VBN
    BY <2>1, <1>8, <1>10
  <2>2. CASE BlockOf(m.cur_miscblk_vpn + 1) = MISCBLK_VBN
    <3>1. misc = m.cur_miscblk_vpn + 1 /\ misc \in Nat /\ x \in Nat
      BY <2>2, <1>12, VPagesAre
    <3>2. x > m.cur_miscblk_vpn
      BY <3>1, <1>12
    <3> QED
      BY <3>2, <1>8 DEF LogPlaces
  <2> QED
    BY <2>1, <2>2
<1>16. \A k \in MapLbns, x \in VPages :
         k \in Logged(b) /\ BlockOf(x) = MapBlock[b][k] /\ x >= at(k) => old[x] = ErasedPage
  <2> SUFFICES ASSUME NEW k \in MapLbns, NEW x \in VPages, k \in Logged(b),
                      BlockOf(x) = MapBlock[b][k], x >= at(k)
               PROVE  old[x] = ErasedPage
    OBVIOUS
  <2>1. CASE OffsetOf(m.cur_mapblk_vpn[k] + 1) = 0
    BY <2>1, <1>8, <1>9
  <2>2. CASE OffsetOf(m.cur_mapblk_vpn[k] + 1) # 0
    <3>1. m.cur_mapblk_vpn[k] \in VPages /\ BlockOf(m.cur_mapblk_vpn[k]) = MapBlock[b][k]
      BY DEF LogPlaces
    <3>2. NextMapVpn(m.cur_mapblk_vpn[k]) = m.cur_mapblk_vpn[k] + 1
      BY <2>2, <3>1, <1>2, MapPageNext
    <3>3. m.cur_mapblk_vpn[k] \in Nat /\ x \in Nat
      BY <3>1, VPagesAre
    <3>4. x > m.cur_mapblk_vpn[k]
      BY <3>2, <3>3, <1>1
    <3> QED
      BY <3>4, <1>8 DEF LogPlaces
  <2> QED
    BY <2>1, <2>2
<1>17. \A k \in MapLbns, x \in VPages :
         BlockOf(x) = MapBlock[b][k] /\ k \notin Logged(b) => old[x] = n[x]
  BY <1>8, <1>9
<1>18. \A x \in VPages : x \in to => old[x] = ErasedPage
  <2> SUFFICES ASSUME NEW x \in VPages, x \in to PROVE old[x] = ErasedPage
    OBVIOUS
  <2>1. x \in Nat
    BY VPagesAre
  <2>2. CASE x = misc
    BY <2>1, <2>2, <1>12, <1>15
  <2>3. CASE x # misc
    <3>1. PICK k \in Logged(b) : x = at(k)
      BY <2>3, <1>4
    <3> QED
      BY <3>1, <2>1, <1>1, <1>3, <1>16
  <2> QED
    BY <2>2, <2>3
<1>19. \A x \in VPages : n2[x] = IF x \in to THEN new[x] ELSE old[x]
  BY <1>6, <1>18
<1>20. \A x \in VPages : BlockOf(x) # 0 => n2[x] # Clobbered
  BY <1>5, <1>8, <1>19, Kinds
<1>21. \A x \in VPages : BlockOf(x) \in UserBlocks[b] => n2[x] = n[x]
  <2> SUFFICES ASSUME NEW x \in VPages, BlockOf(x) \in UserBlocks[b] PROVE n2[x] = n[x]
    OBVIOUS
  <2>1. x \notin to
    BY <1>1, <1>2, <1>3, <1>4, <1>12
  <2>2. BlockOf(x) \notin F
    BY <1>2, <1>11
  <2> QED
    BY <2>1, <2>2, <1>8, <1>19
<1>22. \A x \in VPages : BlockOf(x) = MISCBLK_VBN /\ x > misc => n2[x] = ErasedPage
  <2> SUFFICES ASSUME NEW x \in VPages, BlockOf(x) = MISCBLK_VBN, x > misc
               PROVE  n2[x] = ErasedPage
    OBVIOUS
  <2>1. x >= misc /\ x # misc
    BY <1>12, VPagesAre
  <2> QED
    BY <2>1, <1>13, <1>15, <1>19
<1>23. \A k \in MapLbns, x \in VPages : BlockOf(x) = MapBlock[b][k] /\ x > at(k) => n2[x] = ErasedPage
  <2> SUFFICES ASSUME NEW k \in MapLbns, NEW x \in VPages, BlockOf(x) = MapBlock[b][k], x > at(k)
               PROVE  n2[x] = ErasedPage
    OBVIOUS
  <2>1. x >= at(k) /\ x # at(k)
    BY <1>1, VPagesAre
  <2>2. n2[x] = old[x]
    BY <2>1, <1>14, <1>19
  <2>3. CASE k \in Logged(b)
    BY <2>1, <2>2, <2>3, <1>16
  <2>4. CASE k \notin Logged(b)
    <3>1. at(k) = m.cur_mapblk_vpn[k]
      BY <2>4, <1>1
    <3> QED
      BY <3>1, <2>2, <2>4, <1>17 DEF LogPlaces
  <2> QED
    BY <2>3, <2>4
<1>24. \A k \in MapLbns : k \notin Logged(b) => n2[at(k)] = ErasedPage
  <2> SUFFICES ASSUME NEW k \in MapLbns, k \notin Logged(b) PROVE n2[at(k)] = ErasedPage
    OBVIOUS
  <2>1. at(k) = m.cur_mapblk_vpn[k] /\ at(k) \in VPages /\ BlockOf(at(k)) = MapBlock[b][k]
    BY <1>1
  <2>2. n2[at(k)] = n[at(k)]
    BY <2>1, <1>14, <1>17, <1>19
  <2> QED
    BY <2>1, <2>2 DEF LogPlaces
<1>25. LogPlaces(b, m2, n2)
  BY <1>1, <1>12, <1>22, <1>23, <1>24 DEF LogPlaces, misc, at
<1>26. LogsKept(b, m2, n2)
  <2> SUFFICES ASSUME NEW k \in Logged(b) PROVE n2[at(k)] = MapPage(Entries(b, k))
    BY DEF LogsKept, at
  <2>1. k \in MapLbns /\ at(k) \in VPages /\ at(k) \in to /\ at(k) # misc
    BY <1>1, <1>2, <1>3, <1>4, <1>12
  <2>2. \A j \in Logged(b) : at(j) = at(k) <=> j = k
    BY <1>1, <1>2, <1>3
  <2>3. (CHOOSE j \in Logged(b) : at(j) = at(k)) = k
    BY <2>2
  <2> QED
    BY <2>1, <2>3, <1>5, <1>19
<1>27. SameBoot(n, n2)
  <2> SUFFICES ASSUME NEW x \in VPages, BlockOf(x) = 0 PROVE n2[x] = n[x]
    BY DEF SameBoot
  <2>1. BlockOf(x) # MISCBLK_VBN /\ \A k \in MapLbns : BlockOf(x) # MapBlock[b][k]
    BY BootBlock DEF MISCBLK_VBN
  <2>2. x \notin to
    BY <2>1, <1>1, <1>3, <1>4, <1>12
  <2>3. BlockOf(x) \notin F
    BY <2>1, <1>11
  <2> QED
    BY <2>2, <2>3, <1>8, <1>19
<1> QED
  BY <1>7, <1>20, <1>21, <1>25, <1>26, <1>27 DEF m2, n2

\* All of BankOk but the contents of the logs, as format leaves it before its flush.
Readied(b, map, vc, m, n, lat, c) ==
  /\ Position(b, m)
  /\ Programmed(b, m, n, c)
  /\ Listed(b, map, m, n, c)
  /\ Counted(b, map, vc, m)
  /\ Stored(b, map, n, lat)
  /\ LogPlaces(b, m, n)

\* A flush leaves a bank in order, whether or not its logs held anything before.
LEMMA FlushOk ==
  ASSUME NEW b \in Banks, NEW map, NEW vc, NEW m, NEW n, NEW lat, NEW c,
         Readied(b, map, vc, m, n, lat, c)
  PROVE  /\ BankOk(b, map, vc, FlushedMeta(b, m), FlushedNand(b, m, n), lat, c)
         /\ FlushedMeta(b, m).cur_write_vpn = m.cur_write_vpn
         /\ SameBoot(n, FlushedNand(b, m, n))
<1> DEFINE m2 == FlushedMeta(b, m)
           n2 == FlushedNand(b, m, n)
<1>0. /\ Position(b, m) /\ Programmed(b, m, n, c) /\ Listed(b, map, m, n, c)
      /\ Counted(b, map, vc, m) /\ Stored(b, map, n, lat) /\ LogPlaces(b, m, n)
  BY DEF Readied
<1>1. m \in Metas(b)
  BY <1>0 DEF Position
<1>2. /\ m2 \in Metas(b) /\ m2.free_blk_cnt = m.free_blk_cnt /\ m2.gc_vblock = m.gc_vblock
      /\ m2.cur_write_vpn = m.cur_write_vpn
      /\ m2.lpn_list_of_cur_vblock = m.lpn_list_of_cur_vblock
  BY <1>0, <1>1, FlushedMetaFields
<1>3. \A x \in VPages : BlockOf(x) # 0 => n[x] # Clobbered
  BY <1>0 DEF Programmed
<1>4. /\ DOMAIN n2 = VPages /\ \A x \in VPages : BlockOf(x) # 0 => n2[x] # Clobbered
      /\ \A x \in VPages : BlockOf(x) \in UserBlocks[b] => n2[x] = n[x]
      /\ SameBoot(n, n2) /\ LogPlaces(b, m2, n2) /\ LogsKept(b, m2, n2)
  BY <1>0, <1>1, <1>3, FlushedFlash
<1> HIDE DEF m2, n2
<1>5. Cur(m2) = Cur(m) /\ Ahead(b, m2) = Ahead(b, m) /\ Clear(b, m2) = Clear(b, m)
      /\ Used(b, m2) = Used(b, m)
  BY <1>2 DEF Cur, Ahead, Clear, Used
<1>6. Position(b, m2)
  BY <1>0, <1>2, <1>5 DEF Position
<1>7. /\ Cur(m) \in UserBlocks[b] /\ Clear(b, m) \subseteq UserBlocks[b]
      /\ Used(b, m) \subseteq UserBlocks[b] /\ UserBlocks[b] \subseteq VBlks
  BY <1>0, PositionFacts, Blocks
<1>8. \A v \in UserBlocks[b] : n2[VpnOf(v, LAST)] = n[VpnOf(v, LAST)]
  <2>1. LAST \in Offsets
    BY Sizes
  <2>2. \A v \in UserBlocks[b] : VpnOf(v, LAST) \in VPages /\ BlockOf(VpnOf(v, LAST)) = v
    BY <2>1, <1>7, VPagesAre
  <2> QED
    BY <2>2, <1>4
<1>9. Programmed(b, m2, n2, c)
  <2>1. \A v \in Used(b, m) : v # Cur(m) => HasList(n2, v)
    BY <1>0, <1>7, <1>8 DEF Programmed, HasList
  <2> QED
    BY <2>1, <1>0, <1>4, <1>5, <1>7 DEF Programmed
<1>10. \A x \in VPages : BlockOf(x) \in UserBlocks[b] => Entry(m2, n2, x) = Entry(m, n, x)
  BY <1>2, <1>5, <1>8 DEF Entry, ListAt
<1>11. \A x : Place(b, m2, c, x) <=> Place(b, m, c, x)
  BY <1>5 DEF Place
<1>12. \A x : Place(b, m, c, x) => x \in VPages /\ BlockOf(x) \in UserBlocks[b]
  BY <1>7 DEF Place
<1>13. Listed(b, map, m2, n2, c)
  <2>1. ASSUME NEW l \in LPagesOf[b], map[l] # NULL
        PROVE  Place(b, m2, c, map[l]) /\ IsData(n2[map[l]]) /\ Entry(m2, n2, map[l]) = l
    <3>1. Place(b, m, c, map[l]) /\ IsData(n[map[l]]) /\ Entry(m, n, map[l]) = l
      BY <2>1, <1>0 DEF Listed
    <3> QED
      BY <3>1, <1>4, <1>10, <1>11, <1>12
  <2>2. ASSUME NEW x \in VPages, Place(b, m2, c, x)
        PROVE  Entry(m2, n2, x) \in LPagesOf[b] \/ (Entry(m2, n2, x) = 0 /\ Unwritten(b, n2, x))
    <3>1. Entry(m, n, x) \in LPagesOf[b] \/ (Entry(m, n, x) = 0 /\ Unwritten(b, n, x))
      BY <2>2, <1>0, <1>11 DEF Listed
    <3> QED
      BY <3>1, <2>2, <1>4, <1>10, <1>11, <1>12 DEF Unwritten
  <2> QED
    BY <2>1, <2>2 DEF Listed
<1>14. Counted(b, map, vc, m2)
  BY <1>0, <1>2 DEF Counted
<1>15. Stored(b, map, n2, lat)
  <2>1. \A l \in LPagesOf[b] : map[l] # NULL => n2[map[l]] = n[map[l]]
    BY <1>0, <1>4, <1>12 DEF Listed
  <2> QED
    BY <2>1, <1>0 DEF Stored
<1>16. BankOk(b, map, vc, m2, n2, lat, c)
  BY <1>4, <1>6, <1>9, <1>13, <1>14, <1>15 DEF BankOk
<1> QED
  BY <1>2, <1>4, <1>16 DEF m2, n2


-----------------------------------------------------------------------------
(* format *)

AllErased == [x \in VPages |-> ErasedPage]

\* The metadata that format makes.
LEMMA InitMetaFields ==
  ASSUME NEW b \in Banks
  PROVE  LET m == init_metadata_sram(b)
         IN /\ m \in Metas(b) /\ Cur(m) = FirstBlock[b] /\ OffsetOf(m.cur_write_vpn) = 0
            /\ m.gc_vblock = FirstGcBlock[b] /\ m.lpn_list_of_cur_vblock = [p \in Offsets |-> 0]
            /\ Used(b, m) = {FirstBlock[b]} /\ Clear(b, m) = UserBlocks[b] \ {FirstBlock[b]}
            /\ m.cur_miscblk_vpn + 1 = VpnOf(MISCBLK_VBN, 0)
            /\ \A k \in MapLbns : m.cur_mapblk_vpn[k] = VpnOf(MapBlock[b][k], 0)
            /\ Position(b, m)
<1> DEFINE m  == init_metadata_sram(b)
           FB == FirstBlock[b]
           gc == FirstGcBlock[b]
           U  == UserBlocks[b]
           A  == {v \in U : v > FB}
<1>1. /\ U \in SUBSET VBlks /\ U \in SUBSET Int /\ IsFiniteSet(U)
      /\ Cardinality(U) = Cardinality(Good(b)) - MAPBLKS_PER_BANK
      /\ gc \in U /\ FB \in U /\ gc < FB /\ \A v \in U : v = gc \/ v >= FB
      /\ \A k \in MapLbns : MapBlock[b][k] \in VBlks
  BY Blocks
<1>2. /\ Cardinality(Good(b)) >= MAPBLKS_PER_BANK + 3 /\ Cardinality(Good(b)) \in Nat
      /\ Cardinality(Good(b)) = VBLKS_PER_BANK - 2 - Cardinality(bad[b])
      /\ Cardinality(bad[b]) \in Nat
  <2>1. IsFiniteSet(bad[b])
    BY GoodBlocks
  <2>2. Cardinality(bad[b]) \in Nat
    BY <2>1, FS_CardinalityType
  <2> QED
    BY <2>2, GoodBlocks
<1>3. MAPBLKS_PER_BANK \in Nat /\ VBLKS_PER_BANK \in Nat /\ 0 \in Offsets /\ 0 \in LPages
  BY Sizes DEF Offsets, LPages
<1>4. /\ VpnOf(FB, 0) \in VPages /\ BlockOf(VpnOf(FB, 0)) = FB /\ OffsetOf(VpnOf(FB, 0)) = 0
  BY <1>1, <1>3, VPagesAre
<1>5. \A k \in MapLbns : VpnOf(MapBlock[b][k], 0) \in Int
  BY <1>1, <1>3, VPagesAre
<1>6. VpnOf(MISCBLK_VBN, 0) \in Int
  BY <1>3, Vpn DEF MISCBLK_VBN
<1>7. /\ m.free_blk_cnt = VBLKS_PER_BANK - META_BLKS_PER_BANK - Cardinality(bad[b])
      /\ m.gc_vblock = gc /\ m.cur_write_vpn = VpnOf(FB, 0)
      /\ m.lpn_list_of_cur_vblock = [p \in Offsets |-> 0]
      /\ m.cur_miscblk_vpn = VpnOf(MISCBLK_VBN, 0) - 1
      /\ m.cur_mapblk_vpn = [k \in MapLbns |-> VpnOf(MapBlock[b][k], 0)]
  BY DEF init_metadata_sram
<1>8. m.free_blk_cnt = Cardinality(U) /\ m.free_blk_cnt \in Nat /\ m.free_blk_cnt >= 3
  BY <1>1, <1>2, <1>3, <1>7 DEF META_BLKS_PER_BANK
<1>9. m \in Metas(b)
  <2>1. [p \in Offsets |-> 0] \in [Offsets -> LPages]
    BY <1>3
  <2>2. [k \in MapLbns |-> VpnOf(MapBlock[b][k], 0)] \in [MapLbns -> Int]
    BY <1>5
  <2> QED
    BY <2>1, <2>2, <1>1, <1>4, <1>6, <1>8 DEF Metas, init_metadata_sram
<1> HIDE DEF m
<1>10. Cur(m) = FB /\ Ahead(b, m) = A
  BY <1>4, <1>7, <1>8 DEF Cur, Ahead
<1>11. U = (A \cup {gc}) \cup {FB}
  BY <1>1
<1>12. gc \notin A /\ FB \notin A \cup {gc}
  BY <1>1
<1>13. IsFiniteSet(A)
  BY <1>1, FS_Subset
<1>14. IsFiniteSet(A \cup {gc}) /\ Cardinality(A \cup {gc}) = Cardinality(A) + 1
  BY <1>12, <1>13, FS_AddElement
<1>15. Cardinality((A \cup {gc}) \cup {FB}) = Cardinality(A \cup {gc}) + 1
  BY <1>12, <1>14, FS_AddElement
<1>16. Cardinality(A) \in Nat
  BY <1>13, FS_CardinalityType
<1>17. Cardinality(U) = Cardinality(A) + 2
  <2> HIDE DEF A, U
  <2> QED
    BY <1>11, <1>14, <1>15, <1>16
<1>18. Clear(b, m) = U \ {FB} /\ Used(b, m) = {FB}
  <2>1. Clear(b, m) = A \cup {gc}
    BY <1>7, <1>10 DEF Clear
  <2>2. Clear(b, m) = U \ {FB}
    BY <2>1, <1>11, <1>12
  <2> QED
    BY <2>2, <1>1 DEF Used
<1>19. OffsetOf(m.cur_write_vpn) < LAST
  BY <1>4, <1>7, Sizes
<1>20. Position(b, m)
  <2> HIDE DEF A
  <2> QED
    BY <1>7, <1>8, <1>9, <1>10, <1>16, <1>17, <1>18, <1>19 DEF Position
<1>21. m.cur_miscblk_vpn + 1 = VpnOf(MISCBLK_VBN, 0)
  BY <1>6, <1>7
<1> QED
  BY <1>4, <1>7, <1>9, <1>10, <1>18, <1>20, <1>21 DEF m

\* A formatted bank is in order but for the logs, which its flush writes.
LEMMA FormatReady ==
  ASSUME NEW b \in Banks
  PROVE  Readied(b, FormattedMap, FormattedCounts[b], init_metadata_sram(b), AllErased,
                 NothingWritten, 1)
<1> DEFINE m == init_metadata_sram(b)
           FB == FirstBlock[b]
<1>1. /\ m \in Metas(b) /\ Cur(m) = FB /\ OffsetOf(m.cur_write_vpn) = 0
      /\ m.gc_vblock = FirstGcBlock[b] /\ m.lpn_list_of_cur_vblock = [p \in Offsets |-> 0]
      /\ Used(b, m) = {FB} /\ Clear(b, m) = UserBlocks[b] \ {FB}
      /\ m.cur_miscblk_vpn + 1 = VpnOf(MISCBLK_VBN, 0)
      /\ \A k \in MapLbns : m.cur_mapblk_vpn[k] = VpnOf(MapBlock[b][k], 0)
      /\ Position(b, m)
  BY InitMetaFields
<1> HIDE DEF m
<1>2. DOMAIN AllErased = VPages /\ \A x \in VPages : AllErased[x] = ErasedPage
  BY DEF AllErased
<1>3. Programmed(b, m, AllErased, 1)
  BY <1>1, <1>2, Kinds DEF Programmed
<1>4. LPagesOf[b] \in SUBSET LPages
  BY LogicalPages
<1>5. \A l \in LPages : FormattedMap[l] = NULL
  BY DEF FormattedMap
<1>6. Listed(b, FormattedMap, m, AllErased, 1)
  <2>1. ASSUME NEW x \in VPages, Place(b, m, 1, x)
        PROVE  Entry(m, AllErased, x) = 0 /\ Unwritten(b, AllErased, x)
    <3>1. BlockOf(x) = FB /\ OffsetOf(x) < 1
      BY <2>1, <1>1 DEF Place
    <3>2. OffsetOf(x) \in Offsets /\ x = VpnOf(BlockOf(x), OffsetOf(x))
      BY VPagesAre
    <3>3. OffsetOf(x) = 0
      BY <3>1, <3>2 DEF Offsets
    <3>4. x = VpnOf(FB, 0)
      BY <3>1, <3>2, <3>3
    <3>5. Entry(m, AllErased, x) = 0
      BY <3>1, <3>2, <1>1 DEF Entry, ListAt
    <3> QED
      BY <3>4, <3>5, <1>2 DEF Unwritten
  <2> QED
    BY <2>1, <1>4, <1>5 DEF Listed
<1>7. Counted(b, FormattedMap, FormattedCounts[b], m)
  <2>1. \A v : ValidIn(b, FormattedMap, v) = {}
    BY <1>4, <1>5 DEF ValidIn
  <2>2. Cardinality({}) = 0
    BY FS_EmptySet
  <2> QED
    BY <2>1, <2>2, <1>1 DEF Counted, FormattedCounts, FormattedVcount
<1>8. Stored(b, FormattedMap, AllErased, NothingWritten)
  BY <1>4, <1>5 DEF Stored, NothingWritten
<1>9. LogPlaces(b, m, AllErased)
  <2>1. 0 \in Offsets /\ MISCBLK_VBN \in Int /\ MISCBLK_VBN + 1 \in Int
    BY Sizes DEF Offsets, MISCBLK_VBN
  <2>2. VpnOf(MISCBLK_VBN, 0) < VpnOf(MISCBLK_VBN + 1, 0)
    BY <2>1, VpnOrder DEF MISCBLK_VBN
  <2>3. VpnOf(MISCBLK_VBN, 0) \in Int /\ VpnOf(MISCBLK_VBN + 1, 0) \in Int
    BY <2>1, Vpn
  <2>4. m.cur_miscblk_vpn + 1 \in VpnOf(MISCBLK_VBN, 0) .. VpnOf(MISCBLK_VBN + 1, 0)
    BY <2>2, <2>3, <1>1
  <2>5. \A k \in MapLbns : m.cur_mapblk_vpn[k] \in VPages
                           /\ BlockOf(m.cur_mapblk_vpn[k]) = MapBlock[b][k]
    <3>1. \A k \in MapLbns : MapBlock[b][k] \in VBlks
      BY Blocks
    <3> QED
      BY <3>1, <2>1, <1>1, VPagesAre
  <2> QED
    BY <2>4, <2>5, <1>2 DEF LogPlaces
<1> QED
  BY <1>1, <1>3, <1>6, <1>7, <1>8, <1>9 DEF Readied, m

\* The bank as format leaves it but for the mark and for the blocks it does not erase.
LEMMA FreshOk ==
  ASSUME NEW b \in Banks
  PROVE  BankOk(b, FormattedMap, FormattedCounts[b], FormattedMeta[b], FreshNand[b],
                NothingWritten, OffsetOf(FormattedMeta[b].cur_write_vpn) + 1)
<1>1. FormattedMeta[b] = FlushedMeta(b, init_metadata_sram(b))
  BY DEF FormattedMeta
<1>2. FreshNand[b] = FlushedNand(b, init_metadata_sram(b), AllErased)
  BY DEF FreshNand, AllErased
<1>3. /\ BankOk(b, FormattedMap, FormattedCounts[b], FormattedMeta[b], FreshNand[b],
                NothingWritten, 1)
      /\ FormattedMeta[b].cur_write_vpn = init_metadata_sram(b).cur_write_vpn
  BY <1>1, <1>2, FormatReady, FlushOk
<1>4. OffsetOf(init_metadata_sram(b).cur_write_vpn) = 0
  BY InitMetaFields
<1> QED
  BY <1>3, <1>4

\* What format and write_format_mark do to the flash of a bank, whatever it holds.
LEMMA FormattedFlash ==
  ASSUME NEW n, NEW b \in Banks, Whole(b, n[b])
  PROVE  LET n2 == FormattedNand(n)[b]
         IN /\ DOMAIN n2 = VPages /\ Whole(b, n2)
            /\ \A x \in VPages : BlockOf(x) \in FormattedBlocks[b] => n2[x] = FreshNand[b][x]
<1> DEFINE f  == format(b, n[b])
           n2 == FormattedNand(n)[b]
<1>1. DOMAIN f = VPages /\ \A x \in VPages :
        f[x] = IF BlockOf(x) \in FormattedBlocks[b] THEN FreshNand[b][x] ELSE n[b][x]
  BY DEF format
<1>2. n2 = IF b = 0 THEN Program(f, format_mark_vpn, MarkPage) ELSE f
  BY DEF FormattedNand, write_format_mark
<1>3. format_mark_vpn \in VPages /\ BlockOf(format_mark_vpn) = 0
  <2>1. 0 \in VBlks /\ format_mark_page_offset \in Offsets
    BY Sizes, Geometry DEF VBlks
  <2> QED
    BY <2>1, VPagesAre DEF format_mark_vpn
<1> HIDE DEF f, n2
<1>4. DOMAIN n2 = VPages /\ \A x \in VPages : n2[x] = f[x] \/ (b = 0 /\ x = format_mark_vpn)
  BY <1>1, <1>2, <1>3 DEF Program
<1>5. \A x \in VPages : BlockOf(x) \in FormattedBlocks[b] => n2[x] = FreshNand[b][x]
  BY <1>1, <1>3, <1>4, BootBlock
<1>6. \A x \in VPages : BlockOf(x) # 0 => FreshNand[b][x] # Clobbered
  BY FreshOk DEF BankOk, Programmed
<1>7. Whole(b, n2)
  <2> SUFFICES ASSUME NEW x \in VPages, n2[x] = Clobbered, ~(b = 0 /\ x = format_mark_vpn)
               PROVE  FALSE
    BY <1>3 DEF Whole
  <2>1. f[x] = Clobbered
    BY <1>4
  <2> QED
    BY <2>1, <1>1, <1>6, BootBlock DEF Whole
<1> QED
  BY <1>4, <1>5, <1>7 DEF n2

\* Of the flash a bank needs only the blocks that format erases.
LEMMA OtherBlocks ==
  ASSUME NEW b \in Banks, NEW map, NEW vc, NEW m, NEW n, NEW n2, NEW lat, NEW c,
         BankOk(b, map, vc, m, n, lat, c), DOMAIN n2 = VPages, Whole(b, n2),
         \A x \in VPages : BlockOf(x) \in FormattedBlocks[b] => n2[x] = n[x]
  PROVE  BankOk(b, map, vc, m, n2, lat, c)
<1>0. /\ Position(b, m) /\ Programmed(b, m, n, c) /\ Listed(b, map, m, n, c)
      /\ Counted(b, map, vc, m) /\ Stored(b, map, n, lat) /\ LogPlaces(b, m, n)
      /\ LogsKept(b, m, n)
  BY DEF BankOk
<1>1. /\ Cur(m) \in UserBlocks[b] /\ Clear(b, m) \subseteq UserBlocks[b]
      /\ Used(b, m) \subseteq UserBlocks[b] /\ UserBlocks[b] \subseteq VBlks
  BY <1>0, PositionFacts, Blocks
<1>2. \A x \in VPages : BlockOf(x) \in UserBlocks[b] => n2[x] = n[x]
  BY BootBlock
<1>3. \A v \in UserBlocks[b] : n2[VpnOf(v, LAST)] = n[VpnOf(v, LAST)]
  <2>1. LAST \in Offsets
    BY Sizes
  <2>2. \A v \in UserBlocks[b] : VpnOf(v, LAST) \in VPages /\ BlockOf(VpnOf(v, LAST)) = v
    BY <2>1, <1>1, VPagesAre
  <2> QED
    BY <2>2, <1>2
<1>4. Programmed(b, m, n2, c)
  <2>1. \A x \in VPages : BlockOf(x) # 0 => n2[x] # Clobbered
    BY DEF Whole
  <2>2. \A v \in Used(b, m) : v # Cur(m) => HasList(n2, v)
    BY <1>0, <1>1, <1>3 DEF Programmed, HasList
  <2> QED
    BY <2>1, <2>2, <1>0, <1>1, <1>2 DEF Programmed
<1>5. \A x \in VPages : BlockOf(x) \in UserBlocks[b] => Entry(m, n2, x) = Entry(m, n, x)
  BY <1>3 DEF Entry, ListAt
<1>6. \A x : Place(b, m, c, x) => x \in VPages /\ BlockOf(x) \in UserBlocks[b]
  BY <1>1 DEF Place
<1>7. Listed(b, map, m, n2, c)
  <2>1. ASSUME NEW l \in LPagesOf[b], map[l] # NULL
        PROVE  Place(b, m, c, map[l]) /\ IsData(n2[map[l]]) /\ Entry(m, n2, map[l]) = l
    <3>1. Place(b, m, c, map[l]) /\ IsData(n[map[l]]) /\ Entry(m, n, map[l]) = l
      BY <2>1, <1>0 DEF Listed
    <3> QED
      BY <3>1, <1>2, <1>5, <1>6
  <2>2. ASSUME NEW x \in VPages, Place(b, m, c, x)
        PROVE  Entry(m, n2, x) \in LPagesOf[b] \/ (Entry(m, n2, x) = 0 /\ Unwritten(b, n2, x))
    <3>1. Entry(m, n, x) \in LPagesOf[b] \/ (Entry(m, n, x) = 0 /\ Unwritten(b, n, x))
      BY <2>2, <1>0 DEF Listed
    <3> QED
      BY <3>1, <2>2, <1>2, <1>5, <1>6 DEF Unwritten
  <2> QED
    BY <2>1, <2>2 DEF Listed
<1>8. Stored(b, map, n2, lat)
  <2>1. \A l \in LPagesOf[b] : map[l] # NULL => n2[map[l]] = n[map[l]]
    BY <1>0, <1>2, <1>6 DEF Listed
  <2> QED
    BY <2>1, <1>0 DEF Stored
<1>9. /\ \A x \in VPages : BlockOf(x) = MISCBLK_VBN => n2[x] = n[x]
      /\ \A k \in MapLbns, x \in VPages : BlockOf(x) = MapBlock[b][k] => n2[x] = n[x]
  BY BootBlock
<1>10. LogPlaces(b, m, n2)
  BY <1>0, <1>9 DEF LogPlaces
<1>11. LogsKept(b, m, n2)
  <2>1. Logged(b) \subseteq MapLbns
    BY DEF Logged
  <2> QED
    BY <2>1, <1>0, <1>9 DEF LogsKept, LogPlaces
<1> QED
  BY <1>0, <1>4, <1>7, <1>8, <1>10, <1>11 DEF BankOk

\* What format and its flush leave, on whatever flash.
LEMMA FormatOk ==
  ASSUME NEW n, NEW b \in Banks, Whole(b, n[b])
  PROVE  /\ BankOk(b, FormattedMap, FormattedCounts[b], FormattedMeta[b], FormattedNand(n)[b],
                   NothingWritten, OffsetOf(FormattedMeta[b].cur_write_vpn) + 1)
         /\ Whole(b, FormattedNand(n)[b])
<1> DEFINE n2 == FormattedNand(n)[b]
<1>1. /\ DOMAIN n2 = VPages /\ Whole(b, n2)
      /\ \A x \in VPages : BlockOf(x) \in FormattedBlocks[b] => n2[x] = FreshNand[b][x]
  BY FormattedFlash
<1> HIDE DEF n2
<1> QED
  BY <1>1, FreshOk, OtherBlocks DEF n2

\* Types of the formatted tables.
LEMMA FormatTypes ==
  /\ IsMap(FormattedMap) /\ IsLatest(NothingWritten)
  /\ FormattedCounts \in [Banks -> [VBlks -> Nat]]
<1>1. 0 \in VPages
  <2>1. 0 \in VBlks /\ 0 \in Offsets
    BY Sizes DEF VBlks, Offsets
  <2>2. VpnOf(0, 0) \in VPages
    BY <2>1, VPagesAre
  <2>3. VpnOf(0, 0) = 0
    BY Sizes DEF VpnOf
  <2> QED
    BY <2>2, <2>3
<1>2. FormattedCounts \in [Banks -> [VBlks -> Nat]]
  BY Sizes DEF FormattedCounts, FormattedVcount
<1> QED
  BY <1>1, <1>2 DEF IsMap, IsLatest, FormattedMap, NothingWritten, NULL, Data


-----------------------------------------------------------------------------
(* The ASSERTs *)

\* A block whose valid pages are among its first c has at most c of them.
LEMMA BlockRoom ==
  ASSUME NEW b \in Banks, NEW map, NEW m, NEW n, NEW c, Listed(b, map, m, n, c),
         NEW v, NEW k \in Offsets, \A l \in ValidIn(b, map, v) : OffsetOf(map[l]) < k
  PROVE  Cardinality(ValidIn(b, map, v)) <= k
<1> DEFINE V == ValidIn(b, map, v)
           f == [l \in V |-> OffsetOf(map[l])]
<1>1. \A l \in V : /\ l \in LPagesOf[b] /\ map[l] \in VPages /\ BlockOf(map[l]) = v
                   /\ OffsetOf(map[l]) < k /\ Entry(m, n, map[l]) = l
  BY DEF ValidIn, Listed, Place
<1>2. k \in Nat /\ \A l \in V : OffsetOf(map[l]) \in 0 .. k - 1
  <2>1. k \in Nat
    BY DEF Offsets
  <2>2. \A l \in V : OffsetOf(map[l]) \in Offsets
    BY <1>1, VPagesAre
  <2> HIDE DEF V
  <2> QED
    BY <2>1, <2>2, <1>1 DEF Offsets
<1>3. \A i, j \in V : OffsetOf(map[i]) = OffsetOf(map[j]) => i = j
  <2> SUFFICES ASSUME NEW i \in V, NEW j \in V, OffsetOf(map[i]) = OffsetOf(map[j]) PROVE i = j
    OBVIOUS
  <2>1. map[i] = map[j]
    BY <1>1, VpnDiffer
  <2> QED
    BY <2>1, <1>1
<1> HIDE DEF V
<1>4. f \in Injection(V, 0 .. k - 1)
  BY <1>2, <1>3 DEF Injection, IsInjective
<1>5. IsFiniteSet(0 .. k - 1) /\ Cardinality(0 .. k - 1) = k
  <2>1. 0 \in Int /\ k - 1 \in Int
    BY <1>2
  <2>2. IsFiniteSet(0 .. k - 1) /\ Cardinality(0 .. k - 1) = IF 0 > k - 1 THEN 0 ELSE k - 1 - 0 + 1
    BY <2>1, FS_Interval
  <2> QED
    BY <2>2, <1>2
<1> HIDE DEF f
<1>6. Cardinality(V) <= Cardinality(0 .. k - 1)
  BY <1>4, <1>5, FS_Injection
<1> QED
  BY <1>5, <1>6 DEF V

\* The ASSERTs of write_page, set_vcount and set_vpn.
LEMMA WriteAssertsHold ==
  ASSUME NEW b \in Banks, NEW map, IsMap(map), NEW vc, IsCounts(vc), NEW m, NEW n, NEW lat,
         NEW lpn \in LPagesOf[b],
         BankOk(b, map, vc, m, n, lat, OffsetOf(m.cur_write_vpn))
  PROVE  /\ map[lpn] # m.cur_write_vpn
         /\ map[lpn] # NULL => /\ BlockOf(map[lpn]) >= META_BLKS_PER_BANK
                               /\ vc[BlockOf(map[lpn])] > 0
         /\ Invalidate(vc, map[lpn])[BlockOf(m.cur_write_vpn)] < LAST
         /\ BlockOf(m.cur_write_vpn) >= META_BLKS_PER_BANK
<1> DEFINE c == OffsetOf(m.cur_write_vpn)
           old == map[lpn]
<1>0. /\ Position(b, m) /\ Programmed(b, m, n, c) /\ Listed(b, map, m, n, c)
      /\ Counted(b, map, vc, m)
  BY DEF BankOk
<1>1. /\ Cur(m) \in UserBlocks[b] /\ Cur(m) \in Used(b, m) /\ Cur(m) \in VBlks
      /\ Used(b, m) \subseteq UserBlocks[b] /\ m.gc_vblock \notin Used(b, m)
      /\ c \in Offsets /\ c < LAST
  <2>1. Position(b, m)
    BY <1>0
  <2> QED
    BY <2>1, PositionFacts DEF Used
<1>2. old # m.cur_write_vpn
  BY <1>0, NewPageFree
<1>3. BlockOf(m.cur_write_vpn) >= META_BLKS_PER_BANK
  BY <1>1, Blocks DEF Cur
<1>4. UserBlocks[b] \subseteq VBlks
  BY Blocks
<1>5. ASSUME old # NULL
      PROVE  BlockOf(old) >= META_BLKS_PER_BANK /\ vc[BlockOf(old)] > 0
  <2>1. BlockOf(old) \in Used(b, m)
    BY <1>0, <1>5 DEF Listed, Place
  <2>2. BlockOf(old) \in UserBlocks[b] \ {m.gc_vblock} /\ BlockOf(old) \in VBlks
    BY <2>1, <1>1, <1>4
  <2>3. vc[BlockOf(old)] = Cardinality(ValidIn(b, map, BlockOf(old)))
    BY <2>2, <1>0 DEF Counted
  <2>4. lpn \in ValidIn(b, map, BlockOf(old))
    BY <1>5 DEF ValidIn
  <2>5. /\ IsFiniteSet(ValidIn(b, map, BlockOf(old)))
        /\ Cardinality(ValidIn(b, map, BlockOf(old))) \in Nat
    BY ValidSets
  <2>6. Cardinality(ValidIn(b, map, BlockOf(old))) # 0
    BY <2>4, <2>5, FS_EmptySet
  <2> QED
    BY <2>2, <2>3, <2>5, <2>6, Blocks
<1>6. vc[Cur(m)] <= c
  <2>1. vc[Cur(m)] = Cardinality(ValidIn(b, map, Cur(m)))
    BY <1>0, <1>1 DEF Counted
  <2>2. \A l \in ValidIn(b, map, Cur(m)) : OffsetOf(map[l]) < c
    BY <1>0 DEF ValidIn, Listed, Place
  <2>3. Cardinality(ValidIn(b, map, Cur(m))) <= c
    BY <2>2, <1>0, <1>1, BlockRoom
  <2> QED
    BY <2>1, <2>3
<1>7. Invalidate(vc, old)[Cur(m)] <= vc[Cur(m)] /\ Invalidate(vc, old)[Cur(m)] \in Int
  BY <1>1 DEF Invalidate, IsCounts
<1>8. c \in Nat /\ LAST \in Nat /\ vc[Cur(m)] \in Nat
  BY <1>1, Sizes DEF Offsets, IsCounts
<1>9. Invalidate(vc, old)[Cur(m)] < LAST
  <2> HIDE DEF c, old
  <2> QED
    BY <1>1, <1>6, <1>7, <1>8
<1> QED
  BY <1>2, <1>3, <1>5, <1>9 DEF Cur

\* With all user blocks but the free one in use, one of them has room to collect.
LEMMA RoomToCollect ==
  ASSUME NEW b \in Banks, NEW map, NEW vc, NEW m, Position(b, m), m.free_blk_cnt = 2,
         Counted(b, map, vc, m)
  PROVE  \E v \in Used(b, m) : vc[v] < LAST - 1
<1> DEFINE U == Used(b, m)
           D == LPagesOf[b]
           K == PAGES_PER_BLK - 2
<1>1. /\ U = UserBlocks[b] \ {m.gc_vblock} /\ m.gc_vblock \in UserBlocks[b]
      /\ UserBlocks[b] \subseteq VBlks /\ IsFiniteSet(UserBlocks[b])
  <2>1. m.gc_vblock \in UserBlocks[b]
    BY PositionFacts
  <2> QED
    BY <2>1, Blocks DEF Used, Clear, Ahead
<1>2. IsFiniteSet(U) /\ Cardinality(U) = Cardinality(UserBlocks[b]) - 1
  BY <1>1, FS_RemoveElement
<1>3. K \in Nat /\ K = LAST - 1
  BY Sizes
<1>4. IsFiniteSet(D) /\ Cardinality(D) < (Cardinality(UserBlocks[b]) - 1) * (PAGES_PER_BLK - 2)
  BY LogicalPages
<1>5. \A v \in U : vc[v] = Cardinality(ValidIn(b, map, v))
  BY <1>1 DEF Counted
<1> DEFINE F == [v \in U |-> ValidIn(b, map, v)]
<1>6. F \in [U -> SUBSET D]
  BY ValidSets
<1>7. \A v, w \in U : v # w => F[v] \cap F[w] = {}
  BY DEF ValidIn
<1>8. \A v \in U : F[v] = ValidIn(b, map, v) /\ Cardinality(ValidIn(b, map, v)) \in Nat
  BY ValidSets
<1> SUFFICES ASSUME \A v \in U : ~(vc[v] < LAST - 1)
             PROVE  FALSE
  OBVIOUS
<1> HIDE DEF F, U, D
<1>9. \A v \in U : Cardinality(F[v]) >= K
  <2> SUFFICES ASSUME NEW v \in U PROVE Cardinality(F[v]) >= K
    OBVIOUS
  <2>1. vc[v] = Cardinality(F[v]) /\ Cardinality(F[v]) \in Nat /\ ~(vc[v] < LAST - 1)
    BY <1>5, <1>8
  <2> QED
    BY <2>1, <1>3
<1>10. Cardinality(D) >= Cardinality(U) * K
  BY <1>2, <1>3, <1>4, <1>6, <1>7, <1>9, Packed
<1>11. Cardinality(D) \in Nat /\ Cardinality(U) \in Nat
  BY <1>2, <1>4, FS_CardinalityType
<1>12. Cardinality(U) * K = (Cardinality(UserBlocks[b]) - 1) * (PAGES_PER_BLK - 2)
  BY <1>2
<1>13. Cardinality(U) * K \in Nat
  <2> HIDE DEF K
  <2> QED
    BY <1>3, <1>11
<1> HIDE DEF K
<1> QED
  BY <1>4, <1>10, <1>11, <1>12, <1>13

\* get_vt_vblock never takes the free block or one that is not to be written.
LEMMA LeastIsVictim ==
  ASSUME NEW b \in Banks, NEW map, NEW vc, IsCounts(vc), NEW m, Position(b, m),
         m.free_blk_cnt = 2, Counted(b, map, vc, m),
         NEW vt \in VBlks, vc[vt] = Min({vc[v] : v \in VBlks})
  PROVE  vt \in Used(b, m) /\ vc[vt] < LAST - 1
<1>1. PICK v \in Used(b, m) : vc[v] < LAST - 1
  BY RoomToCollect
<1>2. v \in VBlks /\ Used(b, m) = UserBlocks[b] \ {m.gc_vblock}
  <2>1. Used(b, m) \subseteq UserBlocks[b] /\ UserBlocks[b] \subseteq VBlks
    BY PositionFacts, Blocks
  <2> QED
    BY <2>1 DEF Used, Clear, Ahead
<1> DEFINE S == {vc[w] : w \in VBlks}
<1>3. S \in SUBSET Nat /\ vc[v] \in S /\ S # {} /\ \A w \in VBlks : vc[w] \in Nat
  BY <1>2 DEF IsCounts
<1> HIDE DEF S
<1>4. Min(S) \in S /\ Min(S) <= vc[v]
  BY <1>3, MinProperty
<1>5. vc[vt] <= vc[v] /\ vc[vt] \in Nat /\ vc[v] \in Nat
  BY <1>2, <1>3, <1>4 DEF S
<1>6. vc[vt] < LAST - 1 /\ LAST - 1 < VC_MAX
  BY <1>1, <1>5, Sizes
<1>7. vc[vt] # VC_MAX
  BY <1>5, <1>6, Sizes
<1>8. vt \in UserBlocks[b] \ {m.gc_vblock}
  BY <1>7 DEF Counted
<1> QED
  BY <1>2, <1>6, <1>8

\* The collection finds the pages that are counted, unless the entry of the page that
\* is never written stands for another bank's logical page.
LEMMA FoundUnlessAliased ==
  ASSUME NEW b \in Banks, NEW map, NEW vc, NEW m, NEW n, NEW vt, Victim(b, map, vc, m, n, vt),
         Cardinality(Valid(map, n, vt)) # vc[vt]
  PROVE  /\ b # 0 /\ map[0] = VpnOf(FirstBlock[b], 0)
         /\ n[VpnOf(FirstBlock[b], 0)] = ErasedPage /\ VpnOf(FirstBlock[b], 0) \in VPages
         /\ OffsetOf(VpnOf(FirstBlock[b], 0)) = 0
<1> DEFINE S == Valid(map, n, vt)
           V == ValidIn(b, map, vt)
           L == Lists(n, vt)
           f == [p \in S |-> L[p]]
<1>0. Closed(b, map, m, n) /\ vt \in Used(b, m)
  BY DEF Victim
<1>1. /\ S \in SUBSET (0 .. LAST - 1) /\ S \in SUBSET Offsets /\ IsFiniteSet(S) /\ vt \in VBlks
      /\ vc[vt] = Cardinality(V) /\ vt \in UserBlocks[b]
  BY VictimFacts
<1>2. \A p \in S : map[L[p]] = VpnOf(vt, p)
  BY DEF Valid
<1>3. \A l \in V : OffsetOf(map[l]) \in S /\ L[OffsetOf(map[l])] = l
  BY ValidFound
<1>4. \A p \in S : /\ VpnOf(vt, p) \in VPages /\ BlockOf(VpnOf(vt, p)) = vt
                   /\ OffsetOf(VpnOf(vt, p)) = p /\ p < LAST
  <2>1. \A p \in S : VpnOf(vt, p) \in VPages /\ BlockOf(VpnOf(vt, p)) = vt
                     /\ OffsetOf(VpnOf(vt, p)) = p
    BY <1>1, VPagesAre
  <2>2. \A p \in S : p < LAST
    <3>1. LAST \in Nat
      BY Sizes
    <3> HIDE DEF S
    <3> QED
      BY <3>1, <1>1
  <2> QED
    BY <2>1, <2>2
<1>5. \A p \in S : VpnOf(vt, p) # NULL
  <2>1. 0 \in Int /\ 0 \in Offsets /\ VpnOf(0, 0) = 0
    BY Sizes DEF Offsets, VpnOf
  <2>2. BlockOf(VpnOf(0, 0)) = 0
    BY <2>1, Vpn
  <2>3. vt # 0
    <3>1. vt >= META_BLKS_PER_BANK /\ vt \in Int
      BY <1>1, Blocks
    <3>2. META_BLKS_PER_BANK > 0 /\ META_BLKS_PER_BANK \in Int
      BY Sizes DEF META_BLKS_PER_BANK
    <3> QED
      BY <3>1, <3>2
  <2> QED
    BY <2>1, <2>2, <2>3, <1>4 DEF NULL
<1> HIDE DEF S, V, L
<1>6. \E p \in S : L[p] \notin LPagesOf[b]
  <2> SUFFICES ASSUME \A p \in S : L[p] \in LPagesOf[b] PROVE FALSE
    OBVIOUS
  <2>1. \A p \in S : L[p] \in V
    BY <1>2, <1>4, <1>5 DEF V, ValidIn
  <2>2. f \in [S -> V]
    BY <2>1
  <2>3. \A p \in S : OffsetOf(map[L[p]]) = p
    BY <1>2, <1>4
  <2>4. \A p, q \in S : f[p] = f[q] => p = q
    BY <2>3
  <2>5. \A l \in V : \E p \in S : f[p] = l
    BY <1>3
  <2> HIDE DEF f
  <2>6. Cardinality(V) = Cardinality(S)
    BY <2>2, <2>4, <2>5, <1>1, SameSize
  <2> QED
    BY <2>6, <1>1 DEF S
<1>7. PICK p \in S : L[p] \notin LPagesOf[b]
  BY <1>6
<1> DEFINE x == VpnOf(vt, p)
<1>8. x \in VPages /\ Listable(b, m, x) /\ InList(n, x) = L[p]
  BY <1>0, <1>4 DEF Listable, InList, Lists, L
<1>9. L[p] = 0 /\ Unwritten(b, n, x)
  BY <1>0, <1>7, <1>8 DEF Closed
<1>10. x = VpnOf(FirstBlock[b], 0) /\ n[x] = ErasedPage
  BY <1>9 DEF Unwritten
<1>11. map[0] = x
  BY <1>2, <1>9
<1>12. b # 0
  <2>1. 0 \in LPages
    BY Sizes DEF LPages
  <2>2. 0 % NUM_BANKS = 0
    <3>1. NUM_BANKS \in Nat \ {0} /\ 0 \in 0 .. NUM_BANKS - 1
      BY Sizes
    <3> QED
      BY <3>1, ModSmall
  <2>3. 0 \in LPagesOf[0] \/ b # 0
    BY <2>1, <2>2 DEF LPagesOf, get_num_bank
  <2> QED
    BY <2>3, <1>7, <1>9
<1>13. OffsetOf(VpnOf(FirstBlock[b], 0)) = 0
  <2>1. 0 \in Offsets /\ FirstBlock[b] \in VBlks
    BY Blocks, Sizes DEF Offsets
  <2> QED
    BY <2>1, VPagesAre
<1> HIDE DEF x
<1> QED
  BY <1>8, <1>10, <1>11, <1>12, <1>13


-----------------------------------------------------------------------------
(* assign_new_write_vpn, as the model states it *)

Ready(b, a) ==
  /\ IsMap(a.map) /\ IsCounts(a.vcount)
  /\ BankOk(b, a.map, a.vcount, a.meta, a.nand, latest, OffsetOf(a.meta.cur_write_vpn))
  /\ \A l \in LPages : l \notin LPagesOf[b] => a.map[l] = page_map[l]
  /\ SameBoot(nand[b], a.nand)
Aliased(b) == /\ page_map[0] = VpnOf(FirstBlock[b], 0)
              /\ nand[b][VpnOf(FirstBlock[b], 0)] = ErasedPage

\* The type invariant in the form the lemmas about a bank use.
LEMMA TypesOf ==
  ASSUME Types
  PROVE  /\ IsMap(page_map) /\ IsLatest(latest) /\ \A b \in Banks : IsCounts(vcount[b])
BY DEF Types, IsMap, IsLatest, IsCounts

\* NextPage of the model is what NextPageOk speaks of.
LEMMA NextPageReady ==
  ASSUME Types, NEW b \in Banks, BankInv(b), ~LastPageNext(b)
  PROVE  NextPage(b).ok /\ Ready(b, NextPage(b))
<1> DEFINE m == g_misc_meta[b]
           a == NextPage(b)
<1>1. /\ a.map = page_map /\ a.vcount = vcount[b] /\ a.nand = nand[b] /\ a.ok = TRUE
      /\ a.meta = NextPageMeta(m)
  BY DEF NextPage, NextPageMeta
<1>2. OffsetOf(m.cur_write_vpn) # PAGES_PER_BLK - 2
  BY DEF LastPageNext
<1>3. BankOk(b, page_map, vcount[b], m, nand[b], latest, OffsetOf(m.cur_write_vpn) + 1)
  BY DEF BankInv
<1> HIDE DEF m, a
<1>4. BankOk(b, page_map, vcount[b], NextPageMeta(m), nand[b], latest,
             OffsetOf(NextPageMeta(m).cur_write_vpn))
  BY <1>2, <1>3, NextPageOk
<1> QED
  BY <1>1, <1>4, TypesOf DEF Ready, SameBoot, a

\* NextBlock of the model is what NextBlockOk speaks of.
LEMMA NextBlockReady ==
  ASSUME Types, NEW b \in Banks, BankInv(b), LastPageNext(b), ~LastFreeBlock(b)
  PROVE  NextBlock(b).ok /\ Ready(b, NextBlock(b))
<1> DEFINE m  == g_misc_meta[b]
           n  == nand[b]
           vc == vcount[b]
           a  == NextBlock(b)
           v  == Min(NextBlocks(b))
<1>1. BankOk(b, page_map, vc, m, n, latest, OffsetOf(m.cur_write_vpn) + 1)
  BY DEF BankInv
<1>2. OffsetOf(m.cur_write_vpn) = PAGES_PER_BLK - 2
  BY DEF LastPageNext
<1>3. m.free_blk_cnt # 2
  BY DEF LastFreeBlock
<1>4. NextBlocks(b) = Later(m, vc)
  BY DEF NextBlocks, Later, CurBlock, Cur
<1> HIDE DEF m, n, vc
<1>5. Later(m, vc) = Ahead(b, m) /\ Ahead(b, m) # {}
  BY <1>1, <1>3, LaterBlocks
<1>6. Ahead(b, m) \in SUBSET Nat
  BY <1>4, <1>5 DEF NextBlocks, VBlks
<1>7. v \in Ahead(b, m) /\ \A w \in Ahead(b, m) : v <= w
  BY <1>4, <1>5, <1>6, MinProperty
<1>8. NextBlocks(b) # {}
  BY <1>4, <1>5
<1> HIDE DEF v
<1>9. BankOk(b, page_map, vc, NextBlockMeta(m, v), Listing(m, n), latest,
             OffsetOf(NextBlockMeta(m, v).cur_write_vpn))
  BY <1>1, <1>2, <1>3, <1>7, NextBlockOk
<1>10. WithList(b) = Listing(m, n)
  BY DEF WithList, Listing, CurBlock, Cur, Lpn, m, n
<1>11. /\ a.map = page_map /\ a.vcount = vc /\ a.nand = Listing(m, n) /\ a.ok = TRUE
       /\ a.meta = NextBlockMeta(m, v)
  BY <1>8, <1>10 DEF NextBlock, NextBlockMeta, m, v, vc
<1>12. SameBoot(n, Listing(m, n))
  BY <1>1, <1>2, CloseOk
<1> HIDE DEF a
<1> QED
  BY <1>9, <1>11, <1>12, TypesOf DEF Ready, a, vc, n

\* garbage_collection of the model is what GcOk speaks of, and its ASSERTs hold unless aliased.
LEMMA CollectionReady ==
  ASSUME Types, NEW b \in Banks, BankInv(b), LastPageNext(b), LastFreeBlock(b),
         NEW vt \in get_vt_vblock(b)
  PROVE  /\ garbage_collection(b, vt).ok => Ready(b, garbage_collection(b, vt))
         /\ ~garbage_collection(b, vt).ok => b # 0 /\ Aliased(b)
<1> DEFINE m  == g_misc_meta[b]
           n0 == nand[b]
           vc == vcount[b]
           a  == garbage_collection(b, vt)
           n  == Listing(m, n0)
           gc == m.gc_vblock
           K  == Cardinality(Valid(page_map, n, vt))
<1>1. BankOk(b, page_map, vc, m, n0, latest, OffsetOf(m.cur_write_vpn) + 1)
  BY DEF BankInv
<1>2. OffsetOf(m.cur_write_vpn) = PAGES_PER_BLK - 2
  BY DEF LastPageNext
<1>3. WithList(b) = n
  BY DEF WithList, Listing, CurBlock, Cur, Lpn
<1>4. vt \in VBlks /\ vc[vt] = Min({vc[v] : v \in VBlks})
  BY DEF get_vt_vblock
<1>5. m.free_blk_cnt - 1 = 1
  BY DEF LastFreeBlock
<1>6. a = [map    |-> [l \in LPages |->
                    IF \E p \in ValidPages(ListIn(n, vt), vt) : ListIn(n, vt)[p] = l
                    THEN VpnOf(gc, CopyTo(ValidPages(ListIn(n, vt), vt),
                           CHOOSE p \in ValidPages(ListIn(n, vt), vt) : ListIn(n, vt)[p] = l))
                    ELSE page_map[l]],
      vcount |-> [vc EXCEPT ![vt] = VC_MAX, ![gc] = vc[vt]],
      nand   |-> EraseAll(CopiedBack(n, vt, gc, ValidPages(ListIn(n, vt), vt)), {vt}),
      meta   |-> [m EXCEPT !.cur_write_vpn =
                             VpnOf(gc, Cardinality(ValidPages(ListIn(n, vt), vt))),
                           !.gc_vblock = vt,
                           !.lpn_list_of_cur_vblock =
                             MovedList(ListIn(n, vt), ValidPages(ListIn(n, vt), vt))],
      ok     |-> /\ vt # gc
                 /\ vt >= META_BLKS_PER_BANK /\ vt \notin bad[b] /\ gc \notin bad[b]
                 /\ vc[vt] < LAST - 1
                 /\ vc[gc] = VC_MAX
                 /\ Cardinality(ValidPages(ListIn(n, vt), vt)) < LAST - 1
                 /\ Cardinality(ValidPages(ListIn(n, vt), vt)) = vc[vt]]
  BY <1>3 DEF garbage_collection
<1>7. IsMap(page_map) /\ IsCounts(vc) /\ IsLatest(latest)
  BY TypesOf
<1> HIDE DEF m, n0, vc, a, gc
<1>8. Position(b, m) /\ Counted(b, page_map, vc, m) /\ m.free_blk_cnt = 2
  <2>1. Position(b, m) /\ Counted(b, page_map, vc, m)
    BY <1>1 DEF BankOk
  <2>2. m.free_blk_cnt \in Nat
    BY <2>1, PositionFacts
  <2> QED
    BY <2>1, <2>2, <1>5
<1>9. /\ Closed(b, page_map, m, n) /\ Stored(b, page_map, n, latest)
      /\ LogPlaces(b, m, n) /\ LogsKept(b, m, n) /\ SameBoot(n0, n)
  BY <1>1, <1>2, CloseOk
<1>10. vt \in Used(b, m) /\ vc[vt] < LAST - 1
  BY <1>4, <1>7, <1>8, LeastIsVictim
<1> HIDE DEF n
<1>11. Victim(b, page_map, vc, m, n, vt)
  BY <1>7, <1>8, <1>9, <1>10 DEF Victim
<1>12. ListIn(n, vt) = Lists(n, vt)
  BY <1>9, <1>10 DEF Closed, HasList, ListIn, Lists
<1>13. ValidPages(ListIn(n, vt), vt) = Valid(page_map, n, vt)
  BY <1>12 DEF ValidPages, Valid
<1>14. /\ a.map = GcMap(page_map, n, vt, gc) /\ a.vcount = GcCounts(vc, vt, gc)
       /\ a.nand = GcNand(page_map, n, vt, gc) /\ a.meta = GcMeta(page_map, m, n, vt)
  BY <1>6, <1>12, <1>13 DEF GcMap, GcCounts, GcNand, GcMeta, gc
<1>15. a.ok <=> /\ vt # gc
                /\ vt >= META_BLKS_PER_BANK /\ vt \notin bad[b] /\ gc \notin bad[b]
                /\ vc[vt] < LAST - 1 /\ vc[gc] = VC_MAX /\ K < LAST - 1 /\ K = vc[vt]
  BY <1>6, <1>13
<1>16. /\ vt # gc /\ gc \in VBlks /\ K \in Nat
       /\ vt >= META_BLKS_PER_BANK /\ vt \notin bad[b] /\ gc \notin bad[b]
  <2>1. vt # gc /\ vt \in UserBlocks[b] /\ gc \in UserBlocks[b] /\ gc \in VBlks /\ K \in Nat
    BY <1>11, VictimFacts DEF gc
  <2> QED
    BY <2>1, Blocks
<1>17. vc[gc] = VC_MAX
  BY <1>8, <1>16 DEF Counted, gc
<1> HIDE DEF K
<1>18. ASSUME a.ok PROVE Ready(b, a)
  <2>1. K = vc[vt] /\ K < LAST - 1
    BY <1>15, <1>18
  <2>2. K < LAST
    BY <2>1, <1>16, Sizes
  <2>3. Collects(b, page_map, vc, m, n, vt)
    BY <2>1, <2>2, <1>11 DEF Collects, K
  <2>4. /\ BankOk(b, GcMap(page_map, n, vt, m.gc_vblock), GcCounts(vc, vt, m.gc_vblock),
                  GcMeta(page_map, m, n, vt), GcNand(page_map, n, vt, m.gc_vblock), latest,
                  OffsetOf(GcMeta(page_map, m, n, vt).cur_write_vpn))
        /\ IsMap(GcMap(page_map, n, vt, m.gc_vblock)) /\ IsCounts(GcCounts(vc, vt, m.gc_vblock))
        /\ \A l \in LPages : l \notin LPagesOf[b]
                             => GcMap(page_map, n, vt, m.gc_vblock)[l] = page_map[l]
        /\ SameBoot(n, GcNand(page_map, n, vt, m.gc_vblock))
    BY <2>3, <1>7, <1>9, GcOk
  <2>5. SameBoot(n0, a.nand)
    BY <2>4, <1>9, <1>14 DEF SameBoot, gc
  <2> QED
    BY <2>4, <2>5, <1>14 DEF Ready, gc, n0
<1>19. ASSUME ~a.ok PROVE b # 0 /\ Aliased(b)
  <2>1. K # vc[vt]
    BY <1>10, <1>15, <1>16, <1>17, <1>19
  <2>2. /\ b # 0 /\ page_map[0] = VpnOf(FirstBlock[b], 0)
        /\ n[VpnOf(FirstBlock[b], 0)] = ErasedPage /\ VpnOf(FirstBlock[b], 0) \in VPages
        /\ OffsetOf(VpnOf(FirstBlock[b], 0)) = 0
    BY <2>1, <1>11, FoundUnlessAliased DEF K
  <2>3. VpnOf(FirstBlock[b], 0) # VpnOf(Cur(m), LAST)
    <3>1. Cur(m) \in VBlks /\ LAST \in Offsets /\ LAST > 0
      BY <1>8, PositionFacts, Sizes
    <3>2. OffsetOf(VpnOf(Cur(m), LAST)) = LAST
      BY <3>1, VPagesAre
    <3> QED
      BY <3>1, <3>2, <2>2
  <2>4. DOMAIN n0 = VPages
    BY <1>1 DEF BankOk, Programmed
  <2>5. n[VpnOf(FirstBlock[b], 0)] = n0[VpnOf(FirstBlock[b], 0)]
    BY <2>3, <2>4 DEF n, Listing, Program
  <2> QED
    BY <2>2, <2>5 DEF Aliased, n0
<1> QED
  BY <1>18, <1>19 DEF a

\* Whatever assign_new_write_vpn does leaves the bank ready for write_page.
LEMMA AssignedReady ==
  ASSUME Types, NEW b \in Banks, BankInv(b), NEW a \in Assigned(b)
  PROVE  (a.ok => Ready(b, a)) /\ (~a.ok => b # 0 /\ Aliased(b))
<1>1. CASE ~LastPageNext(b)
  <2>1. a = NextPage(b)
    BY <1>1 DEF Assigned
  <2> QED
    BY <2>1, <1>1, NextPageReady
<1>2. CASE LastPageNext(b) /\ ~LastFreeBlock(b)
  <2>1. a = NextBlock(b)
    BY <1>2 DEF Assigned
  <2> QED
    BY <2>1, <1>2, NextBlockReady
<1>3. CASE LastPageNext(b) /\ LastFreeBlock(b)
  <2>1. PICK vt \in get_vt_vblock(b) : a = garbage_collection(b, vt)
    BY <1>3 DEF Assigned
  <2> QED
    BY <2>1, <1>3, CollectionReady
<1> QED
  BY <1>1, <1>2, <1>3

\* An ASSERT can fail only in the case that is excepted.
LEMMA FailsOnlyAliased ==
  ASSUME Types, NEW b \in Banks, BankInv(b), NEW a \in Assigned(b), NEW lpn \in LPagesOf[b],
         ~WriteAsserts(a, lpn)
  PROVE  b # 0 /\ Aliased(b)
<1>1. CASE a.ok
  <2>1. Ready(b, a)
    BY <1>1, AssignedReady
  <2>2. /\ a.map[lpn] # a.meta.cur_write_vpn
        /\ a.map[lpn] # NULL => /\ BlockOf(a.map[lpn]) >= META_BLKS_PER_BANK
                                /\ a.vcount[BlockOf(a.map[lpn])] > 0
        /\ Invalidate(a.vcount, a.map[lpn])[BlockOf(a.meta.cur_write_vpn)] < LAST
        /\ BlockOf(a.meta.cur_write_vpn) >= META_BLKS_PER_BANK
    BY <2>1, WriteAssertsHold DEF Ready
  <2> QED
    BY <2>2, <1>1 DEF WriteAsserts
<1>2. CASE ~a.ok
  BY <1>2, AssignedReady
<1> QED
  BY <1>1, <1>2


-----------------------------------------------------------------------------
(* The invariant is inductive *)

\* Format establishes the invariant.
LEMMA InitIInv == Init => IInv
<1> SUFFICES ASSUME Init PROVE IInv
  OBVIOUS
<1>1. /\ page_map = FormattedMap /\ vcount = FormattedCounts /\ g_misc_meta = FormattedMeta
      /\ nand = FormattedNand(BlankNand) /\ failed = FALSE /\ latest = NothingWritten
  BY DEF Init
<1>2. \A b \in Banks : Whole(b, BlankNand[b])
  BY Kinds DEF Whole, BlankNand
<1>3. (\A b \in Banks : BankInv(b)) /\ BootInv
  BY <1>1, <1>2, FormatOk DEF BankInv, BootInv
<1>4. DOMAIN g_misc_meta = Banks /\ DOMAIN nand = Banks
  BY <1>1 DEF FormattedMeta, FormattedNand
<1>5. Types
  BY <1>1, <1>4, FormatTypes DEF Types, IsMap, IsLatest
<1> QED
  BY <1>1, <1>3, <1>5 DEF IInv, AssertsHoldUnlessAliased

\* A step that leaves block 0 alone keeps what is known of the mark.
LEMMA BootStays ==
  ASSUME BootInv, \A b \in Banks : BankInv(b)', \A b \in Banks : SameBoot(nand[b], nand'[b])
  PROVE  BootInv'
<1> SUFFICES ASSUME NEW b \in Banks, NEW x \in VPages, nand'[b][x] = Clobbered
             PROVE  BlockOf(x) = 0 /\ b = 0 /\ x = format_mark_vpn
  BY DEF BootInv, Whole
<1>1. BlockOf(x) = 0
  BY DEF BankInv, BankOk, Programmed
<1> QED
  BY <1>1 DEF BootInv, Whole, SameBoot

\* Only the logical pages of the bank matter to it.
LEMMA OtherPages ==
  ASSUME NEW b \in Banks, NEW map, NEW map2, NEW vc, NEW m, NEW n, NEW lat, NEW lat2, NEW c,
         BankOk(b, map, vc, m, n, lat, c),
         \A l \in LPagesOf[b] : map2[l] = map[l] /\ lat2[l] = lat[l]
  PROVE  BankOk(b, map2, vc, m, n, lat2, c)
<1>1. Listed(b, map2, m, n, c)
  BY DEF BankOk, Listed
<1>2. \A v : ValidIn(b, map2, v) = ValidIn(b, map, v)
  BY DEF ValidIn
<1>3. Counted(b, map2, vc, m)
  BY <1>2 DEF BankOk, Counted
<1>4. Stored(b, map2, n, lat2)
  BY DEF BankOk, Stored
<1> QED
  BY <1>1, <1>3, <1>4 DEF BankOk

\* A write preserves the invariant, whatever its assign_new_write_vpn does.
LEMMA WriteStep ==
  ASSUME IInv, ~failed, NEW lpn \in LPages, NEW off, NEW cnt, NEW d \in Data,
         NEW a \in Assigned(get_num_bank(lpn)), write_page(a, lpn, off, cnt, d)
  PROVE  IInv' /\ \A x \in Banks : SameBoot(nand[x], nand'[x])
<1> DEFINE b   == get_num_bank(lpn)
           old == a.map[lpn]
           new == a.meta.cur_write_vpn
           m2  == WriteMeta(a.meta, lpn)
           vc2 == WriteCounts(a.meta, a.vcount, old)
           n2  == Program(a.nand, new, NewPage(a.nand, old, off, cnt, d))
           map2 == [a.map EXCEPT ![lpn] = new]
           lat2 == WriteLatest(latest, lpn, off, cnt, d)
<1>1. b \in Banks /\ lpn \in LPagesOf[b] /\ \A l \in LPages : get_num_bank(l) \in Banks
  BY BankOf
<1>2. Types /\ (\A x \in Banks : BankInv(x)) /\ IsMap(page_map) /\ IsLatest(latest)
  BY TypesOf DEF IInv
<1>3. /\ WriteAsserts(a, lpn) /\ page_map' = map2 /\ vcount' = [vcount EXCEPT ![b] = vc2]
      /\ g_misc_meta' = [g_misc_meta EXCEPT ![b] = m2] /\ nand' = [nand EXCEPT ![b] = n2]
      /\ latest' = lat2 /\ failed' = failed
  BY DEF write_page, WriteMeta, WriteCounts, WriteLatest
<1>4. Ready(b, a)
  BY <1>1, <1>2, <1>3, AssignedReady DEF WriteAsserts
<1> HIDE DEF b
<1>5. /\ IsMap(a.map) /\ IsCounts(a.vcount)
      /\ BankOk(b, a.map, a.vcount, a.meta, a.nand, latest, OffsetOf(a.meta.cur_write_vpn))
      /\ \A l \in LPages : l \notin LPagesOf[b] => a.map[l] = page_map[l]
      /\ SameBoot(nand[b], a.nand)
  BY <1>4 DEF Ready
<1>6. /\ BankOk(b, map2, vc2, m2, n2, lat2, OffsetOf(m2.cur_write_vpn) + 1)
      /\ IsCounts(vc2) /\ SameBoot(a.nand, n2)
  BY <1>1, <1>2, <1>5, WriteOk
<1>7. new \in VPages
  <2>1. Position(b, a.meta)
    BY <1>5 DEF BankOk
  <2> QED
    BY <2>1, <1>1, PositionFacts
<1>8. IsMap(map2)
  BY <1>5, <1>7 DEF IsMap
<1>9. IsLatest(lat2)
  BY <1>2 DEF IsLatest, WriteLatest
<1>10. \A x \in Banks \ {b} : \A l \in LPagesOf[x] : map2[l] = page_map[l] /\ lat2[l] = latest[l]
  <2> SUFFICES ASSUME NEW x \in Banks \ {b}, NEW l \in LPagesOf[x]
               PROVE  map2[l] = page_map[l] /\ lat2[l] = latest[l]
    OBVIOUS
  <2>1. l \in LPages /\ l \notin LPagesOf[b] /\ l # lpn
    BY <1>1 DEF LPagesOf
  <2>2. map2[l] = a.map[l]
    BY <2>1, <1>5 DEF IsMap
  <2>3. lat2[l] = latest[l]
    BY <2>1, <1>2 DEF IsLatest, WriteLatest
  <2> QED
    BY <2>1, <2>2, <2>3, <1>5
<1> HIDE DEF map2, vc2, m2, n2, lat2
<1>11. Types'
  <2>1. vcount' \in [Banks -> [VBlks -> Nat]]
    BY <1>1, <1>2, <1>3, <1>6 DEF Types, IsCounts
  <2>2. DOMAIN g_misc_meta' = Banks /\ DOMAIN nand' = Banks /\ failed' \in BOOLEAN
    BY <1>2, <1>3 DEF Types
  <2> QED
    BY <2>1, <2>2, <1>3, <1>8, <1>9 DEF Types, IsMap, IsLatest
<1>12. ASSUME NEW x \in Banks PROVE BankInv(x)'
  <2>1. BankInv(x)' <=> BankOk(x, page_map', vcount[x]', g_misc_meta[x]', nand[x]', latest',
                               OffsetOf(g_misc_meta[x]'.cur_write_vpn) + 1)
    BY DEF BankInv, BankOk, Position, Programmed, Listed, Counted, Stored, LogPlaces, LogsKept,
           Cur, Ahead, Clear, Used, HasList, ListAt, Entry, Place, Unwritten, ValidIn
  <2>2. CASE x = b
    <3>1. vcount'[x] = vc2 /\ g_misc_meta'[x] = m2 /\ nand'[x] = n2
      BY <2>2, <1>1, <1>2, <1>3 DEF Types
    <3> QED
      BY <2>1, <2>2, <3>1, <1>3, <1>6
  <2>3. CASE x # b
    <3>1. vcount'[x] = vcount[x] /\ g_misc_meta'[x] = g_misc_meta[x] /\ nand'[x] = nand[x]
      BY <2>3, <1>1, <1>2, <1>3 DEF Types
    <3>2. BankOk(x, page_map, vcount[x], g_misc_meta[x], nand[x], latest,
                 OffsetOf(g_misc_meta[x].cur_write_vpn) + 1)
      BY <1>2 DEF BankInv
    <3>3. \A l \in LPagesOf[x] : map2[l] = page_map[l] /\ lat2[l] = latest[l]
      BY <2>3, <1>10
    <3>4. BankOk(x, map2, vcount[x], g_misc_meta[x], nand[x], lat2,
                 OffsetOf(g_misc_meta[x].cur_write_vpn) + 1)
      BY <3>2, <3>3, OtherPages
    <3> QED
      BY <2>1, <3>1, <3>4, <1>3
  <2> QED
    BY <2>2, <2>3
<1>13. AssertsHoldUnlessAliased'
  BY <1>3 DEF AssertsHoldUnlessAliased
<1>14. ASSUME NEW x \in Banks PROVE SameBoot(nand[x], nand'[x])
  <2>1. CASE x = b
    BY <2>1, <1>1, <1>2, <1>3, <1>5, <1>6 DEF Types, SameBoot
  <2>2. CASE x # b
    BY <2>2, <1>1, <1>2, <1>3 DEF Types, SameBoot
  <2> QED
    BY <2>1, <2>2
<1>15. BootInv'
  BY <1>12, <1>14, BootStays DEF IInv
<1> QED
  BY <1>11, <1>12, <1>13, <1>14, <1>15 DEF IInv

\* A failing ASSERT preserves the invariant: it is the situation excepted.
LEMMA FailStep ==
  ASSUME IInv, NEW b \in Banks, AssertFails(b)
  PROVE  IInv' /\ \A x \in Banks : SameBoot(nand[x], nand'[x])
<1>1. UNCHANGED <<page_map, vcount, g_misc_meta, nand, latest>> /\ failed' = TRUE
  BY DEF AssertFails
<1>2. PICK a \in Assigned(b) : \E lpn \in LPagesOf[b] : ~WriteAsserts(a, lpn)
  BY DEF AssertFails
<1>3. b # 0 /\ Aliased(b)
  BY <1>2, FailsOnlyAliased DEF IInv
<1>4. AssertsHoldUnlessAliased'
  BY <1>1, <1>3 DEF AssertsHoldUnlessAliased, Aliased
<1>5. Types'
  BY <1>1 DEF IInv, Types
<1>6. (\A x \in Banks : BankInv(x)') /\ BootInv'
  BY <1>1 DEF IInv, BankInv, BootInv
<1> QED
  BY <1>1, <1>4, <1>5, <1>6 DEF IInv, SameBoot

\* ftl_flush preserves the invariant.
LEMMA FlushStep ==
  ASSUME IInv, ftl_flush
  PROVE  IInv' /\ \A b \in Banks : SameBoot(nand[b], nand'[b])
<1>1. /\ g_misc_meta' = [b \in Banks |-> FlushedMeta(b, g_misc_meta[b])]
      /\ nand' = [b \in Banks |-> FlushedNand(b, g_misc_meta[b], nand[b])]
      /\ UNCHANGED <<page_map, vcount, failed, latest>> /\ ~failed
  BY DEF ftl_flush
<1>2. Types'
  BY <1>1 DEF IInv, Types
<1>3. ASSUME NEW b \in Banks PROVE BankInv(b)' /\ SameBoot(nand[b], nand'[b])
  <2>1. BankOk(b, page_map, vcount[b], g_misc_meta[b], nand[b], latest,
               OffsetOf(g_misc_meta[b].cur_write_vpn) + 1)
    BY DEF IInv, BankInv
  <2>2. Readied(b, page_map, vcount[b], g_misc_meta[b], nand[b], latest,
                OffsetOf(g_misc_meta[b].cur_write_vpn) + 1)
    BY <2>1 DEF BankOk, Readied
  <2>3. /\ BankOk(b, page_map, vcount[b], FlushedMeta(b, g_misc_meta[b]),
                  FlushedNand(b, g_misc_meta[b], nand[b]), latest,
                  OffsetOf(g_misc_meta[b].cur_write_vpn) + 1)
        /\ FlushedMeta(b, g_misc_meta[b]).cur_write_vpn = g_misc_meta[b].cur_write_vpn
        /\ SameBoot(nand[b], FlushedNand(b, g_misc_meta[b], nand[b]))
    BY <2>2, FlushOk
  <2> QED
    BY <2>3, <1>1 DEF BankInv
<1>4. AssertsHoldUnlessAliased'
  BY <1>1 DEF AssertsHoldUnlessAliased
<1>5. BootInv'
  BY <1>3, BootStays DEF IInv
<1> QED
  BY <1>2, <1>3, <1>4, <1>5 DEF IInv

\* ftl_open establishes the invariant again.
LEMMA OpenStep ==
  ASSUME IInv, ftl_open
  PROVE  IInv'
<1>1. /\ page_map' = FormattedMap /\ vcount' = FormattedCounts /\ g_misc_meta' = FormattedMeta
      /\ nand' = FormattedNand(nand) /\ failed' = FALSE /\ latest' = NothingWritten
  BY DEF ftl_open
<1>2. ASSUME NEW b \in Banks PROVE BankInv(b)' /\ Whole(b, nand'[b])
  <2>1. Whole(b, nand[b])
    BY DEF IInv, BootInv
  <2>2. /\ BankOk(b, FormattedMap, FormattedCounts[b], FormattedMeta[b],
                  FormattedNand(nand)[b], NothingWritten,
                  OffsetOf(FormattedMeta[b].cur_write_vpn) + 1)
        /\ Whole(b, FormattedNand(nand)[b])
    BY <2>1, FormatOk
  <2>3. BankInv(b)' <=> BankOk(b, page_map', vcount[b]', g_misc_meta[b]', nand[b]', latest',
                               OffsetOf(g_misc_meta[b]'.cur_write_vpn) + 1)
    BY DEF BankInv, BankOk, Position, Programmed, Listed, Counted, Stored, LogPlaces, LogsKept,
           Cur, Ahead, Clear, Used, HasList, ListAt, Entry, Place, Unwritten, ValidIn
  <2> QED
    BY <2>2, <2>3, <1>1
<1>3. BootInv'
  BY <1>2 DEF BootInv, Whole
<1>4. DOMAIN g_misc_meta' = Banks /\ DOMAIN nand' = Banks
  BY <1>1 DEF FormattedMeta, FormattedNand
<1>5. Types'
  BY <1>1, <1>4, FormatTypes DEF Types, IsMap, IsLatest
<1> QED
  BY <1>1, <1>2, <1>3, <1>5 DEF IInv, AssertsHoldUnlessAliased

\* Every step preserves the invariant, and only ftl_open programs a page of block 0.
BootKept == \A b \in Banks : SameBoot(nand[b], nand'[b])
LEMMA NextIInv == IInv /\ [Next]_vars => IInv' /\ (ftl_open \/ BootKept)
<1> SUFFICES ASSUME IInv, [Next]_vars PROVE IInv' /\ (ftl_open \/ BootKept)
  OBVIOUS
<1>1. ASSUME NEW w \in Requests,
             \/ WriteNextPage(w[1], w[2], w[3], w[4])
             \/ WriteNextBlock(w[1], w[2], w[3], w[4])
             \/ WriteAfterGc(w[1], w[2], w[3], w[4])
      PROVE  IInv' /\ BootKept
  <2>1. w[1] \in LPages /\ w[4] \in Data
    BY Geometry DEF Requests, Data
  <2>2. CASE WriteNextPage(w[1], w[2], w[3], w[4])
    <3>1. /\ ~failed /\ NextPage(get_num_bank(w[1])) \in Assigned(get_num_bank(w[1]))
          /\ write_page(NextPage(get_num_bank(w[1])), w[1], w[2], w[3], w[4])
      BY <2>2 DEF WriteNextPage, Assigned
    <3> QED
      BY <3>1, <2>1, WriteStep DEF BootKept
  <2>3. CASE WriteNextBlock(w[1], w[2], w[3], w[4])
    <3>1. /\ ~failed /\ NextBlock(get_num_bank(w[1])) \in Assigned(get_num_bank(w[1]))
          /\ write_page(NextBlock(get_num_bank(w[1])), w[1], w[2], w[3], w[4])
      BY <2>3 DEF WriteNextBlock, Assigned
    <3> QED
      BY <3>1, <2>1, WriteStep DEF BootKept
  <2>4. CASE WriteAfterGc(w[1], w[2], w[3], w[4])
    <3>1. PICK vt \in get_vt_vblock(get_num_bank(w[1])) :
            write_page(garbage_collection(get_num_bank(w[1]), vt), w[1], w[2], w[3], w[4])
      BY <2>4 DEF WriteAfterGc
    <3>2. ~failed /\ garbage_collection(get_num_bank(w[1]), vt) \in Assigned(get_num_bank(w[1]))
      BY <2>4 DEF WriteAfterGc, Assigned
    <3> QED
      BY <3>1, <3>2, <2>1, WriteStep DEF BootKept
  <2> QED
    BY <1>1, <2>2, <2>3, <2>4
<1>2. ASSUME NEW b \in Banks, AssertFails(b) PROVE IInv' /\ BootKept
  BY <1>2, FailStep DEF BootKept
<1>3. CASE ftl_flush
  BY <1>3, FlushStep DEF BootKept
<1>4. CASE ftl_open
  BY <1>4, OpenStep
<1>5. CASE UNCHANGED vars
  BY <1>5 DEF vars, IInv, Types, BankInv, BootInv, AssertsHoldUnlessAliased, BootKept, SameBoot
<1> QED
  BY <1>1, <1>2, <1>3, <1>4, <1>5 DEF Next

\* IInv holds in every reachable state of the greedy FTL (ftl_greedy/ftl.c).
THEOREM Inductive == Spec => []IInv
BY InitIInv, NextIInv, PTL DEF Spec


-----------------------------------------------------------------------------
(* What the invariant implies *)

\* The parts of the invariant of bank b.
LEMMA BankParts ==
  ASSUME IInv, NEW b \in Banks
  PROVE  LET m == g_misc_meta[b]
             n == nand[b]
             c == OffsetOf(m.cur_write_vpn) + 1
         IN /\ Position(b, m) /\ Programmed(b, m, n, c) /\ Listed(b, page_map, m, n, c)
            /\ Counted(b, page_map, vcount[b], m) /\ Stored(b, page_map, n, latest)
            /\ LogPlaces(b, m, n) /\ LogsKept(b, m, n)
            /\ IsMap(page_map) /\ IsCounts(vcount[b]) /\ IsLatest(latest)
            /\ CurBlock(b) = Cur(m)
BY TypesOf DEF IInv, BankInv, BankOk, CurBlock, Cur

\* The counts and free_blk_cnt are in range because the valid pages of a block differ.
LEMMA InvTypes == IInv => TypeOK
<1> SUFFICES ASSUME IInv PROVE TypeOK
  OBVIOUS
<1>1. ASSUME NEW b \in Banks, NEW v \in VBlks
      PROVE  vcount[b][v] \in (0 .. LAST) \cup {VC_MAX}
  <2> DEFINE m == g_misc_meta[b]
             c == OffsetOf(m.cur_write_vpn) + 1
  <2>1. Listed(b, page_map, m, nand[b], c) /\ Counted(b, page_map, vcount[b], m)
    BY BankParts
  <2> HIDE DEF m, c
  <2>2. \A l \in ValidIn(b, page_map, v) : OffsetOf(page_map[l]) < LAST
    BY <2>1 DEF ValidIn, Listed, Place
  <2>3. LAST \in Offsets /\ LAST \in Nat
    BY Sizes
  <2>4. Cardinality(ValidIn(b, page_map, v)) <= LAST
    BY <2>1, <2>2, <2>3, BlockRoom
  <2>5. Cardinality(ValidIn(b, page_map, v)) \in Nat
    BY ValidSets
  <2>6. vcount[b][v] = Cardinality(ValidIn(b, page_map, v)) \/ vcount[b][v] = VC_MAX
    BY <2>1 DEF Counted
  <2> QED
    BY <2>3, <2>4, <2>5, <2>6
<1>2. vcount \in [Banks -> [VBlks -> (0 .. LAST) \cup {VC_MAX}]]
  <2>1. vcount \in [Banks -> [VBlks -> Nat]]
    BY DEF IInv, Types
  <2> HIDE DEF VC_MAX, LAST
  <2>2. \A b \in Banks : vcount[b] \in [VBlks -> (0 .. LAST) \cup {VC_MAX}]
    BY <2>1, <1>1
  <2> QED
    BY <2>1, <2>2
<1>3. ASSUME NEW b \in Banks
      PROVE  /\ g_misc_meta[b].free_blk_cnt \in 2 .. VBLKS_PER_BANK
             /\ g_misc_meta[b].gc_vblock \in UserBlocks[b]
             /\ OffsetOf(g_misc_meta[b].cur_write_vpn) < LAST
             /\ CurBlock(b) \in UserBlocks[b] \ {g_misc_meta[b].gc_vblock}
             /\ Lpn(b) \in [Offsets -> LPages]
  <2> DEFINE m == g_misc_meta[b]
             A == Ahead(b, m)
             P == A \cup {m.gc_vblock}
             Q == P \cup {Cur(m)}
  <2>1. Position(b, m) /\ CurBlock(b) = Cur(m) /\ m.free_blk_cnt = 2 + Cardinality(A)
    BY BankParts DEF Position
  <2> HIDE DEF m
  <2>2. /\ Cur(m) \in UserBlocks[b] /\ Cur(m) \notin Clear(b, m)
        /\ m.gc_vblock \in UserBlocks[b] /\ m.gc_vblock \in Clear(b, m) /\ m.gc_vblock \notin A
        /\ Clear(b, m) \subseteq UserBlocks[b] /\ IsFiniteSet(A) /\ Cardinality(A) \in Nat
        /\ m.lpn_list_of_cur_vblock \in [Offsets -> LPages]
        /\ OffsetOf(m.cur_write_vpn) < LAST
    BY <2>1, PositionFacts
  <2>3. UserBlocks[b] \subseteq VBlks
    BY Blocks
  <2>4. P = Clear(b, m)
    BY DEF Clear
  <2>5. Q \in SUBSET VBlks
    BY <2>2, <2>3, <2>4
  <2> HIDE DEF A
  <2>6. IsFiniteSet(P) /\ Cardinality(P) = Cardinality(A) + 1
    BY <2>2, FS_AddElement
  <2>7. Cur(m) \notin P
    BY <2>2, <2>4
  <2> HIDE DEF P
  <2>8. Cardinality(Q) = Cardinality(A) + 1 + 1
    BY <2>6, <2>7, FS_AddElement
  <2>9. IsFiniteSet(VBlks) /\ Cardinality(VBlks) = VBLKS_PER_BANK
    <3>1. VBLKS_PER_BANK \in Nat \ {0} /\ 0 \in Int /\ VBLKS_PER_BANK - 1 \in Int
      BY Sizes
    <3>2. IsFiniteSet(VBlks) /\ Cardinality(VBlks) = IF 0 > VBLKS_PER_BANK - 1 THEN 0
                                                     ELSE VBLKS_PER_BANK - 1 - 0 + 1
      BY <3>1, FS_Interval DEF VBlks
    <3> QED
      BY <3>1, <3>2
  <2> HIDE DEF Q
  <2>10. Cardinality(Q) <= VBLKS_PER_BANK
    BY <2>5, <2>9, FS_Subset
  <2>11. m.free_blk_cnt \in 2 .. VBLKS_PER_BANK
    BY <2>1, <2>2, <2>8, <2>10, Sizes
  <2> QED
    BY <2>1, <2>2, <2>11 DEF m, Lpn
<1> QED
  BY <1>2, <1>3 DEF TypeOK, IInv, Types

\* Reads go to pages that hold the latest data.
LEMMA InvReads == IInv => ReadsLatest
<1> SUFFICES ASSUME IInv, NEW lpn \in LPages PROVE ftl_read(lpn) = latest[lpn]
  BY DEF ReadsLatest
<1> DEFINE b == get_num_bank(lpn)
           n == nand[b]
           c == OffsetOf(g_misc_meta[b].cur_write_vpn) + 1
<1>1. b \in Banks /\ lpn \in LPagesOf[b]
  BY BankOf
<1>2. /\ Listed(b, page_map, g_misc_meta[b], n, c) /\ Stored(b, page_map, n, latest)
      /\ IsLatest(latest)
  BY <1>1, BankParts
<1>3. page_map[lpn] # NULL => IsData(n[page_map[lpn]])
  BY <1>1, <1>2 DEF Listed
<1>4. \A s \in Sectors : latest[lpn][s] = IF page_map[lpn] = NULL THEN Erased
                                          ELSE SectorAt(n, page_map[lpn], s)
  BY <1>1, <1>2, <1>3 DEF Stored, SectorAt
<1>5. latest[lpn] = [s \in Sectors |-> latest[lpn][s]]
  BY <1>2 DEF IsLatest
<1> QED
  BY <1>4, <1>5 DEF ftl_read

\* The list that is read back is the one the invariant speaks of.
LEMMA InvLists == IInv => ListsAgree
<1> SUFFICES ASSUME IInv, NEW b \in Banks, NEW l \in Mapped(b)
             PROVE  ListOf(b, BlockOf(page_map[l]))[OffsetOf(page_map[l])] = l
  BY DEF ListsAgree
<1> DEFINE m == g_misc_meta[b]
           n == nand[b]
           c == OffsetOf(m.cur_write_vpn) + 1
           v == BlockOf(page_map[l])
<1>1. Listed(b, page_map, m, n, c) /\ Programmed(b, m, n, c) /\ CurBlock(b) = Cur(m)
  BY BankParts
<1>2. v \in Used(b, m) /\ ListAt(m, n, v)[OffsetOf(page_map[l])] = l
  BY <1>1 DEF Mapped, Listed, Place, Entry
<1>3. v # Cur(m) => HasList(n, v)
  BY <1>1, <1>2 DEF Programmed
<1>4. ListOf(b, v) = ListAt(m, n, v)
  BY <1>1, <1>3 DEF ListOf, ListAt, ListIn, HasList, Lpn
<1> QED
  BY <1>2, <1>4

\* The valid pages of a block are those of the invariant.
LEMMA InvCounts == IInv => ValidCountsExact
<1> SUFFICES ASSUME IInv, NEW b \in Banks, NEW v \in VBlks
             PROVE  vcount[b][v] = IF v \in UserBlocks[b] \ {g_misc_meta[b].gc_vblock}
                      THEN Cardinality({l \in Mapped(b) : BlockOf(page_map[l]) = v}) ELSE VC_MAX
  BY DEF ValidCountsExact
<1>1. {l \in Mapped(b) : BlockOf(page_map[l]) = v} = ValidIn(b, page_map, v)
  BY DEF Mapped, ValidIn
<1>2. Counted(b, page_map, vcount[b], g_misc_meta[b])
  BY BankParts
<1> QED
  BY <1>1, <1>2 DEF Counted

\* The erased blocks are the free block and those not begun.
LEMMA InvFree == IInv => FreeBlocksCounted
<1> SUFFICES ASSUME IInv, NEW b \in Banks
             PROVE  LET erased == {v \in UserBlocks[b] :
                                     \A p \in Offsets : nand[b][VpnOf(v, p)] = ErasedPage}
                        gc == g_misc_meta[b].gc_vblock
                    IN /\ gc \in erased
                       /\ g_misc_meta[b].free_blk_cnt = Cardinality(erased \cup {CurBlock(b)})
  BY DEF FreeBlocksCounted
<1> DEFINE m == g_misc_meta[b]
           n == nand[b]
           c == OffsetOf(m.cur_write_vpn) + 1
           E == {v \in UserBlocks[b] : \A p \in Offsets : n[VpnOf(v, p)] = ErasedPage}
           A == Ahead(b, m)
           P == A \cup {m.gc_vblock}
<1>1. /\ Position(b, m) /\ Programmed(b, m, n, c) /\ CurBlock(b) = Cur(m)
      /\ m.free_blk_cnt = 2 + Cardinality(A)
  BY BankParts DEF Position
<1>2. /\ Cur(m) \notin Clear(b, m) /\ m.gc_vblock \notin A
      /\ m.gc_vblock \in Clear(b, m)
      /\ Clear(b, m) \subseteq UserBlocks[b] /\ IsFiniteSet(A) /\ Cardinality(A) \in Nat
  BY <1>1, PositionFacts
<1>3. P = Clear(b, m)
  BY DEF Clear
<1>4. UserBlocks[b] \subseteq VBlks
  BY Blocks
<1>5. Clear(b, m) \subseteq E
  <2> SUFFICES ASSUME NEW v \in Clear(b, m), NEW p \in Offsets PROVE n[VpnOf(v, p)] = ErasedPage
    BY <1>2
  <2>1. VpnOf(v, p) \in VPages /\ BlockOf(VpnOf(v, p)) = v
    BY <1>2, <1>4, VPagesAre
  <2> QED
    BY <2>1, <1>1 DEF Programmed
<1>6. E \subseteq Clear(b, m) \cup {Cur(m)}
  <2> SUFFICES ASSUME NEW v \in E, v \notin Clear(b, m), v # Cur(m) PROVE FALSE
    OBVIOUS
  <2>1. HasList(n, v)
    BY <1>1 DEF Programmed, Used
  <2>2. LAST \in Offsets
    BY Sizes
  <2>3. n[VpnOf(v, LAST)] = ErasedPage
    BY <2>2
  <2> QED
    BY <2>1, <2>3, Kinds DEF HasList
<1>7. E \cup {Cur(m)} = P \cup {Cur(m)}
  BY <1>3, <1>5, <1>6
<1>8. Cur(m) \notin P
  BY <1>2, <1>3
<1>9. m.gc_vblock \in E
  BY <1>2, <1>5
<1> HIDE DEF m, A, E
<1>10. IsFiniteSet(P) /\ Cardinality(P) = Cardinality(A) + 1
  BY <1>2, FS_AddElement
<1> HIDE DEF P
<1>11. Cardinality(P \cup {Cur(m)}) = Cardinality(A) + 1 + 1
  BY <1>8, <1>10, FS_AddElement
<1>12. m.free_blk_cnt = Cardinality(E \cup {Cur(m)})
  <2>1. Cardinality(A) + 1 + 1 = 2 + Cardinality(A)
    BY <1>2
  <2>2. Cardinality(E \cup {Cur(m)}) = Cardinality(P \cup {Cur(m)})
    BY <1>7
  <2>3. m.free_blk_cnt = 2 + Cardinality(A)
    BY <1>1
  <2> QED
    BY <2>1, <2>2, <2>3, <1>11
<1> QED
  BY <1>1, <1>9, <1>12 DEF m, E

\* The flash page of the log that has the entry of logical page l.
LEMMA EntryHome ==
  ASSUME NEW l \in LPages
  PROVE  LET q == l \div MAP_ENTRIES
         IN /\ q % NUM_BANKS \in Banks /\ q \div NUM_BANKS \in MapLbns
            /\ \A b \in Banks, k \in MapLbns :
                 l \in Entries(b, k) <=> b = q % NUM_BANKS /\ k = q \div NUM_BANKS
<1> DEFINE q == l \div MAP_ENTRIES
           N == NUM_BANKS
           E == MAP_ENTRIES
<1>1. /\ N \in Nat \ {0} /\ E \in Nat \ {0} /\ MAPBLKS_PER_BANK \in Nat \ {0}
      /\ l \in Int /\ 0 <= l /\ l < NUM_LPAGES /\ NUM_LPAGES \in Nat
  BY Sizes DEF LPages
<1>2. NUM_LPAGES <= N * MAPBLKS_PER_BANK * E
  BY Geometry
<1>3. q \in Int /\ l = E * q + (l % E) /\ l % E \in 0 .. E - 1
  BY <1>1, DivMod
<1>4. q % N \in 0 .. N - 1 /\ q \div N \in Int /\ q = N * (q \div N) + (q % N)
  BY <1>1, <1>3, DivMod
<1> DEFINE h == q \div N
           r == q % N
<1> HIDE DEF q, N, E, h, r
<1>5. 0 <= q
  <2>1. E * q > E * (-1)
    BY <1>1, <1>3
  <2>2. q > -1
    BY <2>1, <1>1, <1>3
  <2> QED
    BY <2>2, <1>3
<1>6. q < N * MAPBLKS_PER_BANK
  <2> DEFINE T == N * MAPBLKS_PER_BANK
  <2>1. T \in Int
    BY <1>1
  <2>2. l < E * T
    BY <1>1, <1>2
  <2> HIDE DEF T
  <2>3. E * q < E * T
    BY <2>1, <2>2, <1>1, <1>3
  <2>4. q < T
    BY <2>1, <2>3, <1>1, <1>3
  <2> QED
    BY <2>4 DEF T
<1>7. h \in MapLbns
  <2>1. h \in Int /\ r \in 0 .. N - 1 /\ q = N * h + r
    BY <1>4 DEF h, r
  <2>2. N * h > N * (-1)
    BY <2>1, <1>1, <1>5
  <2>3. h > -1
    BY <2>1, <2>2, <1>1
  <2>4. N * h < N * MAPBLKS_PER_BANK
    BY <2>1, <1>1, <1>3, <1>6
  <2>5. h < MAPBLKS_PER_BANK
    BY <2>1, <2>4, <1>1
  <2> QED
    BY <2>1, <2>3, <2>5, <1>1 DEF MapLbns
<1>8. ASSUME NEW b \in Banks, NEW k \in MapLbns
      PROVE  l \in Entries(b, k) <=> b = r /\ k = h
  <2> DEFINE e == k * N + b
             f == e * E
  <2>1. b \in 0 .. N - 1 /\ k \in Int /\ e \in Int
    BY <1>1 DEF Banks, MapLbns, N
  <2>2. l \in Entries(b, k) <=> f <= l /\ l < f + E
    BY DEF Entries, N, E
  <2>3. N * k + b = e
    BY <2>1, <1>1
  <2>4. e \div N = k /\ e % N = b
    BY <2>1, <2>3, <1>1, DivModUnique
  <2>5. q = N * h + r /\ h \in Int /\ r \in 0 .. N - 1
    BY <1>4 DEF h, r
  <2> HIDE DEF e
  <2>6. f = E * e /\ f \in Int
    BY <2>1, <1>1
  <2> HIDE DEF f
  <2>7. f <= l /\ l < f + E <=> q = e
    <3>1. ASSUME q = e PROVE f <= l /\ l < f + E
      BY <3>1, <2>6, <1>1, <1>3
    <3>2. ASSUME f <= l, l < f + E PROVE q = e
      <4>1. l - f \in 0 .. E - 1
        BY <3>2, <2>6, <1>1
      <4>2. (E * e + (l - f)) \div E = e
        BY <4>1, <2>1, <1>1, DivModUnique
      <4>3. E * e + (l - f) = l
        BY <2>6, <1>1
      <4> QED
        BY <4>2, <4>3 DEF q, E
    <3> QED
      BY <3>1, <3>2
  <2>8. q = e <=> b = r /\ k = h
    BY <2>3, <2>4, <2>5 DEF h, r
  <2> QED
    BY <2>2, <2>7, <2>8
<1> QED
  BY <1>4, <1>7, <1>8 DEF q, N, h, r, Banks

\* The entry of a logical page is in the newest page of one log.
LEMMA InvLogged == IInv => MapLogged
<1> SUFFICES ASSUME IInv, NEW l \in LPages
             PROVE  Cardinality({x \in Banks \X MapLbns :
                      LET pg == nand[x[1]][g_misc_meta[x[1]].cur_mapblk_vpn[x[2]]]
                      IN "map" \in DOMAIN pg /\ l \in pg.map}) = 1
  BY DEF MapLogged
<1> DEFINE log(b, k) == nand[b][g_misc_meta[b].cur_mapblk_vpn[k]]
           B == (l \div MAP_ENTRIES) % NUM_BANKS
           K == (l \div MAP_ENTRIES) \div NUM_BANKS
           X == {x \in Banks \X MapLbns :
                   LET pg == log(x[1], x[2]) IN "map" \in DOMAIN pg /\ l \in pg.map}
<1>1. /\ B \in Banks /\ K \in MapLbns
      /\ \A b \in Banks, k \in MapLbns : l \in Entries(b, k) <=> b = B /\ k = K
  BY EntryHome
<1> HIDE DEF B, K
<1>2. ASSUME NEW b \in Banks, NEW k \in MapLbns
      PROVE  "map" \in DOMAIN log(b, k) /\ l \in log(b, k).map <=> l \in Entries(b, k)
  <2>1. LogPlaces(b, g_misc_meta[b], nand[b]) /\ LogsKept(b, g_misc_meta[b], nand[b])
    BY BankParts
  <2>2. CASE k \in Logged(b)
    <3>1. log(b, k) = MapPage(Entries(b, k))
      BY <2>1, <2>2 DEF LogsKept
    <3> QED
      BY <3>1, Kinds
  <2>3. CASE k \notin Logged(b)
    <3>1. log(b, k) = ErasedPage
      BY <2>1, <2>3 DEF LogPlaces
    <3>2. Entries(b, k) = {}
      BY <2>3 DEF Logged
    <3> QED
      BY <3>1, <3>2, Kinds
  <2> QED
    BY <2>2, <2>3
<1> HIDE DEF log
<1>3. X = {<<B, K>>}
  BY <1>1, <1>2
<1>4. Cardinality({<<B, K>>}) = 1
  BY FS_Singleton
<1> QED
  BY <1>3, <1>4 DEF log

-----------------------------------------------------------------------------
(* The theorems *)

\* The page map, the lists of the blocks, the valid counts, free_blk_cnt and the flash
\* agree after every ftl_write, collection, ftl_flush and ftl_open.
THEOREM MetadataAlwaysAgrees == Spec => []MetadataAgrees
<1>1. IInv => MetadataAgrees
  BY InvTypes, InvLists, InvCounts, InvFree DEF MetadataAgrees
<1> QED
  BY <1>1, Inductive, PTL

\* ftl_read returns what was last written to each sector, through any sequence of
\* partial writes, changes of block, collections and flushes.
THEOREM ReadsAlwaysLatest == Spec => []ReadsLatest
BY InvReads, Inductive, PTL

\* write_page, garbage_collection, ftl_flush and format never program a page that is not
\* erased, through any number of restarts; write_format_mark does, in bank 0, with the one
\* page of its own, and nothing else touches that page.
THEOREM NeverReprogrammed == Spec => NoReprogram
<1>1. ASSUME IInv, IInv', [Next]_vars, NEW b \in Banks, NEW p \in VPages,
             nand'[b][p] = Clobbered
      PROVE  b = 0 /\ p = format_mark_vpn /\ (nand[b][p] = Clobbered \/ ftl_open)
  <2>1. BlockOf(p) = 0 /\ b = 0 /\ p = format_mark_vpn
    BY <1>1 DEF IInv, BootInv, Whole
  <2>2. ftl_open \/ BootKept
    BY <1>1, NextIInv
  <2> QED
    BY <1>1, <2>1, <2>2 DEF BootKept, SameBoot
<1>2. IInv /\ IInv' /\ [Next]_vars =>
        [\A b \in Banks, p \in VPages :
           nand'[b][p] = Clobbered => /\ b = 0 /\ p = format_mark_vpn
                                      /\ nand[b][p] = Clobbered \/ ftl_open]_vars
  BY <1>1
<1> QED
  BY <1>2, Inductive, PTL DEF Spec, NoReprogram

\* After every ftl_flush or format the newest pages that logging_pmap_table wrote hold
\* each entry of the page map once.
THEOREM MapAlwaysLogged == Spec => []MapLogged
BY InvLogged, Inductive, PTL

\* The ASSERTs of ftl_write, assign_new_write_vpn and garbage_collection hold unless the
\* unwritten first page of a bank's first block has the number that page_map[0] holds.
THEOREM AssertsAlwaysHoldUnlessAliased == Spec => []AssertsHoldUnlessAliased
<1>1. IInv => AssertsHoldUnlessAliased
  BY DEF IInv
<1> QED
  BY <1>1, Inductive, PTL
============================================================================
