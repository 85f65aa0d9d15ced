--------------------------- MODULE ReqQueueProofs ---------------------------
(***************************************************************************)
(* Proofs about ReqQueue for every number of clients, every ring size and  *)
(* every number of requests and kills.                                     *)
(***************************************************************************)
EXTENDS ReqQueue, NumberLemmas, FiniteSetTheorems, TLAPS

-----------------------------------------------------------------------------
(* The inductive invariant: none of its four parts is inductive alone.     *)
IInv == TypeOK /\ ProducerMutex /\ TokensConserved /\ RingHoldsWaiting

(* The numbers the invariant adds up are natural numbers.                  *)
LEMMA CountsAreNat ==
  ASSUME TypeOK
  PROVE  /\ IsFiniteSet(Reserving) /\ Cardinality(Reserving) \in Nat
         /\ IsFiniteSet(Filling) /\ Cardinality(Filling) \in Nat
         /\ Len(sent) \in Nat /\ Len(got) \in Nat
<1>1. Reserving \in SUBSET Clients /\ Filling \in SUBSET Clients
  BY DEF Reserving, Filling
<1>2. IsFiniteSet(Reserving) /\ IsFiniteSet(Filling)
  BY <1>1, ClientsFinite, FS_Subset
<1>3. Cardinality(Reserving) \in Nat /\ Cardinality(Filling) \in Nat
  BY <1>2, FS_CardinalityType
<1> QED
  BY <1>2, <1>3 DEF TypeOK

(* createRQueue establishes the invariant.                                 *)
LEMMA InitIInv == Init => IInv
<1> SUFFICES ASSUME Init PROVE IInv
  OBVIOUS
<1> USE DEF Init
<1>1. TypeOK
  BY NumItemsPos, BoundsNat DEF TypeOK, Slots, ClientPC, ServerPC
<1>2. ProducerMutex
  BY DEF ProducerMutex, Producing, ServerAt
<1>3. TokensConserved
  <2>1. Reserving = {} /\ Filling = {}
    BY DEF Reserving, Filling
  <2>2. Cardinality(Reserving) = 0 /\ Cardinality(Filling) = 0
    BY <2>1, FS_EmptySet
  <2> QED
    BY <2>2, NumItemsPos DEF TokensConserved, Waiting, ServerAt
<1>4. RingHoldsWaiting
  <2>1. 0 % shm_num_items = 0
    BY NumItemsPos, SMTT(30)
  <2>2. ClientAdvancing = 0 /\ ServerAt({"advance"}) = 0
    BY DEF ClientAdvancing, ServerAt
  <2> QED
    BY <2>1, <2>2 DEF RingHoldsWaiting
<1> QED
  BY <1>1, <1>2, <1>3, <1>4 DEF IInv

(* A client that has reserved a slot and not filled it leaves one free.    *)
LEMMA ReservedSlotIsFree ==
  ASSUME IInv, NEW c \in Reserving
  PROVE  Waiting \in Nat /\ Waiting < shm_num_items
<1>1. Cardinality(Reserving) \in Nat /\ Cardinality(Reserving) # 0
  BY CountsAreNat, FS_EmptySet DEF IInv
<1>2. empty \in Nat /\ ServerAt({"advance", "unlock", "notify"}) \in {0, 1}
      /\ Len(sent) \in Nat /\ Len(got) \in Nat /\ Len(got) <= Len(sent)
  BY CountsAreNat DEF IInv, TypeOK, ServerAt, RingHoldsWaiting
<1>3. Waiting \in Nat
  BY <1>2 DEF Waiting
<1> QED
  BY <1>1, <1>2, <1>3, NumItemsPos DEF IInv, TokensConserved

(* A server past sem_wait(full) finds a packet in the ring.                *)
LEMMA ServerFindsPacket ==
  ASSUME IInv, spc \in {"lock", "load"}
  PROVE  Len(got) < Len(sent)
<1>1. ServerAt({"lock", "load"}) = 1
  BY DEF ServerAt
<1>2. full \in Nat /\ Cardinality(Filling) \in Nat /\ Len(sent) \in Nat /\ Len(got) \in Nat
  BY CountsAreNat DEF IInv, TypeOK
<1> QED
  BY <1>1, <1>2 DEF IInv, TokensConserved, Waiting

-----------------------------------------------------------------------------
(* sendReqPacket preserves the invariant                                   *)

(* sem_wait(empty) moves a free slot to the client that reserves it.       *)
LEMMA WaitEmptyIInv ==
  ASSUME IInv, NEW c \in Clients, WaitEmpty(c) PROVE IInv'
<1> USE DEF WaitEmpty, Goto
<1>1. TypeOK'
  BY BoundsNat DEF IInv, TypeOK, ClientPC
<1>2. ProducerMutex'
  <2>1. Producing' = Producing
    BY DEF Producing, IInv, TypeOK
  <2> QED
    BY <2>1 DEF IInv, ProducerMutex, ServerAt
<1>3. TokensConserved'
  <2>1. Reserving' = Reserving \cup {c} /\ c \notin Reserving /\ Filling' = Filling
    BY DEF Reserving, Filling, IInv, TypeOK
  <2>2. Cardinality(Reserving') = Cardinality(Reserving) + 1
    BY <2>1, CountsAreNat, FS_AddElement DEF IInv
  <2>3. Waiting' = Waiting /\ Waiting \in Int
    BY CountsAreNat DEF Waiting, IInv
  <2>4. TokensConserved /\ empty \in Nat /\ full \in Nat
        /\ Cardinality(Reserving) \in Nat /\ Cardinality(Filling) \in Nat
    BY CountsAreNat DEF IInv, TypeOK
  <2> QED
    BY <2>1, <2>2, <2>3, <2>4, NumItemsPos DEF TokensConserved, ServerAt
<1>4. RingHoldsWaiting'
  <2>1. ClientAdvancing' = ClientAdvancing
    BY DEF ClientAdvancing, IInv, TypeOK
  <2> QED
    BY <2>1 DEF IInv, RingHoldsWaiting, ServerAt
<1> QED
  BY <1>1, <1>2, <1>3, <1>4 DEF IInv

(* sem_wait(mutex_producer) admits one client to an empty write end.       *)
LEMMA LockProducerIInv ==
  ASSUME IInv, NEW c \in Clients, LockProducer(c) PROVE IInv'
<1> USE DEF LockProducer, Goto
<1>1. TypeOK'
  BY DEF IInv, TypeOK, ClientPC
<1>2. ProducerMutex'
  <2>1. Producing = {}
    BY DEF IInv, ProducerMutex
  <2>2. Producing' = {c}
    BY <2>1 DEF Producing, IInv, TypeOK
  <2>3. mutex_producer = 1
    BY <2>1 DEF IInv, ProducerMutex
  <2> QED
    BY <2>2, <2>3 DEF IInv, ProducerMutex, ServerAt
<1>3. TokensConserved'
  <2>1. Reserving' = Reserving /\ Filling' = Filling
    BY DEF Reserving, Filling, IInv, TypeOK
  <2> QED
    BY <2>1 DEF IInv, TokensConserved, Waiting, ServerAt
<1>4. RingHoldsWaiting'
  <2>1. ClientAdvancing' = ClientAdvancing
    BY DEF ClientAdvancing, IInv, TypeOK
  <2> QED
    BY <2>1 DEF IInv, RingHoldsWaiting, ServerAt
<1> QED
  BY <1>1, <1>2, <1>3, <1>4 DEF IInv

(* The store fills the reserved slot, which holds no waiting packet.       *)
LEMMA StoreIInv ==
  ASSUME IInv, NEW c \in Clients, Store(c) PROVE IInv'
<1> DEFINE p == <<c, reqSeq[c]>>
<1>0. /\ pc[c] = "store" /\ pc' = [pc EXCEPT ![c] = "advance"]
      /\ shared_buffer' = [shared_buffer EXCEPT ![pWrIdx] = p]
      /\ sent' = Append(sent, p)
      /\ full' = full /\ empty' = empty
      /\ mutex_producer' = mutex_producer /\ mutex_consumer' = mutex_consumer
      /\ pWrIdx' = pWrIdx /\ pRdIdx' = pRdIdx /\ spc' = spc
      /\ reqSeq' = reqSeq /\ killed' = killed /\ got' = got
  BY DEF Store, Goto, sems
<1>u. pc[c] = "store" /\ full' = full /\ empty' = empty /\ spc' = spc /\ got' = got
  BY <1>0
<1>1. p \in Packets
  <2>1. reqSeq[c] > 0 /\ reqSeq[c] \in 0 .. MaxReqs
    BY <1>u DEF IInv, TypeOK
  <2>2. reqSeq[c] \in 1 .. MaxReqs
    BY <2>1, BoundsNat
  <2> QED
    BY <2>2 DEF Packets
<1>2. c \in Reserving /\ c \in Producing
  BY <1>0 DEF Reserving, Producing
<1>3. Len(sent) \in Nat /\ Len(got) \in Nat
  BY CountsAreNat DEF IInv
<1> HIDE DEF p
<1>4. Len(sent') = Len(sent) + 1
      /\ sent' \in Seq(Packets)
      /\ sent'[Len(sent) + 1] = p
      /\ \A k \in 1 .. Len(sent) : sent'[k] = sent[k]
  BY <1>0, <1>1 DEF IInv, TypeOK
<1>5. TypeOK'
  BY <1>0, <1>1, <1>4 DEF IInv, TypeOK, ClientPC
<1>6. ProducerMutex'
  <2>1. Producing' = Producing
    BY <1>0 DEF Producing, IInv, TypeOK
  <2> QED
    BY <1>0, <2>1 DEF IInv, ProducerMutex, ServerAt
<1>7. TokensConserved'
  <2>1. Reserving' = Reserving \ {c} /\ c \in Reserving
        /\ Filling' = Filling \cup {c} /\ c \notin Filling
    BY <1>0 DEF Reserving, Filling, IInv, TypeOK
  <2>2. Cardinality(Reserving') = Cardinality(Reserving) - 1
        /\ Cardinality(Filling') = Cardinality(Filling) + 1
    BY <2>1, CountsAreNat, FS_AddElement, FS_RemoveElement DEF IInv
  <2>3. Waiting' = Waiting + 1 /\ Waiting \in Int
    BY <1>0, <1>3, <1>4 DEF Waiting
  <2>4. TokensConserved /\ empty \in Nat /\ full \in Nat
        /\ Cardinality(Reserving) \in Nat /\ Cardinality(Filling) \in Nat
    BY CountsAreNat DEF IInv, TypeOK
  <2> QED
    BY <1>u, <2>2, <2>3, <2>4, NumItemsPos DEF TokensConserved, ServerAt
<1>8. RingHoldsWaiting'
  <2>1. ClientAdvancing = 0 /\ ClientAdvancing' = 1
    <3>1. \A d \in Clients : pc[d] # "advance"
      BY <1>u, <1>2 DEF IInv, ProducerMutex, Producing
    <3>2. pc'[c] = "advance"
      BY <1>0 DEF IInv, TypeOK
    <3> QED
      BY <3>1, <3>2 DEF ClientAdvancing
  <2>2. Len(got) <= Len(sent) /\ Len(sent) < Len(got) + shm_num_items
    BY <1>2, <1>3, ReservedSlotIsFree, NumItemsPos DEF IInv, RingHoldsWaiting, Waiting
  <2>3. pWrIdx = Len(sent) % shm_num_items
    BY <1>3, <2>1 DEF IInv, RingHoldsWaiting
  <2>4. ASSUME NEW k \in 1 .. Len(sent'), k > Len(got')
        PROVE  shared_buffer'[(k - 1) % shm_num_items] = sent'[k]
    <3>0. k - 1 \in Int /\ k \in Nat /\ k <= Len(sent) + 1 /\ k >= 1
      BY <1>3, <1>4
    <3>1. (k - 1) % shm_num_items \in Slots /\ pWrIdx \in Slots
      BY <3>0, DivMod, NumItemsPos DEF Slots, IInv, TypeOK
    <3>2. CASE k = Len(sent) + 1
      BY <1>0, <1>3, <1>4, <2>3, <3>1, <3>2 DEF IInv, TypeOK
    <3>3. CASE k # Len(sent) + 1
      <4>1. k \in 1 .. Len(sent) /\ k > Len(got)
        BY <1>u, <1>3, <3>0, <3>3, <2>4
      <4>2. k - 1 < Len(sent) /\ Len(sent) < (k - 1) + shm_num_items /\ k - 1 \in Int
        BY <1>3, <4>1, <2>2, NumItemsPos
      <4>3. (k - 1) % shm_num_items # pWrIdx
        <5> DEFINE a == k - 1  b == Len(sent)
        <5>0. a \in Int /\ b \in Int /\ a < b /\ b < a + shm_num_items
          BY <1>3, <4>2
        <5> HIDE DEF a, b
        <5>a. a % shm_num_items # b % shm_num_items
          BY <5>0, SlotsDiffer, NumItemsPos
        <5>1. (k - 1) % shm_num_items # Len(sent) % shm_num_items
          BY <5>a DEF a, b
        <5> QED
          BY <2>3, <5>1
      <4>4. shared_buffer[(k - 1) % shm_num_items] = sent[k]
        <5>1. \A j \in 1 .. Len(sent) :
                j > Len(got) => shared_buffer[(j - 1) % shm_num_items] = sent[j]
          BY DEF IInv, RingHoldsWaiting
        <5> QED
          BY <4>1, <5>1
      <4>5. shared_buffer'[(k - 1) % shm_num_items]
              = shared_buffer[(k - 1) % shm_num_items]
        BY <1>0, <3>1, <4>3 DEF IInv, TypeOK
      <4> QED
        BY <1>4, <4>1, <4>4, <4>5
    <3> QED
      BY <3>2, <3>3
  <2>5. pWrIdx' = (Len(sent') - ClientAdvancing') % shm_num_items
    <3>1. Len(sent') - ClientAdvancing' = Len(sent)
      BY <1>3, <1>4, <2>1
    <3> QED
      BY <1>0, <3>1, <2>3
  <2> QED
    BY <1>0, <1>3, <1>4, <2>2, <2>4, <2>5 DEF IInv, RingHoldsWaiting, ServerAt
<1> QED
  BY <1>5, <1>6, <1>7, <1>8 DEF IInv

(* Moving *pWrIdx on makes it point behind the packet just stored.         *)
LEMMA AdvanceWrIInv ==
  ASSUME IInv, NEW c \in Clients, AdvanceWr(c) PROVE IInv'
<1> USE DEF AdvanceWr, Goto, sems
<1>1. Len(sent) \in Nat
  BY CountsAreNat DEF IInv
<1>2. TypeOK'
  <2>1. pWrIdx' \in Slots
    BY DivMod, NumItemsPos DEF IInv, TypeOK, Slots
  <2> QED
    BY <2>1 DEF IInv, TypeOK, ClientPC
<1>3. ProducerMutex'
  <2>1. Producing' = Producing
    BY DEF Producing, IInv, TypeOK
  <2> QED
    BY <2>1 DEF IInv, ProducerMutex, ServerAt
<1>4. TokensConserved'
  <2>1. Reserving' = Reserving /\ Filling' = Filling
    BY DEF Reserving, Filling, IInv, TypeOK
  <2> QED
    BY <2>1 DEF IInv, TokensConserved, Waiting, ServerAt
<1>5. RingHoldsWaiting'
  <2>1. ClientAdvancing = 1
    BY DEF ClientAdvancing
  <2>2. ClientAdvancing' = 0
    <3>1. \A d \in Clients : d # c => pc[d] # "advance"
      BY DEF IInv, ProducerMutex, Producing
    <3> QED
      BY <3>1 DEF ClientAdvancing, IInv, TypeOK
  <2>3. pWrIdx = (Len(sent) - 1) % shm_num_items
    BY <2>1 DEF IInv, RingHoldsWaiting
  <2>4. (pWrIdx + 1) % shm_num_items = ((Len(sent) - 1) + 1) % shm_num_items
    <3>1. Len(sent) - 1 \in Int
      BY <1>1
    <3>2. (((Len(sent) - 1) % shm_num_items) + 1) % shm_num_items
            = ((Len(sent) - 1) + 1) % shm_num_items
      BY <3>1, NextSlot, NumItemsPos
    <3> QED
      BY <2>3, <3>2
  <2>5. (Len(sent) - 1) + 1 = Len(sent) - 0
    BY <1>1
  <2>6. pWrIdx' = (Len(sent') - ClientAdvancing') % shm_num_items
    BY <2>2, <2>4, <2>5
  <2> QED
    BY <2>6 DEF IInv, RingHoldsWaiting, ServerAt
<1> QED
  BY <1>2, <1>3, <1>4, <1>5 DEF IInv

(* sem_post(mutex_producer) gives the write end back.                      *)
LEMMA UnlockProducerIInv ==
  ASSUME IInv, NEW c \in Clients, UnlockProducer(c) PROVE IInv'
<1> USE DEF UnlockProducer, Goto
<1>1. TypeOK'
  BY DEF IInv, TypeOK, ClientPC
<1>2. ProducerMutex'
  <2>1. c \in Producing
    BY DEF Producing
  <2>2. Producing' = {} /\ mutex_producer = 0
    BY <2>1 DEF IInv, TypeOK, ProducerMutex, Producing
  <2> QED
    BY <2>2 DEF IInv, ProducerMutex, ServerAt
<1>3. TokensConserved'
  <2>1. Reserving' = Reserving /\ Filling' = Filling
    BY DEF Reserving, Filling, IInv, TypeOK
  <2> QED
    BY <2>1 DEF IInv, TokensConserved, Waiting, ServerAt
<1>4. RingHoldsWaiting'
  <2>1. ClientAdvancing' = ClientAdvancing
    BY DEF ClientAdvancing, IInv, TypeOK
  <2> QED
    BY <2>1 DEF IInv, RingHoldsWaiting, ServerAt
<1> QED
  BY <1>1, <1>2, <1>3, <1>4 DEF IInv

(* sem_post(full) hands the filled slot over to the server.                *)
LEMMA PostFullIInv ==
  ASSUME IInv, NEW c \in Clients, PostFull(c) PROVE IInv'
<1> USE DEF PostFull, Goto
<1>1. TypeOK'
  BY DEF IInv, TypeOK, ClientPC
<1>2. ProducerMutex'
  <2>1. Producing' = Producing
    BY DEF Producing, IInv, TypeOK
  <2> QED
    BY <2>1 DEF IInv, ProducerMutex, ServerAt
<1>3. TokensConserved'
  <2>1. Filling' = Filling \ {c} /\ c \in Filling /\ Reserving' = Reserving
    BY DEF Reserving, Filling, IInv, TypeOK
  <2>2. Cardinality(Filling') = Cardinality(Filling) - 1
    BY <2>1, CountsAreNat, FS_RemoveElement DEF IInv
  <2>3. Waiting' = Waiting
    BY DEF Waiting
  <2>4. TokensConserved /\ full \in Nat /\ Cardinality(Filling) \in Nat
    BY CountsAreNat DEF IInv, TypeOK
  <2> QED
    BY <2>1, <2>2, <2>3, <2>4 DEF TokensConserved, ServerAt
<1>4. RingHoldsWaiting'
  <2>1. ClientAdvancing' = ClientAdvancing
    BY DEF ClientAdvancing, IInv, TypeOK
  <2> QED
    BY <2>1 DEF IInv, RingHoldsWaiting, ServerAt
<1> QED
  BY <1>1, <1>2, <1>3, <1>4 DEF IInv

(* A kill takes nothing back, so whatever the client held stays held.      *)
LEMMA KillIInv ==
  ASSUME IInv, NEW c \in Clients, Kill(c) PROVE IInv'
BY DEF Kill, sems, IInv, TypeOK, ProducerMutex, TokensConserved, RingHoldsWaiting,
       Producing, Reserving, Filling, Waiting, ServerAt, ClientAdvancing

-----------------------------------------------------------------------------
(* getNextReqPacket preserves the invariant                                *)

(* A step of the server leaves the clients' parts of the invariant alone.  *)
LEMMA ServerFrame ==
  ASSUME pc' = pc
  PROVE  /\ Reserving' = Reserving /\ Filling' = Filling
         /\ Producing' = Producing /\ ClientAdvancing' = ClientAdvancing
BY DEF Reserving, Filling, Producing, ClientAdvancing

(* sem_wait(full) takes over a filled slot.                                *)
LEMMA WaitFullIInv ==
  ASSUME IInv, WaitFull PROVE IInv'
<1> USE DEF WaitFull, SGoto
<1>1. TypeOK'
  BY DEF IInv, TypeOK, ServerPC
<1>2. ProducerMutex'
  BY ServerFrame DEF IInv, ProducerMutex, ServerAt
<1>3. TokensConserved'
  <2>1. full \in Nat /\ Cardinality(Filling) \in Nat
    BY CountsAreNat DEF IInv, TypeOK
  <2> QED
    BY <2>1, ServerFrame DEF IInv, TokensConserved, Waiting, ServerAt
<1>4. RingHoldsWaiting'
  BY ServerFrame DEF IInv, RingHoldsWaiting, ServerAt
<1> QED
  BY <1>1, <1>2, <1>3, <1>4 DEF IInv

(* sem_wait(mutex_consumer) never blocks the only consumer for long.       *)
LEMMA LockConsumerIInv ==
  ASSUME IInv, LockConsumer PROVE IInv'
<1> USE DEF LockConsumer, SGoto
<1>1. TypeOK'
  BY DEF IInv, TypeOK, ServerPC
<1>2. ProducerMutex'
  BY ServerFrame DEF IInv, ProducerMutex, ServerAt
<1>3. TokensConserved'
  BY ServerFrame DEF IInv, TokensConserved, Waiting, ServerAt
<1>4. RingHoldsWaiting'
  BY ServerFrame DEF IInv, RingHoldsWaiting, ServerAt
<1> QED
  BY <1>1, <1>2, <1>3, <1>4 DEF IInv

(* What the server loads is the oldest packet that still waits.            *)
LEMMA LoadsOldest ==
  ASSUME IInv, spc = "load"
  PROVE  /\ Len(got) < Len(sent)
         /\ shared_buffer[pRdIdx] = sent[Len(got) + 1]
         /\ pRdIdx = Len(got) % shm_num_items
<1>1. Len(got) < Len(sent) /\ Len(got) \in Nat /\ Len(sent) \in Nat
  BY ServerFindsPacket, CountsAreNat DEF IInv
<1>2. ServerAt({"advance"}) = 0
  BY DEF ServerAt
<1>3. pRdIdx = Len(got) % shm_num_items
  BY <1>1, <1>2 DEF IInv, RingHoldsWaiting
<1>4. Len(got) + 1 \in 1 .. Len(sent) /\ Len(got) + 1 > Len(got)
      /\ (Len(got) + 1) - 1 = Len(got)
  BY <1>1
<1>5. shared_buffer[((Len(got) + 1) - 1) % shm_num_items] = sent[Len(got) + 1]
  BY <1>4 DEF IInv, RingHoldsWaiting
<1> QED
  BY <1>1, <1>3, <1>4, <1>5

(* The load takes the oldest waiting packet out of the abstract queue.     *)
LEMMA LoadIInv ==
  ASSUME IInv, Load PROVE IInv'
<1> DEFINE p == shared_buffer[pRdIdx]
<1>0. spc = "load" /\ spc' = "advance" /\ got' = Append(got, p)
      /\ full' = full /\ empty' = empty
      /\ mutex_producer' = mutex_producer /\ mutex_consumer' = mutex_consumer
      /\ pWrIdx' = pWrIdx /\ pRdIdx' = pRdIdx /\ shared_buffer' = shared_buffer
      /\ pc' = pc /\ reqSeq' = reqSeq /\ killed' = killed /\ sent' = sent
  BY DEF Load, SGoto, sems
<1>1. Len(sent) \in Nat /\ Len(got) \in Nat
  BY CountsAreNat DEF IInv
<1>2. p \in Packets \cup {NoPacket}
  BY DEF IInv, TypeOK
<1>3. Len(got') = Len(got) + 1 /\ got' \in Seq(Packets \cup {NoPacket})
  BY <1>0, <1>2 DEF IInv, TypeOK
<1> HIDE DEF p
<1>4. TypeOK'
  BY <1>0, <1>3 DEF IInv, TypeOK, ServerPC
<1>5. ProducerMutex'
  BY <1>0, ServerFrame DEF IInv, ProducerMutex, ServerAt
<1>6. TokensConserved'
  <2>1. Waiting' = Waiting - 1 /\ Waiting \in Int
    BY <1>0, <1>1, <1>3 DEF Waiting
  <2>2. full \in Nat /\ empty \in Nat
        /\ Cardinality(Filling) \in Nat /\ Cardinality(Reserving) \in Nat
    BY CountsAreNat DEF IInv, TypeOK
  <2>3. Cardinality(Filling') = Cardinality(Filling)
        /\ Cardinality(Reserving') = Cardinality(Reserving)
    BY <1>0, ServerFrame
  <2>4. spc = "load" /\ spc' = "advance" /\ full' = full /\ empty' = empty
    BY <1>0
  <2> QED
    BY <2>1, <2>2, <2>3, <2>4, NumItemsPos DEF IInv, TokensConserved, ServerAt
<1>7. RingHoldsWaiting'
  <2>1. Len(got) < Len(sent) /\ pRdIdx = Len(got) % shm_num_items
    BY <1>0, LoadsOldest
  <2>2. Len(got') <= Len(sent')
    BY <1>0, <1>1, <1>3, <2>1
  <2>3. pRdIdx' = (Len(got') - ServerAt({"advance"})') % shm_num_items
    <3>1. ServerAt({"advance"})' = 1
      BY <1>0 DEF ServerAt
    <3>2. Len(got') - ServerAt({"advance"})' = Len(got)
      BY <1>1, <1>3, <3>1
    <3> QED
      BY <1>0, <2>1, <3>2
  <2>4. ASSUME NEW k \in 1 .. Len(sent'), k > Len(got')
        PROVE  shared_buffer'[(k - 1) % shm_num_items] = sent'[k]
    <3>1. k \in 1 .. Len(sent) /\ k > Len(got)
      BY <1>0, <1>1, <1>3, <2>4
    <3> QED
      BY <1>0, <3>1 DEF IInv, RingHoldsWaiting
  <2>5. pWrIdx' = (Len(sent') - ClientAdvancing') % shm_num_items
    BY <1>0, ServerFrame DEF IInv, RingHoldsWaiting
  <2> QED
    BY <2>2, <2>3, <2>4, <2>5 DEF RingHoldsWaiting
<1> QED
  BY <1>4, <1>5, <1>6, <1>7 DEF IInv

(* Moving *pRdIdx on makes it point behind the packet just loaded.         *)
LEMMA AdvanceRdIInv ==
  ASSUME IInv, AdvanceRd PROVE IInv'
<1> USE DEF AdvanceRd, SGoto, sems
<1>1. Len(got) \in Nat
  BY CountsAreNat DEF IInv
<1>2. TypeOK'
  <2>1. pRdIdx' \in Slots
    BY DivMod, NumItemsPos DEF IInv, TypeOK, Slots
  <2> QED
    BY <2>1 DEF IInv, TypeOK, ServerPC
<1>3. ProducerMutex'
  BY ServerFrame DEF IInv, ProducerMutex, ServerAt
<1>4. TokensConserved'
  BY ServerFrame DEF IInv, TokensConserved, Waiting, ServerAt
<1>5. RingHoldsWaiting'
  <2>1. ServerAt({"advance"}) = 1 /\ ServerAt({"advance"})' = 0
    BY DEF ServerAt
  <2>2. pRdIdx = (Len(got) - 1) % shm_num_items
    BY <2>1 DEF IInv, RingHoldsWaiting
  <2>3. (pRdIdx + 1) % shm_num_items = ((Len(got) - 1) + 1) % shm_num_items
    <3>1. Len(got) - 1 \in Int
      BY <1>1
    <3>2. (((Len(got) - 1) % shm_num_items) + 1) % shm_num_items
            = ((Len(got) - 1) + 1) % shm_num_items
      BY <3>1, NextSlot, NumItemsPos
    <3> QED
      BY <2>2, <3>2
  <2>4. (Len(got) - 1) + 1 = Len(got) - 0
    BY <1>1
  <2>5. pRdIdx' = (Len(got') - ServerAt({"advance"})') % shm_num_items
    BY <2>1, <2>3, <2>4
  <2> QED
    BY <2>5, ServerFrame DEF IInv, RingHoldsWaiting
<1> QED
  BY <1>2, <1>3, <1>4, <1>5 DEF IInv

(* sem_post(mutex_consumer) gives the read end back.                       *)
LEMMA UnlockConsumerIInv ==
  ASSUME IInv, UnlockConsumer PROVE IInv'
<1> USE DEF UnlockConsumer, SGoto
<1>1. TypeOK'
  BY DEF IInv, TypeOK, ServerPC
<1>2. ProducerMutex'
  BY ServerFrame DEF IInv, ProducerMutex, ServerAt
<1>3. TokensConserved'
  BY ServerFrame DEF IInv, TokensConserved, Waiting, ServerAt
<1>4. RingHoldsWaiting'
  BY ServerFrame DEF IInv, RingHoldsWaiting, ServerAt
<1> QED
  BY <1>1, <1>2, <1>3, <1>4 DEF IInv

(* sem_post(empty) returns the emptied slot to the clients.                *)
LEMMA PostEmptyIInv ==
  ASSUME IInv, PostEmpty PROVE IInv'
<1> USE DEF PostEmpty, SGoto
<1>1. TypeOK'
  BY DEF IInv, TypeOK, ServerPC
<1>2. ProducerMutex'
  BY ServerFrame DEF IInv, ProducerMutex, ServerAt
<1>3. TokensConserved'
  <2>1. empty \in Nat /\ Cardinality(Reserving) \in Nat /\ Waiting \in Int
    BY CountsAreNat DEF IInv, TypeOK, Waiting
  <2>2. Waiting' = Waiting
    BY DEF Waiting
  <2>3. Cardinality(Filling') = Cardinality(Filling)
        /\ Cardinality(Reserving') = Cardinality(Reserving)
    BY ServerFrame
  <2>4. TokensConserved
    BY DEF IInv
  <2> QED
    BY <2>1, <2>2, <2>3, <2>4, NumItemsPos DEF TokensConserved, ServerAt
<1>4. RingHoldsWaiting'
  BY ServerFrame DEF IInv, RingHoldsWaiting, ServerAt
<1> QED
  BY <1>1, <1>2, <1>3, <1>4 DEF IInv

-----------------------------------------------------------------------------
(* The invariant is preserved by every step.                               *)
LEMMA NextIInv == IInv /\ [Next]_vars => IInv'
<1> SUFFICES ASSUME IInv, [Next]_vars PROVE IInv'
  OBVIOUS
<1>1. ASSUME NEW c \in Clients, sendReqPacket(c) PROVE IInv'
  BY <1>1, WaitEmptyIInv, LockProducerIInv, StoreIInv, AdvanceWrIInv,
     UnlockProducerIInv, PostFullIInv DEF sendReqPacket
<1>2. ASSUME NEW c \in Clients, Kill(c) PROVE IInv'
  BY <1>2, KillIInv
<1>3. CASE getNextReqPacket
  BY <1>3, WaitFullIInv, LockConsumerIInv, LoadIInv, AdvanceRdIInv,
     UnlockConsumerIInv, PostEmptyIInv DEF getNextReqPacket
<1>4. CASE UNCHANGED vars
  BY <1>4 DEF vars, sems, IInv, TypeOK, ProducerMutex, TokensConserved,
     RingHoldsWaiting, Producing, Reserving, Filling, Waiting, ServerAt,
     ClientAdvancing
<1> QED
  BY <1>1, <1>2, <1>3, <1>4 DEF Next

(* In every reachable state of clients, server and ring IInv holds.        *)
THEOREM Invariance == Spec => []IInv
  BY InitIInv, NextIInv, PTL DEF Spec

(* The queue keeps its types: in particular the server and the clients     *)
(* index the ring only inside its shm_num_items slots.                     *)
THEOREM TypeCorrect == Spec => []TypeOK
<1>1. IInv => TypeOK
  BY DEF IInv
<1> QED
  BY <1>1, Invariance, PTL

(* At most one client of any number is at the write end of the ring, and a *)
(* client killed there keeps the others out.                               *)
THEOREM MutualExclusion == Spec => []ProducerMutex
<1>1. IInv => ProducerMutex
  BY DEF IInv
<1> QED
  BY <1>1, Invariance, PTL

(* full and empty always add up with the clients and the server under way. *)
THEOREM TokenConservation == Spec => []TokensConserved
<1>1. IInv => TokensConserved
  BY DEF IInv
<1> QED
  BY <1>1, Invariance, PTL

(* No waiting packet is overwritten or skipped, for every ring size.       *)
THEOREM RingCorrect == Spec => []RingHoldsWaiting
<1>1. IInv => RingHoldsWaiting
  BY DEF IInv
<1> QED
  BY <1>1, Invariance, PTL

-----------------------------------------------------------------------------
(* Refinement: a store is a Send, a load is a Receive, every other step of *)
(* sendReqPacket and getNextReqPacket is invisible to the abstract queue.  *)
LEMMA StepRefines ==
  IInv /\ [Next]_vars => [Fifo!Next]_<<sent, got>>
<1> SUFFICES ASSUME IInv, [Next]_vars
             PROVE  Fifo!Next \/ UNCHANGED <<sent, got>>
  OBVIOUS
<1>1. ASSUME NEW c \in Clients, Store(c) PROVE Fifo!Next
  <2> DEFINE p == <<c, reqSeq[c]>>
  <2>1. c \in Reserving
    BY <1>1 DEF Store, Goto, Reserving
  <2>2. Len(sent) - Len(got) < shm_num_items
    BY <2>1, ReservedSlotIsFree DEF Waiting
  <2>3. p \in Packets
    <3>1. pc[c] = "store"
      BY <1>1 DEF Store, Goto
    <3>2. reqSeq[c] > 0 /\ reqSeq[c] \in 0 .. MaxReqs
      BY <3>1 DEF IInv, TypeOK
    <3>3. reqSeq[c] \in 1 .. MaxReqs
      BY <3>2, BoundsNat
    <3> QED
      BY <3>3 DEF Packets
  <2>4. sent' = Append(sent, p) /\ got' = got
    BY <1>1 DEF Store
  <2> HIDE DEF p
  <2>5. Fifo!Send(p)
    BY <2>2, <2>4 DEF Fifo!Send
  <2> QED
    BY <2>3, <2>5 DEF Fifo!Next
<1>2. CASE Load
  <2>1. spc = "load" /\ got' = Append(got, shared_buffer[pRdIdx]) /\ sent' = sent
    BY <1>2 DEF Load, SGoto
  <2>2. Len(got) < Len(sent) /\ shared_buffer[pRdIdx] = sent[Len(got) + 1]
    BY <2>1, LoadsOldest
  <2>3. Fifo!Receive
    BY <2>1, <2>2 DEF Fifo!Receive
  <2> QED
    BY <2>3 DEF Fifo!Next
<1>3. ASSUME NEW c \in Clients, sendReqPacket(c), ~Store(c)
      PROVE  UNCHANGED <<sent, got>>
  BY <1>3 DEF sendReqPacket, WaitEmpty, LockProducer, AdvanceWr, UnlockProducer, PostFull
<1>4. ASSUME NEW c \in Clients, Kill(c) PROVE UNCHANGED <<sent, got>>
  BY <1>4 DEF Kill
<1>5. ASSUME getNextReqPacket, ~Load PROVE UNCHANGED <<sent, got>>
  BY <1>5 DEF getNextReqPacket, WaitFull, LockConsumer, AdvanceRd, UnlockConsumer, PostEmpty
<1>6. CASE UNCHANGED vars
  BY <1>6 DEF vars
<1> QED
  BY <1>1, <1>2, <1>3, <1>4, <1>5, <1>6 DEF Next

(* The semaphores, indices and ring implement the abstract bounded queue:  *)
(* every packet stored is delivered once and in order, for every number of *)
(* clients and every ring size, with clients killed anywhere.              *)
THEOREM Refinement == Spec => FifoSpec
<1>1. Init => Fifo!Init
  BY DEF Init, Fifo!Init
<1> QED
  BY <1>1, StepRefines, Invariance, PTL DEF Spec, FifoSpec, Fifo!Spec
=============================================================================
