------------------------------ MODULE ReqQueue ------------------------------
(***************************************************************************)
(* The request queue in shared memory between the client library           *)
(* (sendReqPacket, PCModule2/client/issd_Compute_client.c) and the server  *)
(* (getNextReqPacket, PCModule2/server/reqQueue.c).  Four process-shared   *)
(* POSIX semaphores guard a ring of shm_num_items request packets and its  *)
(* two indices.  One action is one semaphore operation or one assignment   *)
(* to the shared memory, so every interleaving of client threads and the   *)
(* server is explored, and a client process may be killed between any two. *)
(***************************************************************************)
EXTENDS Integers, Sequences, FiniteSets

CONSTANTS Clients,         \* client threads, of one or of several processes
          shm_num_items,   \* ring size, option -n of the server
          MaxReqs,         \* bound: requests a client sends
          MaxKills         \* bound: client processes that are killed

ASSUME ClientsFinite == IsFiniteSet(Clients)
ASSUME NumItemsPos == shm_num_items \in Nat \ {0}
ASSUME BoundsNat == MaxReqs \in Nat /\ MaxKills \in Nat

VARIABLES
  full, empty, mutex_producer, mutex_consumer,  \* the semaphores' values
  pWrIdx, pRdIdx,                               \* the shared indices
  shared_buffer,                                \* the ring
  pc,        \* where each client is in sendReqPacket
  spc,       \* where the server is in getNextReqPacket
  reqSeq,    \* requests each client has started
  killed,    \* clients whose process was killed
  sent, got  \* history: packets stored and packets loaded, in order

sems == <<full, empty, mutex_producer, mutex_consumer>>
vars == <<sems, pWrIdx, pRdIdx, shared_buffer, pc, spc, reqSeq, killed, sent, got>>

Slots   == 0 .. shm_num_items - 1
Packets == Clients \X (1 .. MaxReqs)   \* a packet is known by its sender and reqSeq
NoPacket == <<>>                       \* content of a slot never written

ClientPC == {"idle", "lock", "store", "advance", "unlock", "notify"}
ServerPC == {"idle", "lock", "load", "advance", "unlock", "notify"}

\* createRQueue: the state the server leaves in the shared memory.
Init ==
  /\ full = 0
  /\ empty = shm_num_items
  /\ mutex_producer = 1
  /\ mutex_consumer = 1
  /\ pWrIdx = 0
  /\ pRdIdx = 0
  /\ shared_buffer = [i \in Slots |-> NoPacket]
  /\ pc = [c \in Clients |-> "idle"]
  /\ spc = "idle"
  /\ reqSeq = [c \in Clients |-> 0]
  /\ killed = {}
  /\ sent = << >>
  /\ got = << >>

-----------------------------------------------------------------------------
(* sendReqPacket *)

Goto(c, from, to) == c \notin killed /\ pc[c] = from /\ pc' = [pc EXCEPT ![c] = to]

WaitEmpty(c) ==        \* sem_wait(empty)
  /\ Goto(c, "idle", "lock")
  /\ reqSeq[c] < MaxReqs
  /\ reqSeq' = [reqSeq EXCEPT ![c] = @ + 1]
  /\ empty > 0
  /\ empty' = empty - 1
  /\ UNCHANGED <<full, mutex_producer, mutex_consumer, pWrIdx, pRdIdx,
                 shared_buffer, spc, killed, sent, got>>

LockProducerUnguarded(c) ==  \* a sem_wait(mutex_producer) that does not block
  /\ Goto(c, "lock", "store")
  /\ mutex_producer' = 0
  /\ UNCHANGED <<full, empty, mutex_consumer, pWrIdx, pRdIdx,
                 shared_buffer, spc, reqSeq, killed, sent, got>>

LockProducer(c) ==     \* sem_wait(mutex_producer)
  /\ Goto(c, "lock", "store")
  /\ mutex_producer > 0
  /\ mutex_producer' = mutex_producer - 1
  /\ UNCHANGED <<full, empty, mutex_consumer, pWrIdx, pRdIdx,
                 shared_buffer, spc, reqSeq, killed, sent, got>>

Store(c) ==            \* shared_buffer[*pWrIdx] = *rPacket
  /\ Goto(c, "store", "advance")
  /\ shared_buffer' = [shared_buffer EXCEPT ![pWrIdx] = <<c, reqSeq[c]>>]
  /\ sent' = Append(sent, <<c, reqSeq[c]>>)
  /\ UNCHANGED <<sems, pWrIdx, pRdIdx, spc, reqSeq, killed, got>>

AdvanceWrClamped(c) ==  \* an advance that wraps one slot late
  /\ Goto(c, "advance", "unlock")
  /\ pWrIdx' = IF pWrIdx + 1 > shm_num_items - 1 THEN 1 % shm_num_items ELSE pWrIdx + 1
  /\ UNCHANGED <<sems, pRdIdx, shared_buffer, spc, reqSeq, killed, sent, got>>

AdvanceWrUnwrapped(c) ==  \* an advance without the modulo
  /\ Goto(c, "advance", "unlock")
  /\ pWrIdx' = pWrIdx + 1
  /\ UNCHANGED <<sems, pRdIdx, shared_buffer, spc, reqSeq, killed, sent, got>>

AdvanceWr(c) ==        \* *pWrIdx = (*pWrIdx + 1) % shm_num_items
  /\ Goto(c, "advance", "unlock")
  /\ pWrIdx' = (pWrIdx + 1) % shm_num_items
  /\ UNCHANGED <<sems, pRdIdx, shared_buffer, spc, reqSeq, killed, sent, got>>

UnlockProducer(c) ==   \* sem_post(mutex_producer)
  /\ Goto(c, "unlock", "notify")
  /\ mutex_producer' = mutex_producer + 1
  /\ UNCHANGED <<full, empty, mutex_consumer, pWrIdx, pRdIdx,
                 shared_buffer, spc, reqSeq, killed, sent, got>>

PostFullForgotten(c) ==  \* a sendReqPacket without its last sem_post
  /\ Goto(c, "notify", "idle")
  /\ UNCHANGED <<sems, pWrIdx, pRdIdx,
                 shared_buffer, spc, reqSeq, killed, sent, got>>

PostFull(c) ==         \* sem_post(full)
  /\ Goto(c, "notify", "idle")
  /\ full' = full + 1
  /\ UNCHANGED <<empty, mutex_producer, mutex_consumer, pWrIdx, pRdIdx,
                 shared_buffer, spc, reqSeq, killed, sent, got>>

(* The process of a client is killed: its step in sendReqPacket is never   *)
(* completed.  POSIX semaphores are not robust, so nothing is undone.      *)
Kill(c) ==
  /\ c \notin killed
  /\ Cardinality(killed) < MaxKills
  /\ killed' = killed \cup {c}
  /\ UNCHANGED <<sems, pWrIdx, pRdIdx, shared_buffer, pc, spc, reqSeq, sent, got>>

-----------------------------------------------------------------------------
(* getNextReqPacket *)

SGoto(from, to) == spc = from /\ spc' = to

WaitFull ==            \* sem_wait(full)
  /\ SGoto("idle", "lock")
  /\ full > 0
  /\ full' = full - 1
  /\ UNCHANGED <<empty, mutex_producer, mutex_consumer, pWrIdx, pRdIdx,
                 shared_buffer, pc, reqSeq, killed, sent, got>>

LockConsumer ==        \* sem_wait(mutex_consumer)
  /\ SGoto("lock", "load")
  /\ mutex_consumer > 0
  /\ mutex_consumer' = mutex_consumer - 1
  /\ UNCHANGED <<full, empty, mutex_producer, pWrIdx, pRdIdx,
                 shared_buffer, pc, reqSeq, killed, sent, got>>

Load ==                \* *rPacket = shared_buffer[*pRdIdx]
  /\ SGoto("load", "advance")
  /\ got' = Append(got, shared_buffer[pRdIdx])
  /\ UNCHANGED <<sems, pWrIdx, pRdIdx, shared_buffer, pc, reqSeq, killed, sent>>

AdvanceRd ==           \* *pRdIdx = (*pRdIdx + 1) % shm_num_items
  /\ SGoto("advance", "unlock")
  /\ pRdIdx' = (pRdIdx + 1) % shm_num_items
  /\ UNCHANGED <<sems, pWrIdx, shared_buffer, pc, reqSeq, killed, sent, got>>

UnlockConsumer ==      \* sem_post(mutex_consumer)
  /\ SGoto("unlock", "notify")
  /\ mutex_consumer' = mutex_consumer + 1
  /\ UNCHANGED <<full, empty, mutex_producer, pWrIdx, pRdIdx,
                 shared_buffer, pc, reqSeq, killed, sent, got>>

PostEmpty ==           \* sem_post(empty)
  /\ SGoto("notify", "idle")
  /\ empty' = empty + 1
  /\ UNCHANGED <<full, mutex_producer, mutex_consumer, pWrIdx, pRdIdx,
                 shared_buffer, pc, reqSeq, killed, sent, got>>

-----------------------------------------------------------------------------
sendReqPacket(c) == \/ WaitEmpty(c) \/ LockProducer(c) \/ Store(c)
                    \/ AdvanceWr(c) \/ UnlockProducer(c) \/ PostFull(c)

getNextReqPacket == \/ WaitFull \/ LockConsumer \/ Load
                    \/ AdvanceRd \/ UnlockConsumer \/ PostEmpty

Next == (\E c \in Clients : sendReqPacket(c) \/ Kill(c)) \/ getNextReqPacket

Spec == Init /\ [][Next]_vars

(* Every thread keeps running, a client that has something to send and is  *)
(* not killed included: the scheduler runs every runnable thread, and a    *)
(* thread waiting on a semaphore that stays positive is released.          *)
FairSpec == Spec /\ WF_vars(getNextReqPacket)
                 /\ \A c \in Clients : WF_vars(sendReqPacket(c))
-----------------------------------------------------------------------------
(* Types: the indices stay inside the ring, and no semaphore is negative.  *)
TypeOK ==
  /\ full \in Nat /\ empty \in Nat
  /\ mutex_producer \in Nat /\ mutex_consumer \in Nat
  /\ pWrIdx \in Slots /\ pRdIdx \in Slots
  /\ shared_buffer \in [Slots -> Packets \cup {NoPacket}]
  /\ pc \in [Clients -> ClientPC]
  /\ spc \in ServerPC
  /\ reqSeq \in [Clients -> 0 .. MaxReqs]
  /\ \A c \in Clients : pc[c] # "idle" => reqSeq[c] > 0
  /\ killed \in SUBSET Clients
  /\ sent \in Seq(Packets) /\ got \in Seq(Packets \cup {NoPacket})

Waiting == Len(sent) - Len(got)   \* packets stored and not yet loaded

\* clients between sem_wait(empty) and their store, and between it and sem_post(full)
Reserving == {c \in Clients : pc[c] \in {"lock", "store"}}
Filling   == {c \in Clients : pc[c] \in {"advance", "unlock", "notify"}}
Producing == {c \in Clients : pc[c] \in {"store", "advance", "unlock"}}

\* 1 while the server is in one of the given places of getNextReqPacket
ServerAt(places) == IF spc \in places THEN 1 ELSE 0
ClientAdvancing == IF \E c \in Clients : pc[c] = "advance" THEN 1 ELSE 0

(* mutex_producer is held by exactly one thread between its sem_wait and   *)
(* its sem_post, so no two clients touch the write end of the ring, even   *)
(* when one of them was killed while holding it.                           *)
ProducerMutex ==
  /\ mutex_producer = (IF Producing = {} THEN 1 ELSE 0)
  /\ \A c, d \in Producing : c = d
  /\ mutex_consumer = 1 - ServerAt({"load", "advance", "unlock"})

(* The tokens of the two counting semaphores are never lost or doubled:    *)
(* every slot is free, reserved, filled or being given back.               *)
TokensConserved ==
  /\ Waiting = full + Cardinality(Filling) + ServerAt({"lock", "load"})
  /\ empty + Cardinality(Reserving) + Waiting
       + ServerAt({"advance", "unlock", "notify"}) = shm_num_items

(* The indices and the ring hold exactly the packets that wait: nothing a  *)
(* client stored is overwritten before the server has loaded it, and the   *)
(* server loads only what was stored.                                      *)
RingHoldsWaiting ==
  /\ Len(got) <= Len(sent)
  /\ pWrIdx = (Len(sent) - ClientAdvancing) % shm_num_items
  /\ pRdIdx = (Len(got) - ServerAt({"advance"})) % shm_num_items
  /\ \A k \in 1 .. Len(sent) :
       k > Len(got) => shared_buffer[(k - 1) % shm_num_items] = sent[k]

(* Clients and server see one queue: each packet stored is handed to the   *)
(* server exactly once and in the order of the stores, and never more than *)
(* shm_num_items of them wait.                                             *)
Fifo == INSTANCE BoundedFifo WITH Capacity <- shm_num_items
FifoSpec == Fifo!Spec

(* A packet that a client has stored is eventually loaded by the server,   *)
(* unless a client process was killed inside sendReqPacket: a client that  *)
(* dies anywhere else, or that is not yet holding anything, blocks nobody. *)
EverySendReceived ==
  \A n \in 1 .. Cardinality(Clients) * MaxReqs :
    Len(sent) >= n ~> Len(got) >= n \/ \E c \in killed : pc[c] # "idle"
=============================================================================
