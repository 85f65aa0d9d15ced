----------------------------- MODULE BoundedFifo -----------------------------
(***************************************************************************)
(* What the shared-memory request queue of the iSSD host side promises,    *)
(* without semaphores, indices or a ring buffer: every packet that was     *)
(* sent is received exactly once, in the order of the sends, and at most   *)
(* Capacity packets wait at a time.  ReqQueue implements this module.      *)
(***************************************************************************)
EXTENDS Integers, Sequences

CONSTANTS Packets,   \* what a client may put into the queue
          Capacity   \* number of items the shared memory has room for

VARIABLES sent,      \* all packets ever put into the queue, in order
          got        \* all packets ever taken from it, in order

Init == /\ sent = << >>
        /\ got = << >>

Send(p) == /\ Len(sent) - Len(got) < Capacity
           /\ sent' = Append(sent, p)
           /\ UNCHANGED got

Receive == /\ Len(got) < Len(sent)
           /\ got' = Append(got, sent[Len(got) + 1])
           /\ UNCHANGED sent

Next == (\E p \in Packets : Send(p)) \/ Receive

Spec == Init /\ [][Next]_<<sent, got>>
=============================================================================
