----------------------------- MODULE ReqRoutines -----------------------------
(***************************************************************************)
(* The server behind the request queue: the main loop and dispatchReqPacket*)
(* (issd_server_main.c, reqQueue.c), the map from devices to routines and  *)
(* the routine threads with their work queues (reqPRoutine.c), and the     *)
(* clients' calls of issd_compute that wait for the feedback on a named    *)
(* FIFO (issd_Compute_client.c).  The shared-memory queue in front of it   *)
(* is the abstract one, which ReqQueue implements; what issd_compute does  *)
(* on the server (commands to the device) is one step that may fail.       *)
(***************************************************************************)
EXTENDS Integers, Sequences, FiniteSets, FiniteSetsExt

CONSTANTS Disks,                 \* the disks that files are on
          Parts,                 \* partition numbers; 0 is a disk without partitions
          shm_num_items,         \* capacity of the request queue
          num_process_routine,   \* routine threads, option -d of the server
          MaxReqs,               \* bound: calls of issd_compute
          MaxAlarms,             \* bound: times the map's refresh timer expires
          MaxKills,              \* bound: clients killed while they wait
          MallocMayFail,         \* whether addReqWork2Routine may run out of memory
          Results                \* what the commands to the device may come to

ASSUME RoutinesPos == num_process_routine \in Nat \ {0} /\ shm_num_items \in Nat \ {0}
ASSUME PartsNat == Parts \subseteq Nat
ASSUME BoundsNat == MaxReqs \in Nat /\ MaxAlarms \in Nat /\ MaxKills \in Nat
ASSUME MallocBool == MallocMayFail \in BOOLEAN
ASSUME ResultsBool == Results \subseteq BOOLEAN /\ Results # {}

VARIABLES
  sent, got,       \* the request queue: packets put in and taken out
  client,          \* where each call of issd_compute is
  up,              \* the server process is alive
  dev2thd,         \* the map from devices to routines
  timer_expired, alarms,
  pc,              \* where each server thread is
  idx,             \* routine the main thread found for its packet, -1: none
  reqQueue,        \* work queue of each routine
  pWork,           \* work each routine has dequeued last
  isOk,            \* the feedback each thread is about to write
  asked            \* history: how often the map was refreshed before each lookup

mapVars == <<dev2thd, timer_expired, alarms, asked>>
vars == <<sent, got, client, up, mapVars, pc, idx, reqQueue, pWork, isOk>>

Ids      == 1 .. MaxReqs
Packets  == [id : Ids, disk : Disks, part : Parts]
NoWork   == [id |-> 0]
Routines == 0 .. num_process_routine - 1
Main     == num_process_routine     \* the main thread
Entries  == 0 .. 2 * num_process_routine - 1

Queue == INSTANCE BoundedFifo WITH Capacity <- shm_num_items

ClientPC == {"none", "opening", "reading", "successful", "failed", "killed"}
MainPC   == {"get", "refresh", "clear", "find", "add", "undefined", "open", "write"}
RoutinePC == {"check", "wait", "run", "open", "write"}

rPacket == got[Len(got)]            \* the packet the main thread is dispatching
PacketOf(t) == IF t = Main THEN rPacket ELSE pWork[t]

\* /dev/sdb1 and /dev/sdb become sdb: one trailing digit is cut off, so that of
\* a partition number the tens remain
realDev(p) == <<p.disk, p.part \div 10>>

\* createProcessRoutines, init_dev2Routine
Init ==
  /\ Queue!Init
  /\ client = [i \in Ids |-> "none"]
  /\ up = TRUE
  /\ dev2thd = [e \in Entries |-> [devname |-> <<>>, used |-> FALSE, flag |-> FALSE]]
  /\ timer_expired = FALSE
  /\ alarms = 0
  /\ asked = << >>
  /\ pc = [t \in Routines \cup {Main} |-> IF t = Main THEN "get" ELSE "check"]
  /\ idx = -1
  /\ reqQueue = [r \in Routines |-> << >>]
  /\ pWork = [r \in Routines |-> NoWork]
  /\ isOk = [t \in Routines \cup {Main} |-> FALSE]

-----------------------------------------------------------------------------
(* Clients *)

\* issd_compute: mkfifo, sendReqPacket; the caller then blocks in open(O_RDONLY)
Request(d, p) ==
  /\ Len(sent) < MaxReqs
  /\ Queue!Send([id |-> Len(sent) + 1, disk |-> d, part |-> p])
  /\ client' = [client EXCEPT ![Len(sent) + 1] = "opening"]
  /\ UNCHANGED <<up, mapVars, pc, idx, reqQueue, pWork, isOk>>

\* A client process dies while it waits; its FIFO is never unlinked.
KillClient(i) ==
  /\ client[i] \in {"opening", "reading"}
  /\ Cardinality({j \in Ids : client[j] = "killed"}) < MaxKills
  /\ client' = [client EXCEPT ![i] = "killed"]
  /\ UNCHANGED <<sent, got, up, mapVars, pc, idx, reqQueue, pWork, isOk>>

-----------------------------------------------------------------------------
(* The main thread *)

At(t, place) == up /\ pc[t] = place
Goto(t, place) == pc' = [pc EXCEPT ![t] = place]

GetNext ==                           \* main: getNextReqPacket
  /\ At(Main, "get")
  /\ Queue!Receive
  /\ Goto(Main, "refresh")
  /\ UNCHANGED <<client, up, mapVars, idx, reqQueue, pWork, isOk>>

alarm_handler ==                     \* runs between any two steps of the server
  /\ up
  /\ alarms < MaxAlarms
  /\ alarms' = alarms + 1
  /\ timer_expired' = TRUE
  /\ UNCHANGED <<sent, got, client, up, dev2thd, asked, pc, idx, reqQueue, pWork, isOk>>

\* getProcessRoutineIdx, part one: an expired timer frees the entries that were
\* not looked up since it expired the last time
Refreshes == IF asked = << >> THEN 0 ELSE asked[Len(asked)]
RefreshesNow == Refreshes + IF timer_expired THEN 1 ELSE 0

RefreshAlways ==                     \* a refresh at every request
  /\ At(Main, "refresh")
  /\ dev2thd' = [e \in Entries |-> [dev2thd[e] EXCEPT !.used = @ /\ dev2thd[e].flag,
                                                      !.flag = FALSE]]
  /\ asked' = Append(asked, RefreshesNow)
  /\ Goto(Main, IF timer_expired THEN "clear" ELSE "find")
  /\ UNCHANGED <<sent, got, client, up, timer_expired, alarms, idx, reqQueue, pWork, isOk>>

Refresh ==
  /\ At(Main, "refresh")
  /\ dev2thd' = IF timer_expired
                THEN [e \in Entries |-> [dev2thd[e] EXCEPT !.used = @ /\ dev2thd[e].flag,
                                                           !.flag = FALSE]]
                ELSE dev2thd
  /\ asked' = Append(asked, RefreshesNow)
  /\ Goto(Main, IF timer_expired THEN "clear" ELSE "find")
  /\ UNCHANGED <<sent, got, client, up, timer_expired, alarms, idx, reqQueue, pWork, isOk>>

ClearTimer ==                        \* timer_expired = 0
  /\ At(Main, "clear")
  /\ timer_expired' = FALSE
  /\ Goto(Main, "find")
  /\ UNCHANGED <<sent, got, client, up, dev2thd, alarms, asked, idx, reqQueue, pWork, isOk>>

\* getProcessRoutineIdx, part two: look the device up, or enter it
FoundRecent(dev) ==                  \* a lookup that trusts flag instead of used
  {e \in Entries : dev2thd[e].flag /\ dev2thd[e].devname = dev}

Found(dev) == {e \in Entries : dev2thd[e].used /\ dev2thd[e].devname = dev}
Unused     == {e \in Entries : ~dev2thd[e].used}

FindEntry ==
  LET dev == realDev(rPacket)
      Enter(e) == /\ dev2thd' = [dev2thd EXCEPT ![e] = [devname |-> dev, used |-> TRUE,
                                                        flag |-> TRUE]]
                  /\ idx' = e % num_process_routine
  IN /\ At(Main, "find")
     /\ \/ Found(dev) # {} /\ Enter(Min(Found(dev)))
        \/ Found(dev) = {} /\ Unused # {} /\ Enter(Min(Unused))
        \/ Found(dev) = {} /\ Unused = {} /\ idx' = -1 /\ UNCHANGED dev2thd
     /\ Goto(Main, "add")
     /\ UNCHANGED <<sent, got, client, up, timer_expired, alarms, asked, reqQueue, pWork,
                    isOk>>

AddWorkSilent ==                     \* an append without pthread_cond_signal
  /\ At(Main, "add")
  /\ idx # -1
  /\ reqQueue' = [reqQueue EXCEPT ![idx] = Append(@, rPacket)]
  /\ Goto(Main, "get")
  /\ UNCHANGED <<sent, got, client, up, mapVars, idx, pWork, isOk>>

\* addReqWork2Routine: append under queue_lock and signal queue_ready
AddWork ==
  /\ At(Main, "add")
  /\ idx # -1
  /\ reqQueue' = [reqQueue EXCEPT ![idx] = Append(@, rPacket)]
  /\ pc' = [pc EXCEPT ![Main] = "get", ![idx] = IF @ = "wait" THEN "check" ELSE @]
  /\ UNCHANGED <<sent, got, client, up, mapVars, idx, pWork, isOk>>

\* dispatchReqPacket does not look at idx: addReqWork2Routine locks the mutex of
\* pRoutines[-1], which does not exist, and what happens then is undefined
AddNowhere ==
  /\ At(Main, "add")
  /\ idx = -1
  /\ Goto(Main, "undefined")
  /\ UNCHANGED <<sent, got, client, up, mapVars, idx, reqQueue, pWork, isOk>>

AddFails ==                          \* malloc failed: the main thread answers itself
  /\ MallocMayFail
  /\ At(Main, "add")
  /\ isOk' = [isOk EXCEPT ![Main] = FALSE]
  /\ Goto(Main, "open")
  /\ UNCHANGED <<sent, got, client, up, mapVars, idx, reqQueue, pWork>>

-----------------------------------------------------------------------------
(* The routine threads *)

WaitForWork(r) ==                    \* pthread_cond_wait
  /\ At(r, "check")
  /\ reqQueue[r] = << >>
  /\ Goto(r, "wait")
  /\ UNCHANGED <<sent, got, client, up, mapVars, idx, reqQueue, pWork, isOk>>

SpuriousWakeup(r) ==                 \* which POSIX permits
  /\ At(r, "wait")
  /\ Goto(r, "check")
  /\ UNCHANGED <<sent, got, client, up, mapVars, idx, reqQueue, pWork, isOk>>

TakeWork(r) ==
  /\ At(r, "check")
  /\ reqQueue[r] # << >>
  /\ pWork' = [pWork EXCEPT ![r] = Head(reqQueue[r])]
  /\ reqQueue' = [reqQueue EXCEPT ![r] = Tail(@)]
  /\ Goto(r, "run")
  /\ UNCHANGED <<sent, got, client, up, mapVars, idx, isOk>>

\* issd_compute_routine: the commands to the device may fail; an opType that is
\* neither ISSD_FILECOPY nor ISSD_MERGE leaves ret uninitialised
Compute(r) ==
  /\ At(r, "run")
  /\ \E ok \in Results : isOk' = [isOk EXCEPT ![r] = ok]
  /\ Goto(r, "open")
  /\ UNCHANGED <<sent, got, client, up, mapVars, idx, reqQueue, pWork>>

-----------------------------------------------------------------------------
(* issd_feedback, of the main thread or of a routine *)

\* open(O_WRONLY) blocks until the client has the FIFO open for reading
FeedbackOpen(t) ==
  /\ At(t, "open")
  /\ client[PacketOf(t).id] = "opening"
  /\ client' = [client EXCEPT ![PacketOf(t).id] = "reading"]
  /\ Goto(t, "write")
  /\ UNCHANGED <<sent, got, up, mapVars, idx, reqQueue, pWork, isOk>>

FeedbackWriteSleeps(t) ==            \* a routine that waits before it looks for work
  /\ At(t, "write")
  /\ client[PacketOf(t).id] = "reading"
  /\ client' = [client EXCEPT ![PacketOf(t).id] = IF isOk[t] THEN "successful" ELSE "failed"]
  /\ Goto(t, IF t = Main THEN "get" ELSE "wait")
  /\ UNCHANGED <<sent, got, up, mapVars, idx, reqQueue, pWork, isOk>>

FeedbackWrite(t) ==
  /\ At(t, "write")
  /\ client[PacketOf(t).id] = "reading"
  /\ client' = [client EXCEPT ![PacketOf(t).id] = IF isOk[t] THEN "successful" ELSE "failed"]
  /\ Goto(t, IF t = Main THEN "get" ELSE "check")
  /\ UNCHANGED <<sent, got, up, mapVars, idx, reqQueue, pWork, isOk>>

\* The reader is gone: SIGPIPE, which the server neither handles nor ignores,
\* ends the process, and every client that reads sees the end of its FIFO.
FeedbackSigpipe(t) ==
  /\ At(t, "write")
  /\ client[PacketOf(t).id] = "killed"
  /\ up' = FALSE
  /\ client' = [i \in Ids |-> IF client[i] = "reading" THEN "failed" ELSE client[i]]
  /\ UNCHANGED <<sent, got, mapVars, pc, idx, reqQueue, pWork, isOk>>

issd_feedback(t) == FeedbackOpen(t) \/ FeedbackWrite(t) \/ FeedbackSigpipe(t)

-----------------------------------------------------------------------------
mainThread == \/ GetNext \/ Refresh \/ ClearTimer \/ FindEntry
              \/ AddWork \/ AddNowhere \/ AddFails
              \/ issd_feedback(Main)

thread_routine(r) == WaitForWork(r) \/ TakeWork(r) \/ Compute(r) \/ issd_feedback(r)

Next == \/ \E d \in Disks, p \in Parts : Request(d, p)
        \/ \E i \in Ids : KillClient(i)
        \/ alarm_handler
        \/ mainThread
        \/ \E r \in Routines : thread_routine(r) \/ SpuriousWakeup(r)

Spec == Init /\ [][Next]_vars

(* Server threads that can run do run.  That Compute ends is an assumption *)
(* on the device, which AfTransport examines.                              *)
FairSpec == Spec /\ WF_vars(mainThread)
                 /\ \A r \in Routines : WF_vars(thread_routine(r))
-----------------------------------------------------------------------------
(* Types: every index that dispatchReqPacket uses is a routine, or -1 for none.      *)
TypeOK ==
  /\ sent \in Seq(Packets) /\ got \in Seq(Packets)
  /\ client \in [Ids -> ClientPC]
  /\ up \in BOOLEAN
  /\ dev2thd \in [Entries -> [devname : {<<>>} \cup (Disks \X Nat),
                              used : BOOLEAN, flag : BOOLEAN]]
  /\ timer_expired \in BOOLEAN /\ alarms \in 0 .. MaxAlarms /\ asked \in Seq(Nat)
  /\ pc \in [Routines \cup {Main} -> MainPC \cup RoutinePC]
  /\ pc[Main] \in MainPC /\ \A r \in Routines : pc[r] \in RoutinePC
  /\ idx \in Routines \cup {-1}
  /\ reqQueue \in [Routines -> Seq(Packets)]
  /\ pWork \in [Routines -> Packets \cup {NoWork}]
  /\ isOk \in [Routines \cup {Main} -> BOOLEAN]

(* A device has at most one entry in use, however entries were entered,    *)
(* looked up and freed by the refresh, so a lookup is never ambiguous.     *)
UniqueEntry ==
  \A e, f \in Entries :
    dev2thd[e].used /\ dev2thd[f].used /\ dev2thd[e].devname = dev2thd[f].devname => e = f

(* A routine asleep in pthread_cond_wait has no work: the test of the queue*)
(* and the signal are under the same lock, so no wakeup is lost.           *)
NoLostWakeup == \A r \in Routines : pc[r] = "wait" => reqQueue[r] = << >>

(* As long as no more devices were asked for than the map has entries,     *)
(* dispatchReqPacket has a routine to give the packet to, whatever the     *)
(* refresh has freed meanwhile.                                            *)
RoutineUnlessFull ==
  pc[Main] = "undefined" =>
    Cardinality({realDev(got[i]) : i \in 1 .. Len(got)}) > Cardinality(Entries)

InQueue(i, r) == \E k \in 1 .. Len(reqQueue[r]) : reqQueue[r][k].id = i
Running(i)    == \E r \in Routines : pc[r] = "run" /\ pWork[r].id = i
Dispatching(i) == pc[Main] \notin {"get", "open", "write"} /\ rPacket.id = i
Queued(i)     == Dispatching(i) \/ \E r \in Routines : InQueue(i, r)

InUse(i, r)   == InQueue(i, r) \/ (pc[r] = "run" /\ pWork[r].id = i)
SameDevice(i, j) == realDev(got[i]) = realDev(got[j])

(* The map was refreshed twice after a request for the device of i, before *)
(* the next one for that device, if there was one up to request j.         *)
Lapsed(i, j) ==
  \E k \in i .. j - 1 :
    /\ SameDevice(k, i)
    /\ \A m \in k + 1 .. j : m = j \/ SameDevice(m, i) => asked[m] >= asked[k] + 2

(* A device with work queued or running at a routine keeps its entry, and  *)
(* the entry leads to that routine, whatever is refreshed and entered      *)
(* meanwhile; unless two expiries of the timer were seen between requests  *)
(* for the device, which frees the entry whether its work is done or not.  *)
EntrySurvivesRefresh ==
  \A r \in Routines, i \in Ids :
    InUse(i, r) /\ ~Lapsed(i, Len(asked)) =>
      \E e \in Found(realDev(got[i])) : e % num_process_routine = r

(* The device map never has two entries for a device, leads only to        *)
(* routines, and keeps the entry of a device in use until it has lapsed.   *)
MapSound == TypeOK /\ UniqueEntry /\ EntrySurvivesRefresh

(* Requests for one disk are computed one after the other and in the order *)
(* in which the server received them: when a routine takes one up, no      *)
(* earlier request for the same disk is still queued or running, at any    *)
(* routine, however often the timer expires - but when the disk was not    *)
(* asked for between two refreshes of the map, which then forgets it with  *)
(* its work queued and may lead the next request to another routine.  One  *)
(* digit is cut off a name, so this holds for the partitions of a disk     *)
(* that differ in the last digit, and not for sdb9 and sdb10.              *)
SerialPerDisk ==
  [][\A r \in Routines : TakeWork(r) =>
       \A i \in 1 .. pWork'[r].id - 1 :
         got[i].disk = pWork'[r].disk /\ got[i].part \div 10 = pWork'[r].part \div 10
           => (~Queued(i) /\ ~Running(i)) \/ Lapsed(i, pWork'[r].id)]_vars

\* thread t is blocked in open(O_WRONLY) on the FIFO of a killed client
BlockedByDead(t) == pc[t] = "open" /\ client[PacketOf(t).id] = "killed"

(* Every call of issd_compute returns with the answer of the server: a     *)
(* killed client holds up nobody but the requests queued behind it at its  *)
(* routine, unless the main thread was answering it or SIGPIPE, on the     *)
(* write to a reader that is gone, ended the server.                       *)
EveryRequestAnswered ==
  \A i \in Ids :
    client[i] = "opening" ~>
      \/ client[i] \in {"successful", "failed", "killed"}
      \/ ~up \/ BlockedByDead(Main)
      \/ \E r \in Routines : BlockedByDead(r) /\ InQueue(i, r)
=============================================================================
