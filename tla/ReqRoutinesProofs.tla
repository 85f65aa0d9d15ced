-------------------------- MODULE ReqRoutinesProofs --------------------------
(***************************************************************************)
(* Proofs about ReqRoutines for every set of disks and partitions, every   *)
(* number of routines, every capacity of the request queue and every       *)
(* number of requests, kills and expiries of the timer.                    *)
(***************************************************************************)
EXTENDS ReqRoutines, NumberLemmas, FiniteSetTheorems, SequenceTheorems, TLAPS

-----------------------------------------------------------------------------
(* The inductive invariant *)

(* The requests are numbered in the order of the calls, and the server     *)
(* receives them in that order.                                            *)
Numbered ==
  /\ Len(got) <= Len(sent) /\ Len(sent) <= MaxReqs
  /\ \A i \in 1 .. Len(sent) : sent[i].id = i
  /\ \A i \in 1 .. Len(got) : got[i] = sent[i]
  /\ pc[Main] # "get" => Len(got) > 0

Received(w) == w.id \in 1 .. Len(got) /\ got[w.id] = w

Holding(r) == pc[r] \in {"run", "open", "write"}
DispatchUnderWay == pc[Main] \in {"refresh", "clear", "find", "add", "undefined"}

(* What is queued or computed was received, each routine's queue is in the *)
(* order of arrival, and the request under dispatch is newer than all.     *)
WorkInOrder ==
  \A r \in Routines :
    /\ \A k \in 1 .. Len(reqQueue[r]) :
         /\ Received(reqQueue[r][k])
         /\ DispatchUnderWay => reqQueue[r][k].id < Len(got)
         /\ \A l \in 1 .. k - 1 : reqQueue[r][l].id < reqQueue[r][k].id
    /\ Holding(r) => Received(pWork[r])
    /\ Holding(r) /\ DispatchUnderWay => pWork[r].id < Len(got)

DevicesAsked == {realDev(got[i]) : i \in 1 .. Len(got)}

(* The entries in use are of different devices that were asked for, and    *)
(* the index found for a packet is that of the flagged entry of its device.*)
MapOfAsked ==
  /\ UniqueEntry
  /\ \A e \in Entries : dev2thd[e].used => dev2thd[e].devname \in DevicesAsked
  /\ pc[Main] = "add" /\ idx # -1 =>
       \E e \in Found(realDev(rPacket)) : e % num_process_routine = idx /\ dev2thd[e].flag
  /\ (pc[Main] = "add" /\ idx = -1) \/ pc[Main] = "undefined" =>
       Cardinality(DevicesAsked) > Cardinality(Entries)

(* The map was refreshed no less often before a later lookup, and the      *)
(* refreshes before that of the request under dispatch are counted when    *)
(* part one of its lookup is done.                                         *)
AskedInOrder ==
  /\ Len(asked) = IF pc[Main] = "refresh" THEN Len(got) - 1 ELSE Len(got)
  /\ \A n \in 1 .. Len(asked) : \A m \in 1 .. n : asked[m] <= asked[n]

LookedUp == IF pc[Main] \in {"clear", "find"} THEN Len(asked) - 1 ELSE Len(asked)

\* the device of i was looked up after the last refresh of the map
Fresh(i) == \E k \in i .. LookedUp : SameDevice(k, i) /\ asked[k] = asked[Len(asked)]

(* A device with work at a routine has lapsed or still has the entry that  *)
(* leads there, and a lookup since the last refresh has left it flagged.   *)
EntryKept ==
  \A r \in Routines, i \in Ids :
    InUse(i, r) =>
      \/ Lapsed(i, Len(asked))
      \/ \E e \in Found(realDev(got[i])) :
           e % num_process_routine = r /\ (Fresh(i) => dev2thd[e].flag)

(* Work queued for a device is at the routine that has the earlier work of *)
(* the device, unless the device lapsed between the two requests.          *)
Together ==
  \A r, q \in Routines, i, j \in Ids :
    InQueue(j, r) /\ InUse(i, q) /\ i < j /\ SameDevice(i, j) => q = r \/ Lapsed(i, j)

IInv == /\ TypeOK /\ NoLostWakeup /\ Numbered /\ WorkInOrder
        /\ MapOfAsked /\ AskedInOrder /\ EntryKept /\ Together

-----------------------------------------------------------------------------
(* Numbers and sets *)

(* Min is an element of its set.                                           *)
LEMMA MinInSet ==
  ASSUME NEW S \in SUBSET Nat, S # {}
  PROVE  Min(S) \in S
BY LeastNat DEF Min

(* The main thread is no routine, and no routine has the index -1.         *)
LEMMA MainApart == Main \notin Routines /\ -1 \notin Routines
BY RoutinesPos DEF Main, Routines

(* Every entry of the map leads to a routine.                              *)
LEMMA EntryLeadsToRoutine ==
  ASSUME NEW e \in Entries PROVE e % num_process_routine \in Routines
BY DivMod, RoutinesPos DEF Entries, Routines

-----------------------------------------------------------------------------
(* Requests and refreshes *)

\* A step that takes back no request and no refresh ...
Grows ==
  /\ Len(got) <= Len(got') /\ \A m \in 1 .. Len(got) : got'[m] = got[m]
  /\ Len(asked) <= Len(asked') /\ \A m \in 1 .. Len(asked) : asked'[m] = asked[m]

\* ... and gives no routine new work
NoNewWork ==
  \A r \in Routines, i \in Ids :
    (InQueue(i, r)' => InQueue(i, r)) /\ (InUse(i, r)' => InUse(i, r))

(* Work at a routine was looked up before.                                 *)
LEMMA WorkLookedUp ==
  ASSUME IInv
  PROVE  /\ Len(got) \in Nat /\ Len(asked) \in Nat /\ LookedUp \in Int
         /\ LookedUp <= Len(asked) /\ Len(asked) <= Len(got)
         /\ \A m \in 1 .. Len(asked) : asked[m] \in Nat
         /\ \A r \in Routines, i \in Ids : InUse(i, r) => i \in 1 .. LookedUp
<1>1. Len(got) \in Nat /\ Len(asked) \in Nat /\ \A m \in 1 .. Len(asked) : asked[m] \in Nat
  BY DEF IInv, TypeOK
<1>2. LookedUp \in Int /\ LookedUp <= Len(asked) /\ Len(asked) <= Len(got)
  BY <1>1 DEF LookedUp, IInv, AskedInOrder
<1>3. ASSUME NEW r \in Routines, NEW i \in Ids, InUse(i, r) PROVE i \in 1 .. LookedUp
  <2>1. i \in 1 .. Len(got) /\ (DispatchUnderWay => i < Len(got))
    BY <1>3 DEF InUse, InQueue, IInv, WorkInOrder, Received, Holding
  <2>2. pc[Main] \in {"refresh", "clear", "find"} => DispatchUnderWay
    BY DEF DispatchUnderWay
  <2> QED
    BY <1>1, <2>1, <2>2 DEF LookedUp, IInv, AskedInOrder
<1> QED
  BY <1>1, <1>2, <1>3

(* What was said of earlier requests stays true.                           *)
LEMMA PastStays ==
  ASSUME IInv, Grows, NEW i \in 1 .. Len(asked), NEW j \in 1 .. Len(asked)
  PROVE  (SameDevice(i, j)' <=> SameDevice(i, j)) /\ (Lapsed(i, j)' <=> Lapsed(i, j))
<1>1. \A k, l \in 1 .. Len(asked) : SameDevice(k, l)' <=> SameDevice(k, l)
  BY WorkLookedUp DEF Grows, SameDevice, realDev
<1>2. Lapsed(i, j)' <=> Lapsed(i, j)
  <2> DEFINE Gap(k) == \A m \in k + 1 .. j : m = j \/ SameDevice(m, i) => asked[m] >= asked[k] + 2
  <2>1. Len(asked) \in Nat /\ \A m \in 1 .. Len(asked) : asked'[m] = asked[m]
    BY WorkLookedUp DEF Grows
  <2>2. ASSUME NEW k \in i .. j - 1 PROVE Gap(k)' <=> Gap(k)
    <3>1. k \in 1 .. Len(asked) /\ \A m \in k + 1 .. j : m \in 1 .. Len(asked)
      BY <2>1
    <3>2. \A m \in k + 1 .. j : SameDevice(m, i)' <=> SameDevice(m, i)
      BY <1>1, <3>1
    <3>3. \A m \in k + 1 .. j : asked'[m] = asked[m] /\ asked'[k] = asked[k]
      BY <2>1, <3>1
    <3> HIDE DEF SameDevice
    <3> QED
      BY <3>2, <3>3
  <2>3. \A k \in i .. j - 1 : k \in 1 .. Len(asked)
    BY <2>1
  <2>4. Lapsed(i, j) <=> \E k \in i .. j - 1 : SameDevice(k, i) /\ Gap(k)
    BY DEF Lapsed
  <2>5. Lapsed(i, j)' <=> \E k \in i .. j - 1 : SameDevice(k, i)' /\ Gap(k)'
    BY DEF Lapsed
  <2> HIDE DEF Gap
  <2> QED
    BY <1>1, <2>2, <2>3, <2>4, <2>5
<1> QED
  BY <1>1, <1>2

(* A device that has lapsed stays so.                                      *)
LEMMA LapsedStays ==
  ASSUME IInv, Grows, AskedInOrder',
         Len(asked') \in Nat, \A m \in 1 .. Len(asked') : asked'[m] \in Nat,
         NEW i \in 1 .. Len(asked), Lapsed(i, Len(asked))
  PROVE  Lapsed(i, Len(asked))'
<1>1. /\ Len(asked) \in Nat /\ Len(asked) \in 1 .. Len(asked)
      /\ \A m \in 1 .. Len(asked) : asked[m] \in Nat
  BY WorkLookedUp
<1>2. \A k, l \in 1 .. Len(asked) : SameDevice(k, l)' <=> SameDevice(k, l)
  BY PastStays
<1>3. PICK k \in i .. Len(asked) - 1 :
        /\ SameDevice(k, i)
        /\ \A m \in k + 1 .. Len(asked) :
             m = Len(asked) \/ SameDevice(m, i) => asked[m] >= asked[k] + 2
  BY DEF Lapsed
<1>4. k \in i .. Len(asked') - 1 /\ SameDevice(k, i)' /\ asked'[k] = asked[k]
  BY <1>1, <1>2, <1>3 DEF Grows
<1>5. asked'[Len(asked)] >= asked'[k] + 2
  <2>1. asked[Len(asked)] >= asked[k] + 2
    BY <1>1, <1>3
  <2>2. asked'[Len(asked)] = asked[Len(asked)]
    BY <1>1 DEF Grows
  <2> QED
    BY <1>4, <2>1, <2>2
<1>6. ASSUME NEW m \in k + 1 .. Len(asked'), m = Len(asked') \/ SameDevice(m, i)'
      PROVE  asked'[m] >= asked'[k] + 2
  <2>1. CASE m <= Len(asked) /\ m # Len(asked')
    BY <1>1, <1>2, <1>3, <1>4, <1>6, <2>1 DEF Grows
  <2>2. CASE m >= Len(asked)
    <3>1. asked'[Len(asked)] <= asked'[m]
      BY <1>1, <2>2 DEF AskedInOrder
    <3>2. /\ asked'[Len(asked)] \in Nat /\ asked'[m] \in Nat /\ asked'[k] \in Nat
      BY <1>1, <1>4, <2>2 DEF Grows
    <3> QED
      BY <1>5, <3>1, <3>2
  <2> QED
    BY <1>1, <2>1, <2>2 DEF Grows
<1> QED
  BY <1>4, <1>6 DEF Lapsed

(* A step that gives no routine new work keeps together what is.           *)
LEMMA TogetherStays ==
  ASSUME IInv, Grows, NoNewWork PROVE Together'
<1> SUFFICES ASSUME NEW r \in Routines, NEW q \in Routines, NEW i \in Ids, NEW j \in Ids,
                    InQueue(j, r)', InUse(i, q)', i < j, SameDevice(i, j)'
             PROVE  q = r \/ Lapsed(i, j)'
  BY DEF Together
<1>1. InQueue(j, r) /\ InUse(i, q) /\ InUse(j, r)
  BY DEF NoNewWork, InUse
<1>2. i \in 1 .. Len(asked) /\ j \in 1 .. Len(asked)
  BY <1>1, WorkLookedUp
<1> QED
  BY <1>1, <1>2, PastStays DEF IInv, Together

(* A step that changes neither the map nor its history keeps the entries.  *)
LEMMA MapUntouched ==
  ASSUME IInv, Grows, NoNewWork, dev2thd' = dev2thd, asked' = asked, LookedUp' = LookedUp
  PROVE  EntryKept' /\ Together'
<1>1. Together'
  BY TogetherStays
<1>2. EntryKept'
  <2> SUFFICES ASSUME NEW r \in Routines, NEW i \in Ids, InUse(i, r)', ~Lapsed(i, Len(asked))'
               PROVE  \E e \in Found(realDev(got[i]))' :
                        e % num_process_routine = r /\ (Fresh(i)' => dev2thd'[e].flag)
    BY DEF EntryKept
  <2>1. /\ InUse(i, r) /\ i \in 1 .. LookedUp /\ Len(asked) \in Nat /\ LookedUp \in Int
        /\ LookedUp <= Len(asked) /\ Len(asked) <= Len(got)
    BY WorkLookedUp DEF NoNewWork
  <2>2. /\ \A k \in 1 .. Len(asked) : SameDevice(k, i)' <=> SameDevice(k, i)
        /\ ~Lapsed(i, Len(asked))
    BY <2>1, PastStays
  <2>3. Fresh(i)' <=> Fresh(i)
    BY <2>1, <2>2 DEF Fresh
  <2>4. Found(realDev(got[i]))' = Found(realDev(got[i]))
    BY <2>1 DEF Found, realDev, Grows
  <2> QED
    BY <2>1, <2>2, <2>3, <2>4 DEF IInv, EntryKept
<1> QED
  BY <1>1, <1>2

-----------------------------------------------------------------------------
(* What the larger steps do *)

(* The two fields of an entry that the refresh writes.                     *)
LEMMA FreedEntry ==
  ASSUME NEW D, NEW x \in [devname : D, used : BOOLEAN, flag : BOOLEAN], NEW u \in BOOLEAN
  PROVE  LET y == [x EXCEPT !.used = u, !.flag = FALSE]
         IN  /\ y \in [devname : D, used : BOOLEAN, flag : BOOLEAN]
             /\ y.devname = x.devname /\ y.used = u /\ y.flag = FALSE
OBVIOUS

(* The refresh forgets no name and frees no entry that has been looked up  *)
(* since the last one; without an expiry it changes nothing.               *)
LEMMA RefreshFacts ==
  ASSUME IInv, Refresh
  PROVE  /\ dev2thd' \in [Entries -> [devname : {<<>>} \cup (Disks \X Nat),
                                      used : BOOLEAN, flag : BOOLEAN]]
         /\ \A e \in Entries : /\ dev2thd'[e].devname = dev2thd[e].devname
                               /\ dev2thd'[e].used => dev2thd[e].used
                               /\ dev2thd[e].used /\ dev2thd[e].flag => dev2thd'[e].used
         /\ ~timer_expired => dev2thd' = dev2thd
<1>1. dev2thd \in [Entries -> [devname : {<<>>} \cup (Disks \X Nat),
                               used : BOOLEAN, flag : BOOLEAN]]
  BY DEF IInv, TypeOK
<1>2. CASE ~timer_expired
  BY <1>1, <1>2 DEF Refresh
<1>3. CASE timer_expired
  <2> DEFINE kept(e) == dev2thd[e].used /\ dev2thd[e].flag
  <2>1. \A e \in Entries : kept(e) \in BOOLEAN /\ (kept(e) => dev2thd[e].used)
    OBVIOUS
  <2>2. dev2thd' = [e \in Entries |-> [dev2thd[e] EXCEPT !.used = kept(e), !.flag = FALSE]]
    BY <1>3 DEF Refresh
  <2> HIDE DEF kept
  <2>3. ASSUME NEW e \in Entries
        PROVE  /\ dev2thd'[e] \in [devname : {<<>>} \cup (Disks \X Nat),
                                   used : BOOLEAN, flag : BOOLEAN]
               /\ dev2thd'[e].devname = dev2thd[e].devname /\ dev2thd'[e].used = kept(e)
    <3> DEFINE y == [dev2thd[e] EXCEPT !.used = kept(e), !.flag = FALSE]
    <3>1. /\ y \in [devname : {<<>>} \cup (Disks \X Nat), used : BOOLEAN, flag : BOOLEAN]
          /\ y.devname = dev2thd[e].devname /\ y.used = kept(e)
      BY <1>1, <2>1, FreedEntry
    <3>2. dev2thd'[e] = y
      BY <2>2
    <3> QED
      BY <3>1, <3>2
  <2>4. \A e \in Entries : dev2thd[e].used /\ dev2thd[e].flag => kept(e)
    BY DEF kept
  <2>5. DOMAIN dev2thd' = Entries /\ dev2thd' = [e \in Entries |-> dev2thd'[e]]
    BY <2>2
  <2> QED
    BY <1>3, <2>1, <2>3, <2>4, <2>5
<1> QED
  BY <1>2, <1>3

(* The refreshes are counted at every lookup, and never fewer than before. *)
LEMMA RefreshCounts ==
  ASSUME IInv, Refresh
  PROVE  /\ Len(asked) \in Nat /\ Len(asked') = Len(asked) + 1
         /\ asked' \in Seq(Nat) /\ RefreshesNow \in Nat
         /\ \A m \in 1 .. Len(asked) : asked'[m] = asked[m] /\ asked[m] \in Nat
         /\ asked'[Len(asked) + 1] = RefreshesNow
         /\ \A m \in 1 .. Len(asked) :
              asked[m] <= RefreshesNow - IF timer_expired THEN 1 ELSE 0
         /\ 0 < Len(asked) =>
              RefreshesNow = asked[Len(asked)] + IF timer_expired THEN 1 ELSE 0
         /\ got' = got /\ LookedUp = Len(asked) /\ LookedUp' = Len(asked)
         /\ Len(asked') = Len(got) /\ pc'[Main] # "refresh"
<1> DEFINE last == asked[Len(asked)]
           now  == RefreshesNow
<1>1. /\ asked \in Seq(Nat) /\ Len(asked) \in Nat
      /\ \A m \in 1 .. Len(asked) : asked[m] \in Nat
  BY WorkLookedUp DEF IInv, TypeOK
<1>2. asked' = Append(asked, now) /\ got' = got
  BY DEF Refresh
<1>3. Refreshes \in Nat /\ (0 < Len(asked) => Refreshes = last)
  BY <1>1 DEF Refreshes
<1>4. \A m \in 1 .. Len(asked) : asked[m] <= Refreshes
  <2> SUFFICES ASSUME NEW m \in 1 .. Len(asked) PROVE asked[m] <= Refreshes
    OBVIOUS
  <2>1. 0 < Len(asked) /\ Len(asked) \in 1 .. Len(asked) /\ m \in 1 .. Len(asked)
    BY <1>1
  <2>2. asked[m] <= last
    BY <2>1 DEF IInv, AskedInOrder
  <2> QED
    BY <1>3, <2>1, <2>2
<1>5. now \in Nat /\ now = Refreshes + IF timer_expired THEN 1 ELSE 0
  BY <1>3 DEF RefreshesNow
<1>6. /\ \A m \in 1 .. Len(asked) : asked[m] <= now - IF timer_expired THEN 1 ELSE 0
      /\ 0 < Len(asked) => now = last + IF timer_expired THEN 1 ELSE 0
  <2> HIDE DEF now, last
  <2> QED
    BY <1>1, <1>3, <1>4, <1>5
<1>7. /\ asked' \in Seq(Nat) /\ Len(asked') = Len(asked) + 1
      /\ \A m \in 1 .. Len(asked) : asked'[m] = asked[m]
      /\ asked'[Len(asked) + 1] = now
  <2> HIDE DEF now
  <2> QED
    BY <1>1, <1>2, <1>5, AppendProperties
<1>8. pc[Main] = "refresh" /\ pc'[Main] \in {"clear", "find"}
  BY DEF IInv, TypeOK, Refresh, At, Goto
<1>9. Len(asked) = Len(got) - 1
  BY <1>8 DEF IInv, AskedInOrder
<1>10. LookedUp = Len(asked) /\ LookedUp' = Len(asked)
  BY <1>1, <1>7, <1>8 DEF LookedUp
<1>11. Len(asked') = Len(got) /\ pc'[Main] # "refresh"
  BY <1>7, <1>8, <1>9, WorkLookedUp
<1> QED
  BY <1>1, <1>2, <1>5, <1>6, <1>7, <1>10, <1>11

(* Entry e is entered, or looked up, for the device.                       *)
Enters(dev, e) ==
  /\ e \in Entries
  /\ dev2thd' = [dev2thd EXCEPT ![e] = [devname |-> dev, used |-> TRUE, flag |-> TRUE]]
  /\ idx' = e % num_process_routine
  /\ idx' \in Routines

(* A lookup finds the entry of the device, takes an unused one, or finds   *)
(* the map full of other devices.                                          *)
LEMMA FindFacts ==
  ASSUME IInv, FindEntry
  PROVE  LET dev == realDev(rPacket)
         IN  /\ dev \in Disks \X Nat /\ dev \in DevicesAsked
             /\ \/ \E e \in Found(dev) : Enters(dev, e)
                \/ Found(dev) = {} /\ \E e \in Unused : Enters(dev, e)
                \/ Found(dev) = {} /\ Unused = {} /\ idx' = -1 /\ dev2thd' = dev2thd
<1> DEFINE dev == realDev(rPacket)
<1>1. got \in Seq(Packets) /\ Len(got) \in Nat /\ Len(got) > 0
  BY DEF IInv, TypeOK, Numbered, FindEntry, At
<1>2. rPacket \in Packets /\ dev \in DevicesAsked
  BY <1>1 DEF rPacket, DevicesAsked
<1>3. dev \in Disks \X Nat
  <2>1. rPacket.part \div 10 \in Nat
    <3>1. rPacket.part \in Nat
      BY <1>2, PartsNat DEF Packets
    <3> QED
      BY <3>1
  <2> QED
    BY <1>2, <2>1 DEF realDev, Packets
<1>4. Found(dev) \in SUBSET Nat /\ Unused \in SUBSET Nat
  BY RoutinesPos DEF Found, Unused, Entries
<1>5. /\ Found(dev) # {} => Min(Found(dev)) \in Found(dev)
      /\ Unused # {} => Min(Unused) \in Unused
  BY <1>4, MinInSet
<1>6. Found(dev) \subseteq Entries /\ Unused \subseteq Entries
  BY DEF Found, Unused
<1> DEFINE Entered(e) ==
             /\ dev2thd' = [dev2thd EXCEPT ![e] = [devname |-> dev, used |-> TRUE, flag |-> TRUE]]
             /\ idx' = e % num_process_routine
<1>7. \/ Found(dev) # {} /\ Entered(Min(Found(dev)))
      \/ Found(dev) = {} /\ Unused # {} /\ Entered(Min(Unused))
      \/ Found(dev) = {} /\ Unused = {} /\ idx' = -1 /\ dev2thd' = dev2thd
  BY DEF FindEntry
<1>8. ASSUME NEW e \in Entries, Entered(e) PROVE Enters(dev, e)
  BY <1>8, EntryLeadsToRoutine DEF Enters
<1> HIDE DEF dev, Entered
<1>9. \/ \E e \in Found(dev) : Enters(dev, e)
      \/ Found(dev) = {} /\ \E e \in Unused : Enters(dev, e)
      \/ Found(dev) = {} /\ Unused = {} /\ idx' = -1 /\ dev2thd' = dev2thd
  BY <1>5, <1>6, <1>7, <1>8
<1> QED
  BY <1>2, <1>3, <1>9 DEF dev

(* Entering a device changes no entry of another.                          *)
LEMMA EntersFacts ==
  ASSUME IInv, NEW dev \in Disks \X Nat, NEW e, Enters(dev, e)
  PROVE  /\ dev2thd' \in [Entries -> [devname : {<<>>} \cup (Disks \X Nat),
                                      used : BOOLEAN, flag : BOOLEAN]]
         /\ dev2thd'[e] = [devname |-> dev, used |-> TRUE, flag |-> TRUE]
         /\ \A f \in Entries \ {e} : dev2thd'[f] = dev2thd[f]
BY DEF IInv, TypeOK, Enters

(* When every entry is of a different device other than dev, more devices  *)
(* were asked for than there are entries.                                  *)
LEMMA DevicesOutnumber ==
  ASSUME IInv, NEW dev \in DevicesAsked,
         \A e \in Entries : dev2thd[e].used /\ dev2thd[e].devname \in DevicesAsked \ {dev}
  PROVE  Cardinality(DevicesAsked) > Cardinality(Entries)
<1> DEFINE f == [i \in 1 .. Len(got) |-> realDev(got[i])]
           g == [e \in Entries |-> dev2thd[e].devname]
<1>1. IsFiniteSet(DevicesAsked)
  <2>1. Len(got) \in Nat
    BY DEF IInv, TypeOK
  <2>2. IsFiniteSet(1 .. Len(got))
    BY <2>1, FS_Interval
  <2>3. f \in Surjection(1 .. Len(got), DevicesAsked)
    BY DEF Surjection, DevicesAsked
  <2> QED
    BY <2>2, <2>3, FS_Surjection
<1>2. /\ IsFiniteSet(DevicesAsked \ {dev})
      /\ Cardinality(DevicesAsked \ {dev}) = Cardinality(DevicesAsked) - 1
  BY <1>1, FS_RemoveElement
<1>3. g \in Injection(Entries, DevicesAsked \ {dev})
  BY DEF Injection, IsInjective, IInv, MapOfAsked, UniqueEntry
<1>4. Cardinality(Entries) <= Cardinality(DevicesAsked \ {dev})
  BY <1>2, <1>3, FS_Injection
<1>5. Cardinality(DevicesAsked) \in Nat /\ Cardinality(Entries) \in Nat
  <2>1. IsFiniteSet(Entries)
    BY <1>2, <1>3, FS_Injection
  <2> QED
    BY <1>1, <2>1, FS_CardinalityType
<1> QED
  BY <1>2, <1>4, <1>5

(* addReqWork2Routine appends the request under dispatch to the queue of   *)
(* the routine that was found, and wakes that routine if it sleeps.        *)
LEMMA AddWorkFacts ==
  ASSUME IInv, AddWork
  PROVE  /\ idx \in Routines /\ rPacket \in Packets
         /\ Received(rPacket) /\ rPacket.id = Len(got) /\ Len(got) \in Nat /\ got' = got
         /\ reqQueue' \in [Routines -> Seq(Packets)]
         /\ \A r \in Routines \ {idx} : reqQueue'[r] = reqQueue[r]
         /\ Len(reqQueue[idx]) \in Nat /\ Len(reqQueue'[idx]) = Len(reqQueue[idx]) + 1
         /\ \A k \in 1 .. Len(reqQueue[idx]) : reqQueue'[idx][k] = reqQueue[idx][k]
         /\ reqQueue'[idx][Len(reqQueue[idx]) + 1] = rPacket
         /\ pc'[Main] = "get" /\ DispatchUnderWay
         /\ \A r \in Routines : Holding(r)' => Holding(r) /\ pc'[r] = pc[r]
         /\ \E e \in Found(realDev(rPacket)) : e % num_process_routine = idx /\ dev2thd[e].flag
<1>1. idx \in Routines /\ DispatchUnderWay /\ Len(got) \in Nat /\ Len(got) > 0
  BY DEF IInv, TypeOK, Numbered, AddWork, At, DispatchUnderWay
<1>2. rPacket \in Packets /\ Received(rPacket) /\ rPacket.id = Len(got) /\ got' = got
  BY <1>1 DEF IInv, TypeOK, Numbered, AddWork, rPacket, Received
<1>3. reqQueue \in [Routines -> Seq(Packets)] /\ reqQueue[idx] \in Seq(Packets)
  BY <1>1 DEF IInv, TypeOK
<1>4. /\ Append(reqQueue[idx], rPacket) \in Seq(Packets)
      /\ Len(Append(reqQueue[idx], rPacket)) = Len(reqQueue[idx]) + 1
      /\ \A k \in 1 .. Len(reqQueue[idx]) : Append(reqQueue[idx], rPacket)[k] = reqQueue[idx][k]
      /\ Append(reqQueue[idx], rPacket)[Len(reqQueue[idx]) + 1] = rPacket
  BY <1>2, <1>3, AppendProperties
<1>5. /\ reqQueue' \in [Routines -> Seq(Packets)]
      /\ reqQueue'[idx] = Append(reqQueue[idx], rPacket)
      /\ \A r \in Routines \ {idx} : reqQueue'[r] = reqQueue[r]
  BY <1>1, <1>3, <1>4 DEF AddWork
<1>6. /\ pc'[Main] = "get"
      /\ \A r \in Routines : Holding(r)' => Holding(r) /\ pc'[r] = pc[r]
  BY <1>1, MainApart DEF IInv, TypeOK, AddWork, Holding
<1>7. \E e \in Found(realDev(rPacket)) : e % num_process_routine = idx /\ dev2thd[e].flag
  BY DEF IInv, MapOfAsked, AddWork, At
<1> QED
  BY <1>1, <1>2, <1>3, <1>4, <1>5, <1>6, <1>7, LenProperties

-----------------------------------------------------------------------------
(* Every step keeps the invariant *)

(* A client sends a request, which takes the next number.                  *)
LEMMA RequestStep ==
  ASSUME IInv, NEW d \in Disks, NEW p \in Parts, Request(d, p) PROVE IInv'
<1>1. TypeOK'
  <2>1. sent' \in Seq(Packets) /\ got' = got
    <3>1. [id |-> Len(sent) + 1, disk |-> d, part |-> p] \in Packets
      BY BoundsNat DEF IInv, TypeOK, Request, Packets, Ids
    <3> QED
      BY <3>1, AppendProperties DEF IInv, TypeOK, Request, Queue!Send
  <2>2. client' \in [Ids -> ClientPC]
    BY BoundsNat DEF IInv, TypeOK, Request, Ids, ClientPC
  <2> QED
    BY <2>1, <2>2 DEF IInv, TypeOK, Request, mapVars
<1>2. NoLostWakeup'
  BY DEF IInv, NoLostWakeup, Request, Queue!Send, mapVars
<1>3. Numbered'
  BY MainApart, BoundsNat DEF IInv, Numbered, Request, Queue!Send, mapVars
<1>4. WorkInOrder'
  BY DEF IInv, WorkInOrder, Received, Holding, DispatchUnderWay, Request, Queue!Send,
    mapVars
<1>5. MapOfAsked'
  BY DEF IInv, MapOfAsked, UniqueEntry, DevicesAsked, Found, rPacket, Request, Queue!Send,
    mapVars
<1>6. AskedInOrder'
  BY MainApart DEF IInv, TypeOK, AskedInOrder, Request, Queue!Send, mapVars
<1>7. EntryKept' /\ Together'
  BY MapUntouched, MainApart DEF Grows, NoNewWork, IInv, TypeOK, LookedUp, InUse, InQueue, Request,
    Queue!Send, mapVars
<1> QED
  BY <1>1, <1>2, <1>3, <1>4, <1>5, <1>6, <1>7 DEF IInv

(* A client dies while it waits.                                           *)
LEMMA KillClientStep ==
  ASSUME IInv, NEW i \in Ids, KillClient(i) PROVE IInv'
<1>1. TypeOK'
  BY DEF IInv, TypeOK, Numbered, MainPC, RoutinePC, ClientPC, KillClient, mapVars
<1>2. NoLostWakeup'
  BY DEF IInv, NoLostWakeup, KillClient, mapVars
<1>3. Numbered'
  BY DEF IInv, Numbered, KillClient, mapVars
<1>4. WorkInOrder'
  BY DEF IInv, WorkInOrder, Received, Holding, DispatchUnderWay, KillClient, mapVars
<1>5. MapOfAsked'
  BY DEF IInv, MapOfAsked, UniqueEntry, DevicesAsked, Found, rPacket, KillClient, mapVars
<1>6. AskedInOrder'
  BY MainApart DEF IInv, TypeOK, AskedInOrder, KillClient, mapVars
<1>7. EntryKept' /\ Together'
  BY MapUntouched, MainApart DEF Grows, NoNewWork, IInv, TypeOK, LookedUp, InUse, InQueue, KillClient,
    mapVars
<1> QED
  BY <1>1, <1>2, <1>3, <1>4, <1>5, <1>6, <1>7 DEF IInv

(* The main thread receives the oldest request.                            *)
LEMMA GetNextStep ==
  ASSUME IInv, GetNext PROVE IInv'
<1>1. TypeOK'
  BY DEF IInv, TypeOK, Numbered, MainPC, RoutinePC, ClientPC, GetNext, Queue!Receive, At,
    Goto, mapVars
<1>2. NoLostWakeup'
  BY DEF IInv, NoLostWakeup, GetNext, Queue!Receive, At, Goto, mapVars
<1>3. Numbered'
  BY DEF IInv, Numbered, GetNext, Queue!Receive, At, Goto, mapVars
<1>4. WorkInOrder'
  BY DEF IInv, WorkInOrder, Received, Holding, DispatchUnderWay, GetNext, Queue!Receive,
    At, Goto, mapVars
<1>5. MapOfAsked'
  BY DEF IInv, MapOfAsked, UniqueEntry, DevicesAsked, Found, rPacket, GetNext,
    Queue!Receive, At, Goto, mapVars
<1>6. AskedInOrder'
  <2>1. pc[Main] = "get" /\ pc'[Main] = "refresh" /\ asked' = asked
    BY DEF IInv, TypeOK, GetNext, At, Goto, mapVars
  <2>2. Len(got') = Len(got) + 1 /\ Len(got) \in Nat
    BY DEF IInv, TypeOK, Numbered, GetNext, Queue!Receive
  <2> QED
    BY <2>1, <2>2 DEF IInv, AskedInOrder
<1>7. EntryKept' /\ Together'
  <2>1. Grows /\ LookedUp' = LookedUp /\ dev2thd' = dev2thd /\ asked' = asked
    BY DEF Grows, LookedUp, IInv, TypeOK, GetNext, Queue!Receive, At, Goto, mapVars
  <2>2. NoNewWork
    BY MainApart DEF NoNewWork, InUse, InQueue, IInv, TypeOK, GetNext, Goto
  <2> QED
    BY <2>1, <2>2, MapUntouched
<1> QED
  BY <1>1, <1>2, <1>3, <1>4, <1>5, <1>6, <1>7 DEF IInv

(* The timer expires.                                                      *)
LEMMA alarm_handlerStep ==
  ASSUME IInv, alarm_handler PROVE IInv'
<1>1. TypeOK'
  BY MainApart, BoundsNat DEF IInv, TypeOK, alarm_handler
<1>2. NoLostWakeup'
  BY DEF IInv, NoLostWakeup, alarm_handler
<1>3. Numbered'
  BY DEF IInv, Numbered, alarm_handler
<1>4. WorkInOrder'
  BY DEF IInv, WorkInOrder, Received, Holding, DispatchUnderWay, alarm_handler
<1>5. MapOfAsked'
  BY DEF IInv, MapOfAsked, UniqueEntry, DevicesAsked, Found, rPacket, alarm_handler
<1>6. AskedInOrder'
  BY MainApart DEF IInv, TypeOK, AskedInOrder, alarm_handler
<1>7. EntryKept' /\ Together'
  BY MapUntouched, MainApart DEF Grows, NoNewWork, IInv, TypeOK, LookedUp, InUse, InQueue, alarm_handler
<1> QED
  BY <1>1, <1>2, <1>3, <1>4, <1>5, <1>6, <1>7 DEF IInv

(* The first part of getProcessRoutineIdx refreshes the map.               *)
LEMMA RefreshStep ==
  ASSUME IInv, Refresh PROVE IInv'
<1>1. TypeOK'
  <2>1. asked' \in Seq(Nat)
    BY RefreshCounts
  <2> QED
    BY <2>1, RefreshFacts, MainApart DEF IInv, TypeOK, MainPC, Refresh, Goto
<1>2. NoLostWakeup'
  BY DEF IInv, NoLostWakeup, TypeOK, Refresh, At, Goto
<1>3. Numbered'
  BY DEF IInv, Numbered, Refresh, At, Goto
<1>4. WorkInOrder'
  BY DEF IInv, WorkInOrder, Received, Holding, DispatchUnderWay, TypeOK, Refresh, At, Goto
<1>5. MapOfAsked'
  <2>1. pc'[Main] \in {"clear", "find"} /\ DevicesAsked' = DevicesAsked
    BY DEF IInv, TypeOK, Refresh, Goto, DevicesAsked
  <2>2. UniqueEntry'
    BY RefreshFacts DEF IInv, MapOfAsked, UniqueEntry
  <2> QED
    BY <2>1, <2>2, RefreshFacts DEF IInv, MapOfAsked
<1>6. /\ Len(asked) \in Nat /\ Len(asked') = Len(asked) + 1
      /\ asked' \in Seq(Nat) /\ RefreshesNow \in Nat
      /\ \A m \in 1 .. Len(asked) : asked'[m] = asked[m] /\ asked[m] \in Nat
      /\ asked'[Len(asked) + 1] = RefreshesNow
  BY RefreshCounts
<1>7. /\ \A m \in 1 .. Len(asked) :
           asked[m] <= RefreshesNow - IF timer_expired THEN 1 ELSE 0
      /\ 0 < Len(asked) =>
           RefreshesNow = asked[Len(asked)] + IF timer_expired THEN 1 ELSE 0
      /\ got' = got /\ LookedUp = Len(asked) /\ LookedUp' = Len(asked)
  BY RefreshCounts
<1>8. AskedInOrder'
  <2>1. Len(asked') = Len(got) /\ pc'[Main] # "refresh" /\ got' = got
    BY <1>6, RefreshCounts
  <2>2. ASSUME NEW n \in 1 .. Len(asked'), NEW m \in 1 .. n PROVE asked'[m] <= asked'[n]
    <3>1. CASE n \in 1 .. Len(asked)
      <4>1. m \in 1 .. Len(asked) /\ asked[m] <= asked[n]
        BY <1>6, <3>1 DEF IInv, AskedInOrder
      <4> QED
        BY <1>6, <3>1, <4>1
    <3>2. CASE n = Len(asked) + 1 /\ m \in 1 .. Len(asked)
      BY <1>6, <1>7, <3>2
    <3>3. CASE n = Len(asked) + 1 /\ m = n
      BY <1>6, <3>3
    <3> QED
      BY <1>6, <3>1, <3>2, <3>3
  <2> QED
    BY <2>1, <2>2 DEF AskedInOrder
<1>9. Grows /\ NoNewWork
  <2>1. Grows
    BY <1>6, <1>7, WorkLookedUp DEF Grows
  <2>2. NoNewWork
    BY MainApart DEF NoNewWork, InUse, InQueue, IInv, TypeOK, Refresh, Goto
  <2> QED
    BY <2>1, <2>2
<1>10. EntryKept'
  <2> SUFFICES ASSUME NEW r \in Routines, NEW i \in Ids, InUse(i, r)', ~Lapsed(i, Len(asked))'
               PROVE  \E e \in Found(realDev(got[i]))' :
                        e % num_process_routine = r /\ (Fresh(i)' => dev2thd'[e].flag)
    BY DEF EntryKept
  <2>1. LookedUp = Len(asked) /\ LookedUp' = Len(asked) /\ got' = got
    BY <1>7
  <2>2. InUse(i, r) /\ i \in 1 .. Len(asked)
    BY <1>9, <2>1, WorkLookedUp DEF NoNewWork
  <2>3. ~Lapsed(i, Len(asked))
    BY <1>6, <1>8, <1>9, <2>2, LapsedStays
  <2>4. PICK e \in Found(realDev(got[i])) :
          e % num_process_routine = r /\ (Fresh(i) => dev2thd[e].flag)
    BY <2>2, <2>3 DEF IInv, EntryKept
  <2>5. \A k \in 1 .. Len(asked) : SameDevice(k, i)' <=> SameDevice(k, i)
    BY <2>1 DEF SameDevice, realDev
  <2>6. CASE ~timer_expired
    <3>1. Fresh(i)' => Fresh(i)
      BY <1>6, <1>7, <2>1, <2>2, <2>5, <2>6 DEF Fresh
    <3>2. dev2thd' = dev2thd /\ e \in Found(realDev(got[i]))'
      BY <2>1, <2>6, RefreshFacts DEF Found, realDev
    <3> QED
      BY <2>4, <3>1, <3>2
  <2>7. CASE timer_expired
    <3>1. ~Fresh(i)'
      BY <1>6, <1>7, <2>1, <2>2, <2>7 DEF Fresh
    <3>2. ASSUME ~Fresh(i) PROVE FALSE
      <4> DEFINE last(k) == k \in i .. Len(asked) /\ SameDevice(k, i)
      <4>1. last(i) /\ \A k : last(k) => k \in Nat /\ k <= Len(asked)
        BY <1>6, <1>7, <2>2 DEF SameDevice
      <4>2. PICK k : last(k) /\ \A m : last(m) => m <= k
        <5> DEFINE S == {k \in i .. Len(asked) : SameDevice(k, i)}
        <5>1. S \in SUBSET (0 .. Len(asked)) /\ S # {}
          BY <1>6, <1>7, <2>2, <4>1
        <5> HIDE DEF S
        <5>2. PICK k \in S : \A m \in S : m <= k
          BY <1>6, <1>7, <5>1, GreatestNat
        <5>3. k \in Nat /\ \A m \in S : m \in Nat
          BY <1>6, <1>7, <5>1
        <5> QED
          BY <5>2, <5>3 DEF S
      <4>3. /\ k \in i .. Len(asked) /\ k \in 1 .. Len(asked) /\ i \in 1 .. Len(asked)
            /\ Len(asked) \in Nat /\ Len(asked') = Len(asked) + 1 /\ SameDevice(k, i)
        BY <1>6, <2>2, <4>2
      <4>4. asked[k] + 1 <= asked[Len(asked)]
        <5>1. asked[k] # asked[Len(asked)] /\ k \in 1 .. Len(asked)
          BY <1>6, <2>1, <3>2, <4>3 DEF Fresh
        <5>2. asked[k] <= asked[Len(asked)]
          BY <1>6, <1>7, <5>1 DEF IInv, AskedInOrder
        <5> QED
          BY <1>6, <1>7, <5>1, <5>2
      <4>5. RefreshesNow >= asked'[k] + 2
        <5>1. RefreshesNow = asked[Len(asked)] + 1
          BY <1>7, <2>7, <4>3
        <5>2. asked'[k] = asked[k] /\ asked[k] \in Nat
          BY <1>6, <4>3
        <5>3. asked[Len(asked)] \in Nat
          BY <1>6, <4>3
        <5> QED
          BY <4>4, <5>1, <5>2, <5>3
      <4>6. \A m \in k + 1 .. Len(asked') :
              m = Len(asked') \/ SameDevice(m, i)' => asked'[m] >= asked'[k] + 2
        <5> SUFFICES ASSUME NEW m \in k + 1 .. Len(asked'), m # Len(asked) + 1, SameDevice(m, i)'
                     PROVE  FALSE
          BY <1>6, <1>7, <4>5
        <5>1. m \in i .. Len(asked) /\ m \in 1 .. Len(asked) /\ m > k
          BY <4>3
        <5>2. last(m)
          BY <2>5, <5>1
        <5> QED
          BY <4>1, <4>2, <5>1, <5>2
      <4>7. k \in i .. Len(asked') - 1 /\ SameDevice(k, i)'
        BY <1>6, <2>2, <2>5, <4>3
      <4> QED
        BY <4>6, <4>7 DEF Lapsed
    <3>3. dev2thd[e].flag /\ e \in Entries /\ dev2thd[e].used
      BY <2>4, <3>2 DEF Found
    <3>4. e \in Found(realDev(got[i]))'
      BY <2>1, <2>4, <3>3, RefreshFacts DEF Found, realDev
    <3> QED
      BY <2>4, <3>1, <3>4
  <2> QED
    BY <2>6, <2>7
<1>11. Together'
  BY <1>9, TogetherStays
<1> QED
  BY <1>1, <1>2, <1>3, <1>4, <1>5, <1>8, <1>10, <1>11 DEF IInv

(* The refresh is done.                                                    *)
LEMMA ClearTimerStep ==
  ASSUME IInv, ClearTimer PROVE IInv'
<1>1. TypeOK'
  BY DEF IInv, TypeOK, Numbered, MainPC, RoutinePC, ClientPC, ClearTimer, At, Goto
<1>2. NoLostWakeup'
  BY DEF IInv, NoLostWakeup, ClearTimer, At, Goto
<1>3. Numbered'
  BY DEF IInv, Numbered, ClearTimer, At, Goto
<1>4. WorkInOrder'
  BY DEF IInv, WorkInOrder, Received, Holding, DispatchUnderWay, ClearTimer, At, Goto
<1>5. MapOfAsked'
  BY DEF IInv, MapOfAsked, UniqueEntry, DevicesAsked, Found, rPacket, ClearTimer, At, Goto
<1>6. AskedInOrder'
  BY MainApart DEF IInv, TypeOK, AskedInOrder, ClearTimer, At, Goto
<1>7. EntryKept' /\ Together'
  BY MapUntouched, MainApart DEF Grows, NoNewWork, IInv, TypeOK, LookedUp, InUse, InQueue, ClearTimer,
    At, Goto
<1> QED
  BY <1>1, <1>2, <1>3, <1>4, <1>5, <1>6, <1>7 DEF IInv

(* The second part of getProcessRoutineIdx looks the device up.            *)
LEMMA FindEntryStep ==
  ASSUME IInv, FindEntry PROVE IInv'
<1>1. TypeOK'
  <2>1. /\ dev2thd' \in [Entries -> [devname : {<<>>} \cup (Disks \X Nat),
                                     used : BOOLEAN, flag : BOOLEAN]]
        /\ idx' \in Routines \cup {-1}
    BY FindFacts, EntersFacts DEF IInv, TypeOK, Enters
  <2> QED
    BY <2>1, MainApart DEF IInv, TypeOK, MainPC, FindEntry, Goto
<1>2. NoLostWakeup'
  BY DEF IInv, NoLostWakeup, FindEntry, At, Goto
<1>3. Numbered'
  BY DEF IInv, Numbered, FindEntry, At, Goto
<1>4. WorkInOrder'
  BY DEF IInv, WorkInOrder, Received, Holding, DispatchUnderWay, FindEntry, At, Goto
<1>5. MapOfAsked'
  <2> DEFINE dev == realDev(rPacket)
  <2>1. dev' = dev /\ DevicesAsked' = DevicesAsked /\ pc'[Main] = "add"
    BY DEF IInv, TypeOK, FindEntry, Goto, rPacket, realDev, DevicesAsked
  <2>2. /\ dev \in Disks \X Nat /\ dev \in DevicesAsked
        /\ \/ \E e \in Found(dev) : Enters(dev, e)
           \/ Found(dev) = {} /\ \E e \in Unused : Enters(dev, e)
           \/ Found(dev) = {} /\ Unused = {} /\ idx' = -1 /\ dev2thd' = dev2thd
    BY FindFacts
  <2>3. MapOfAsked' <=>
          /\ UniqueEntry'
          /\ \A e \in Entries : dev2thd'[e].used => dev2thd'[e].devname \in DevicesAsked
          /\ idx' # -1 => \E e \in Found(dev)' : e % num_process_routine = idx' /\ dev2thd'[e].flag
          /\ idx' = -1 => Cardinality(DevicesAsked) > Cardinality(Entries)
    BY <2>1 DEF MapOfAsked
  <2> HIDE DEF dev
  <2>4. CASE \E e \in Found(dev) : Enters(dev, e)
    <3>1. PICK e \in Found(dev) : Enters(dev, e)
      BY <2>4
    <3>2. e \in Entries /\ dev2thd[e].used /\ dev2thd[e].devname = dev
      BY DEF Found
    <3>3. /\ dev2thd'[e] = [devname |-> dev, used |-> TRUE, flag |-> TRUE]
          /\ \A f \in Entries \ {e} : dev2thd'[f] = dev2thd[f]
      BY <2>2, <3>1, EntersFacts
    <3>4. \A f \in Entries : /\ dev2thd'[f].used <=> dev2thd[f].used
                             /\ dev2thd'[f].devname = dev2thd[f].devname
      BY <3>2, <3>3
    <3>5. /\ e \in Found(dev)' /\ dev2thd'[e].flag
          /\ idx' = e % num_process_routine /\ idx' # -1
      BY <2>1, <3>1, <3>2, <3>3, <3>4, MainApart DEF Found, Enters
    <3> QED
      BY <2>3, <3>4, <3>5 DEF IInv, MapOfAsked, UniqueEntry
  <2>5. CASE Found(dev) = {} /\ \E e \in Unused : Enters(dev, e)
    <3>1. PICK e \in Unused : Enters(dev, e)
      BY <2>5
    <3>2. e \in Entries /\ ~dev2thd[e].used
      BY DEF Unused
    <3>3. /\ dev2thd'[e] = [devname |-> dev, used |-> TRUE, flag |-> TRUE]
          /\ \A f \in Entries \ {e} : dev2thd'[f] = dev2thd[f]
      BY <2>2, <3>1, EntersFacts
    <3>4. /\ dev2thd'[e].used /\ dev2thd'[e].devname = dev
          /\ \A f \in Entries \ {e} : dev2thd'[f] = dev2thd[f]
      BY <3>3
    <3>5. \A f \in Entries \ {e} : dev2thd'[f].used => dev2thd'[f].devname # dev
      BY <2>5, <3>4 DEF Found
    <3>6. UniqueEntry'
      BY <3>4, <3>5 DEF IInv, MapOfAsked, UniqueEntry
    <3>7. \A f \in Entries : dev2thd'[f].used => dev2thd'[f].devname \in DevicesAsked
      BY <2>2, <3>4 DEF IInv, MapOfAsked
    <3>8. /\ e \in Found(dev)' /\ dev2thd'[e].flag
          /\ idx' = e % num_process_routine /\ idx' # -1
      BY <2>1, <3>1, <3>2, <3>3, <3>4, MainApart DEF Found, Enters
    <3> QED
      BY <2>3, <3>6, <3>7, <3>8
  <2>6. CASE Found(dev) = {} /\ Unused = {} /\ idx' = -1 /\ dev2thd' = dev2thd
    <3>1. \A e \in Entries : dev2thd[e].used /\ dev2thd[e].devname \in DevicesAsked \ {dev}
      BY <2>6 DEF Found, Unused, IInv, MapOfAsked
    <3>2. Cardinality(DevicesAsked) > Cardinality(Entries)
      BY <2>2, <3>1, DevicesOutnumber DEF IInv, MapOfAsked
    <3> QED
      BY <2>6, <2>3, <3>2 DEF IInv, MapOfAsked, UniqueEntry
  <2> QED
    BY <2>2, <2>4, <2>5, <2>6
<1>6. AskedInOrder'
  BY DEF IInv, TypeOK, AskedInOrder, FindEntry, At, Goto
<1>7. Grows /\ NoNewWork
  <2>1. Grows
    BY WorkLookedUp DEF Grows, FindEntry
  <2>2. NoNewWork
    BY MainApart DEF NoNewWork, InUse, InQueue, IInv, TypeOK, FindEntry, Goto
  <2> QED
    BY <2>1, <2>2
<1>8. EntryKept'
  <2> SUFFICES ASSUME NEW r \in Routines, NEW i \in Ids, InUse(i, r)', ~Lapsed(i, Len(asked))'
               PROVE  \E e \in Found(realDev(got[i]))' :
                        e % num_process_routine = r /\ (Fresh(i)' => dev2thd'[e].flag)
    BY DEF EntryKept
  <2> DEFINE dev == realDev(rPacket)
             d == realDev(got[i])
  <2>1. /\ LookedUp = Len(asked) - 1 /\ LookedUp' = Len(asked) /\ Len(asked) = Len(got)
        /\ got' = got /\ asked' = asked /\ Len(asked) \in Nat
    BY WorkLookedUp DEF LookedUp, IInv, TypeOK, AskedInOrder, FindEntry, At, Goto
  <2>2. InUse(i, r) /\ i \in 1 .. LookedUp
    BY <1>7, WorkLookedUp DEF NoNewWork
  <2>3. ~Lapsed(i, Len(asked))
    BY <1>7, <2>1, <2>2, PastStays
  <2>4. PICK e \in Found(d) : e % num_process_routine = r /\ (Fresh(i) => dev2thd[e].flag)
    BY <2>2, <2>3 DEF IInv, EntryKept
  <2>5. e \in Entries /\ dev2thd[e].used /\ dev2thd[e].devname = d /\ d' = d
    BY <2>1 DEF Found, realDev
  <2>6. /\ dev \in Disks \X Nat
        /\ \/ \E f \in Found(dev) : Enters(dev, f)
           \/ Found(dev) = {} /\ \E f \in Unused : Enters(dev, f)
           \/ Found(dev) = {} /\ dev2thd' = dev2thd
    BY FindFacts
  <2>7. Fresh(i)' /\ d # dev => Fresh(i)
    <3>1. d # dev => ~SameDevice(Len(asked), i)
      BY <2>1 DEF SameDevice, rPacket
    <3>2. \A k \in i .. Len(asked) : SameDevice(k, i)' <=> SameDevice(k, i)
      BY <2>1 DEF SameDevice, realDev
    <3> QED
      BY <2>1, <2>2, <3>1, <3>2 DEF Fresh
  <2> HIDE DEF dev, d
  <2>8. CASE d = dev
    <3>1. PICK f \in Found(dev) : Enters(dev, f)
      BY <2>4, <2>6, <2>8
    <3>2. f = e
      BY <2>5, <2>8 DEF Found, IInv, MapOfAsked, UniqueEntry
    <3>3. dev2thd'[e] = [devname |-> dev, used |-> TRUE, flag |-> TRUE]
      BY <2>6, <3>1, <3>2, EntersFacts
    <3>4. e \in Found(d)' /\ dev2thd'[e].flag
      BY <2>5, <2>8, <3>3 DEF Found
    <3> QED
      BY <2>4, <3>4 DEF d
  <2>9. CASE d # dev
    <3>1. dev2thd'[e] = dev2thd[e]
      <4>1. ASSUME NEW f, f \in Found(dev) \/ f \in Unused, Enters(dev, f)
            PROVE  dev2thd'[e] = dev2thd[e]
        <5>1. f # e
          BY <2>5, <2>9, <4>1 DEF Found, Unused
        <5>2. \A h \in Entries \ {f} : dev2thd'[h] = dev2thd[h]
          BY <2>6, <4>1, EntersFacts
        <5> QED
          BY <2>5, <5>1, <5>2
      <4> QED
        BY <2>6, <4>1
    <3>2. e \in Found(d)'
      BY <2>5, <3>1 DEF Found
    <3> QED
      BY <2>4, <2>7, <2>9, <3>1, <3>2 DEF d
  <2> QED
    BY <2>8, <2>9
<1>9. Together'
  BY <1>7, TogetherStays
<1> QED
  BY <1>1, <1>2, <1>3, <1>4, <1>5, <1>6, <1>8, <1>9 DEF IInv

(* The work goes to the routine found.                                     *)
LEMMA AddWorkStep ==
  ASSUME IInv, AddWork PROVE IInv'
<1>1. TypeOK'
  BY AddWorkFacts, MainApart DEF IInv, TypeOK, MainPC, RoutinePC, AddWork, mapVars
<1>2. NoLostWakeup'
  BY DEF IInv, NoLostWakeup, TypeOK, AddWork, At, mapVars
<1>3. Numbered'
  BY DEF IInv, Numbered, AddWork, At, mapVars
<1>4. WorkInOrder'
  <2> SUFFICES ASSUME NEW r \in Routines
               PROVE  /\ \A k \in 1 .. Len(reqQueue'[r]) :
                           /\ Received(reqQueue'[r][k])
                           /\ \A l \in 1 .. k - 1 : reqQueue'[r][l].id < reqQueue'[r][k].id
                      /\ Holding(r)' => Received(pWork[r])
    BY AddWorkFacts DEF WorkInOrder, DispatchUnderWay, Received, AddWork
  <2>1. Holding(r)' => Received(pWork[r])
    BY AddWorkFacts DEF IInv, WorkInOrder, Holding
  <2>2. CASE r # idx
    BY <2>1, <2>2, AddWorkFacts DEF IInv, WorkInOrder
  <2>3. CASE r = idx
    <3>1. ASSUME NEW k \in 1 .. Len(reqQueue'[r])
          PROVE  /\ Received(reqQueue'[r][k])
                 /\ \A l \in 1 .. k - 1 : reqQueue'[r][l].id < reqQueue'[r][k].id
      <4>1. k \in 1 .. Len(reqQueue[r]) \/ k = Len(reqQueue[r]) + 1
        BY <2>3, AddWorkFacts
      <4>2. CASE k \in 1 .. Len(reqQueue[r])
        <5>1. reqQueue'[r][k] = reqQueue[r][k] /\ Received(reqQueue[r][k])
          BY <2>3, <4>2, AddWorkFacts DEF IInv, WorkInOrder
        <5>2. \A l \in 1 .. k - 1 : reqQueue'[r][l] = reqQueue[r][l]
                                   /\ reqQueue[r][l].id < reqQueue[r][k].id
          BY <2>3, <4>2, AddWorkFacts DEF IInv, WorkInOrder
        <5> QED
          BY <5>1, <5>2
      <4>3. CASE k = Len(reqQueue[r]) + 1
        <5>1. reqQueue'[r][k] = rPacket /\ Received(rPacket) /\ rPacket.id = Len(got)
          BY <2>3, <4>3, AddWorkFacts
        <5>2. \A l \in 1 .. k - 1 : reqQueue'[r][l] = reqQueue[r][l]
                                   /\ reqQueue[r][l].id < Len(got)
          BY <2>3, <4>3, AddWorkFacts DEF IInv, WorkInOrder
        <5> QED
          BY <5>1, <5>2
      <4> QED
        BY <4>1, <4>2, <4>3
    <3> QED
      BY <2>1, <3>1
  <2> QED
    BY <2>2, <2>3
<1>5. MapOfAsked'
  BY DEF IInv, MapOfAsked, UniqueEntry, DevicesAsked, Found, rPacket, TypeOK, AddWork, At,
    mapVars
<1>6. AskedInOrder'
  BY MainApart DEF IInv, TypeOK, AskedInOrder, AddWork, At, mapVars
<1>7. /\ LookedUp' = LookedUp /\ LookedUp = Len(asked) /\ Len(asked) = Len(got)
      /\ got' = got /\ asked' = asked /\ dev2thd' = dev2thd /\ Grows
  BY AddWorkFacts, WorkLookedUp
  DEF LookedUp, Grows, IInv, AskedInOrder, TypeOK, AddWork, At, mapVars
<1>8. /\ \A i : (realDev(got[i]))' = realDev(got[i])
      /\ \A i, j : (SameDevice(i, j)' <=> SameDevice(i, j)) /\ (Lapsed(i, j)' <=> Lapsed(i, j))
      /\ \A i : Fresh(i)' <=> Fresh(i)
      /\ \A d : Found(d)' = Found(d)
  BY <1>7 DEF SameDevice, realDev, Lapsed, Fresh, Found
<1>9. ASSUME NEW r \in Routines, NEW i \in Ids
      PROVE  /\ InQueue(i, r)' => InQueue(i, r) \/ (i = Len(got) /\ r = idx)
             /\ InUse(i, r)' => InUse(i, r) \/ (i = Len(got) /\ r = idx)
  <2>1. CASE InQueue(i, r)' /\ ~InQueue(i, r)
    <3>1. r = idx
      BY <2>1, AddWorkFacts DEF InQueue
    <3>2. PICK k \in 1 .. Len(reqQueue'[r]) : reqQueue'[r][k].id = i
      BY <2>1 DEF InQueue
    <3>3. k = Len(reqQueue[r]) + 1
      BY <2>1, <3>1, <3>2, AddWorkFacts DEF InQueue
    <3> QED
      BY <3>1, <3>2, <3>3, AddWorkFacts
  <2>2. pc'[r] = "run" /\ pWork'[r].id = i => pc[r] = "run" /\ pWork[r].id = i
    BY AddWorkFacts DEF Holding, AddWork
  <2> QED
    BY <2>1, <2>2 DEF InUse
<1>10. \E e \in Found(realDev(got[Len(got)])) : e % num_process_routine = idx /\ dev2thd[e].flag
  BY AddWorkFacts DEF rPacket
<1>11. EntryKept'
  <2> SUFFICES ASSUME NEW r \in Routines, NEW i \in Ids, InUse(i, r)', ~Lapsed(i, Len(asked))
               PROVE  \E e \in Found(realDev(got[i])) :
                        e % num_process_routine = r /\ (Fresh(i) => dev2thd[e].flag)
    BY <1>7, <1>8 DEF EntryKept
  <2> QED
    BY <1>9, <1>10 DEF IInv, EntryKept
<1>12. Together'
  <2> SUFFICES ASSUME NEW r \in Routines, NEW q \in Routines, NEW i \in Ids, NEW j \in Ids,
                      InQueue(j, r)', InUse(i, q)', i < j, SameDevice(i, j), ~Lapsed(i, j)
               PROVE  q = r
    BY <1>8 DEF Together
  <2>1. InUse(i, q)
    <3>1. j <= Len(got)
      BY <1>7, <1>9, WorkLookedUp DEF InUse
    <3> QED
      BY <1>9, <3>1, BoundsNat, WorkLookedUp DEF Ids
  <2>2. CASE InQueue(j, r)
    BY <2>1, <2>2 DEF IInv, Together
  <2>3. CASE j = Len(got) /\ r = idx
    <3>1. PICK e \in Found(realDev(got[i])) : e % num_process_routine = q
      BY <1>7, <2>1, <2>3 DEF IInv, EntryKept
    <3>2. PICK f \in Found(realDev(got[j])) : f % num_process_routine = r
      BY <1>10, <2>3
    <3>3. e = f
      BY DEF SameDevice, Found, IInv, MapOfAsked, UniqueEntry
    <3> QED
      BY <3>1, <3>2, <3>3
  <2> QED
    BY <1>9, <2>2, <2>3
<1> QED
  BY <1>1, <1>2, <1>3, <1>4, <1>5, <1>6, <1>11, <1>12 DEF IInv

(* There is no routine to give the work to.                                *)
LEMMA AddNowhereStep ==
  ASSUME IInv, AddNowhere PROVE IInv'
<1>1. TypeOK'
  BY DEF IInv, TypeOK, Numbered, MainPC, RoutinePC, ClientPC, AddNowhere, At, Goto,
    mapVars
<1>2. NoLostWakeup'
  BY DEF IInv, NoLostWakeup, AddNowhere, At, Goto, mapVars
<1>3. Numbered'
  BY DEF IInv, Numbered, AddNowhere, At, Goto, mapVars
<1>4. WorkInOrder'
  BY DEF IInv, WorkInOrder, Received, Holding, DispatchUnderWay, AddNowhere, At, Goto,
    mapVars
<1>5. MapOfAsked'
  BY DEF IInv, MapOfAsked, UniqueEntry, DevicesAsked, Found, rPacket, AddNowhere, At,
    Goto, mapVars
<1>6. AskedInOrder'
  BY MainApart DEF IInv, TypeOK, AskedInOrder, AddNowhere, At, Goto, mapVars
<1>7. EntryKept' /\ Together'
  BY MapUntouched, MainApart DEF Grows, NoNewWork, IInv, TypeOK, LookedUp, InUse, InQueue, AddNowhere,
    At, Goto, mapVars
<1> QED
  BY <1>1, <1>2, <1>3, <1>4, <1>5, <1>6, <1>7 DEF IInv

(* The main thread has no memory for the work.                             *)
LEMMA AddFailsStep ==
  ASSUME IInv, AddFails PROVE IInv'
<1>1. TypeOK'
  BY DEF IInv, TypeOK, Numbered, MainPC, RoutinePC, ClientPC, AddFails, At, Goto, mapVars
<1>2. NoLostWakeup'
  BY DEF IInv, NoLostWakeup, AddFails, At, Goto, mapVars
<1>3. Numbered'
  BY DEF IInv, Numbered, AddFails, At, Goto, mapVars
<1>4. WorkInOrder'
  BY MainApart
  DEF IInv, WorkInOrder, Received, Holding, DispatchUnderWay, AddFails, At, Goto, mapVars
<1>5. MapOfAsked'
  BY DEF IInv, MapOfAsked, UniqueEntry, DevicesAsked, Found, rPacket, AddFails, At, Goto,
    mapVars
<1>6. AskedInOrder'
  BY MainApart DEF IInv, TypeOK, AskedInOrder, AddFails, At, Goto, mapVars
<1>7. EntryKept' /\ Together'
  BY MapUntouched, MainApart DEF Grows, NoNewWork, IInv, TypeOK, LookedUp, InUse, InQueue, AddFails, At,
    Goto, mapVars
<1> QED
  BY <1>1, <1>2, <1>3, <1>4, <1>5, <1>6, <1>7 DEF IInv

(* A routine without work goes to sleep.                                   *)
LEMMA WaitForWorkStep ==
  ASSUME IInv, NEW r \in Routines, WaitForWork(r) PROVE IInv'
<1>1. TypeOK'
  BY DEF IInv, TypeOK, Numbered, MainPC, RoutinePC, ClientPC, WaitForWork, At, Goto,
    mapVars
<1>2. NoLostWakeup'
  BY DEF IInv, NoLostWakeup, WaitForWork, At, Goto, mapVars
<1>3. Numbered'
  BY DEF IInv, Numbered, WaitForWork, At, Goto, mapVars
<1>4. WorkInOrder'
  BY DEF IInv, WorkInOrder, Received, Holding, DispatchUnderWay, WaitForWork, At, Goto,
    mapVars
<1>5. MapOfAsked'
  BY DEF IInv, MapOfAsked, UniqueEntry, DevicesAsked, Found, rPacket, WaitForWork, At,
    Goto, mapVars
<1>6. AskedInOrder'
  BY MainApart DEF IInv, TypeOK, AskedInOrder, WaitForWork, At, Goto, mapVars
<1>7. EntryKept' /\ Together'
  BY MapUntouched, MainApart DEF Grows, NoNewWork, IInv, TypeOK, LookedUp, InUse, InQueue, WaitForWork,
    At, Goto, mapVars
<1> QED
  BY <1>1, <1>2, <1>3, <1>4, <1>5, <1>6, <1>7 DEF IInv

(* A routine wakes up for no reason.                                       *)
LEMMA SpuriousWakeupStep ==
  ASSUME IInv, NEW r \in Routines, SpuriousWakeup(r) PROVE IInv'
<1>1. TypeOK'
  BY DEF IInv, TypeOK, Numbered, MainPC, RoutinePC, ClientPC, SpuriousWakeup, At, Goto,
    mapVars
<1>2. NoLostWakeup'
  BY DEF IInv, NoLostWakeup, SpuriousWakeup, At, Goto, mapVars
<1>3. Numbered'
  BY DEF IInv, Numbered, SpuriousWakeup, At, Goto, mapVars
<1>4. WorkInOrder'
  BY DEF IInv, WorkInOrder, Received, Holding, DispatchUnderWay, SpuriousWakeup, At, Goto,
    mapVars
<1>5. MapOfAsked'
  BY DEF IInv, MapOfAsked, UniqueEntry, DevicesAsked, Found, rPacket, SpuriousWakeup, At,
    Goto, mapVars
<1>6. AskedInOrder'
  BY MainApart DEF IInv, TypeOK, AskedInOrder, SpuriousWakeup, At, Goto, mapVars
<1>7. EntryKept' /\ Together'
  BY MapUntouched, MainApart DEF Grows, NoNewWork, IInv, TypeOK, LookedUp, InUse, InQueue,
    SpuriousWakeup, At, Goto, mapVars
<1> QED
  BY <1>1, <1>2, <1>3, <1>4, <1>5, <1>6, <1>7 DEF IInv

(* A routine takes the first work of its queue.                            *)
LEMMA TakeWorkStep ==
  ASSUME IInv, NEW r \in Routines, TakeWork(r) PROVE IInv'
<1>1. TypeOK'
  BY DEF IInv, TypeOK, Numbered, MainPC, RoutinePC, ClientPC, TakeWork, At, Goto, mapVars
<1>2. NoLostWakeup'
  BY DEF IInv, NoLostWakeup, TakeWork, At, Goto, mapVars
<1>3. Numbered'
  BY DEF IInv, Numbered, TakeWork, At, Goto, mapVars
<1>4. WorkInOrder'
  BY DEF IInv, WorkInOrder, Received, Holding, DispatchUnderWay, TypeOK, TakeWork, At,
    Goto, mapVars
<1>5. MapOfAsked'
  BY DEF IInv, MapOfAsked, UniqueEntry, DevicesAsked, Found, rPacket, TakeWork, At, Goto,
    mapVars
<1>6. AskedInOrder'
  BY MainApart DEF IInv, TypeOK, AskedInOrder, TakeWork, At, Goto, mapVars
<1>7. EntryKept' /\ Together'
  BY MapUntouched, MainApart DEF Grows, NoNewWork, IInv, TypeOK, LookedUp, InUse, InQueue, TakeWork, At,
    Goto, mapVars
<1> QED
  BY <1>1, <1>2, <1>3, <1>4, <1>5, <1>6, <1>7 DEF IInv

(* A routine has computed its request.                                     *)
LEMMA ComputeStep ==
  ASSUME IInv, NEW r \in Routines, Compute(r) PROVE IInv'
<1>1. TypeOK'
  <2>1. isOk' \in [Routines \cup {Main} -> BOOLEAN]
    BY ResultsBool DEF IInv, TypeOK, Compute
  <2>2. /\ pc' \in [Routines \cup {Main} -> MainPC \cup RoutinePC]
        /\ pc'[Main] \in MainPC /\ \A q \in Routines : pc'[q] \in RoutinePC
    BY MainApart DEF IInv, TypeOK, MainPC, RoutinePC, Compute, Goto
  <2> QED
    BY <2>1, <2>2 DEF IInv, TypeOK, Compute, mapVars
<1>2. NoLostWakeup'
  BY DEF IInv, NoLostWakeup, Compute, At, Goto, mapVars
<1>3. Numbered'
  BY DEF IInv, Numbered, Compute, At, Goto, mapVars
<1>4. WorkInOrder'
  BY DEF IInv, WorkInOrder, Received, Holding, DispatchUnderWay, Compute, At, Goto,
    mapVars
<1>5. MapOfAsked'
  BY DEF IInv, MapOfAsked, UniqueEntry, DevicesAsked, Found, rPacket, Compute, At, Goto,
    mapVars
<1>6. AskedInOrder'
  BY MainApart DEF IInv, TypeOK, AskedInOrder, Compute, At, Goto, mapVars
<1>7. EntryKept' /\ Together'
  BY MapUntouched, MainApart DEF Grows, NoNewWork, IInv, TypeOK, LookedUp, InUse, InQueue, Compute, At,
    Goto, mapVars
<1> QED
  BY <1>1, <1>2, <1>3, <1>4, <1>5, <1>6, <1>7 DEF IInv

(* The feedback FIFO is open at both ends.                                 *)
LEMMA FeedbackOpenStep ==
  ASSUME IInv, NEW t \in Routines \cup {Main}, FeedbackOpen(t) PROVE IInv'
<1>1. TypeOK'
  BY DEF IInv, TypeOK, Numbered, MainPC, RoutinePC, ClientPC, FeedbackOpen, At, Goto,
    mapVars
<1>2. NoLostWakeup'
  BY DEF IInv, NoLostWakeup, FeedbackOpen, At, Goto, mapVars
<1>3. Numbered'
  BY DEF IInv, Numbered, FeedbackOpen, At, Goto, mapVars
<1>4. WorkInOrder'
  BY DEF IInv, WorkInOrder, Received, Holding, DispatchUnderWay, FeedbackOpen, At, Goto,
    mapVars
<1>5. MapOfAsked'
  BY DEF IInv, MapOfAsked, UniqueEntry, DevicesAsked, Found, rPacket, FeedbackOpen, At,
    Goto, mapVars
<1>6. AskedInOrder'
  BY MainApart DEF IInv, TypeOK, AskedInOrder, FeedbackOpen, At, Goto, mapVars
<1>7. EntryKept' /\ Together'
  BY MapUntouched, MainApart DEF Grows, NoNewWork, IInv, TypeOK, LookedUp, InUse, InQueue, FeedbackOpen,
    At, Goto, mapVars
<1> QED
  BY <1>1, <1>2, <1>3, <1>4, <1>5, <1>6, <1>7 DEF IInv

(* The client gets its answer.                                             *)
LEMMA FeedbackWriteStep ==
  ASSUME IInv, NEW t \in Routines \cup {Main}, FeedbackWrite(t) PROVE IInv'
<1>1. TypeOK'
  <2>1. client' \in [Ids -> ClientPC]
    BY DEF IInv, TypeOK, ClientPC, FeedbackWrite
  <2>2. /\ pc' \in [Routines \cup {Main} -> MainPC \cup RoutinePC]
        /\ pc'[Main] \in MainPC /\ \A r \in Routines : pc'[r] \in RoutinePC
    BY MainApart DEF IInv, TypeOK, MainPC, RoutinePC, FeedbackWrite, Goto
  <2> QED
    BY <2>1, <2>2 DEF IInv, TypeOK, FeedbackWrite, mapVars
<1>2. NoLostWakeup'
  BY DEF IInv, NoLostWakeup, FeedbackWrite, At, Goto, mapVars
<1>3. Numbered'
  BY DEF IInv, Numbered, FeedbackWrite, At, Goto, mapVars
<1>4. WorkInOrder'
  BY DEF IInv, WorkInOrder, Received, Holding, DispatchUnderWay, FeedbackWrite, At, Goto,
    mapVars
<1>5. MapOfAsked'
  BY DEF IInv, MapOfAsked, UniqueEntry, DevicesAsked, Found, rPacket, FeedbackWrite, At,
    Goto, mapVars
<1>6. AskedInOrder'
  BY MainApart DEF IInv, TypeOK, AskedInOrder, FeedbackWrite, At, Goto, mapVars
<1>7. EntryKept' /\ Together'
  BY MapUntouched, MainApart DEF Grows, NoNewWork, IInv, TypeOK, LookedUp, InUse, InQueue,
    FeedbackWrite, At, Goto, mapVars
<1> QED
  BY <1>1, <1>2, <1>3, <1>4, <1>5, <1>6, <1>7 DEF IInv

(* The write to a killed client ends the server.                           *)
LEMMA FeedbackSigpipeStep ==
  ASSUME IInv, NEW t \in Routines \cup {Main}, FeedbackSigpipe(t) PROVE IInv'
<1>1. TypeOK'
  BY DEF IInv, TypeOK, Numbered, MainPC, RoutinePC, ClientPC, FeedbackSigpipe, At, mapVars
<1>2. NoLostWakeup'
  BY DEF IInv, NoLostWakeup, FeedbackSigpipe, At, mapVars
<1>3. Numbered'
  BY DEF IInv, Numbered, FeedbackSigpipe, At, mapVars
<1>4. WorkInOrder'
  BY DEF IInv, WorkInOrder, Received, Holding, DispatchUnderWay, FeedbackSigpipe, At,
    mapVars
<1>5. MapOfAsked'
  BY DEF IInv, MapOfAsked, UniqueEntry, DevicesAsked, Found, rPacket, FeedbackSigpipe, At,
    mapVars
<1>6. AskedInOrder'
  BY MainApart DEF IInv, TypeOK, AskedInOrder, FeedbackSigpipe, At, mapVars
<1>7. EntryKept' /\ Together'
  BY MapUntouched, MainApart DEF Grows, NoNewWork, IInv, TypeOK, LookedUp, InUse, InQueue,
    FeedbackSigpipe, At, mapVars
<1> QED
  BY <1>1, <1>2, <1>3, <1>4, <1>5, <1>6, <1>7 DEF IInv

-----------------------------------------------------------------------------
(* Theorems *)

(* createProcessRoutines and init_dev2Routine establish the invariant.     *)
LEMMA InitIInv == Init => IInv
<1> SUFFICES ASSUME Init PROVE IInv
  OBVIOUS
<1>1. /\ sent = <<>> /\ got = <<>> /\ asked = <<>>
      /\ Len(sent) = 0 /\ Len(got) = 0 /\ Len(asked) = 0
  BY DEF Init, Queue!Init
<1>2. pc[Main] = "get" /\ \A r \in Routines : pc[r] = "check"
  BY MainApart DEF Init
<1>3. TypeOK
  <2>1. dev2thd \in [Entries -> [devname : {<<>>} \cup (Disks \X Nat),
                                 used : BOOLEAN, flag : BOOLEAN]]
    BY DEF Init
  <2>2. pc \in [Routines \cup {Main} -> MainPC \cup RoutinePC]
    BY DEF Init, MainPC, RoutinePC
  <2>3. isOk \in [Routines \cup {Main} -> BOOLEAN] /\ up \in BOOLEAN /\ timer_expired \in BOOLEAN
    BY DEF Init
  <2>4. alarms \in 0 .. MaxAlarms
    BY BoundsNat DEF Init
  <2>5. /\ client \in [Ids -> ClientPC] /\ idx \in Routines \cup {-1}
        /\ reqQueue \in [Routines -> Seq(Packets)] /\ pWork \in [Routines -> Packets \cup {NoWork}]
    BY DEF Init, ClientPC
  <2> QED
    BY <1>1, <1>2, <2>1, <2>2, <2>3, <2>4, <2>5 DEF TypeOK, MainPC, RoutinePC
<1>4. NoLostWakeup /\ Numbered
  BY <1>1, <1>2, BoundsNat DEF NoLostWakeup, Numbered
<1>5. \A r \in Routines : Len(reqQueue[r]) = 0
  BY DEF Init
<1>6. WorkInOrder /\ EntryKept /\ Together
  BY <1>2, <1>5 DEF WorkInOrder, Holding, EntryKept, Together, InUse, InQueue
<1>7. \A e \in Entries : ~dev2thd[e].used
  BY DEF Init
<1>8. MapOfAsked /\ AskedInOrder
  BY <1>1, <1>2, <1>7 DEF MapOfAsked, UniqueEntry, AskedInOrder
<1> QED
  BY <1>3, <1>4, <1>6, <1>8 DEF IInv

(* Every step of the clients, the timer, the main thread and the routines. *)
LEMMA NextIInv == IInv /\ [Next]_vars => IInv'
<1> SUFFICES ASSUME IInv, [Next]_vars PROVE IInv'
  OBVIOUS
<1>1. CASE \E d \in Disks, p \in Parts : Request(d, p)
  BY <1>1, RequestStep
<1>2. CASE \E i \in Ids : KillClient(i)
  BY <1>2, KillClientStep
<1>3. CASE alarm_handler
  BY <1>3, alarm_handlerStep
<1>4. ASSUME NEW t \in Routines \cup {Main}, issd_feedback(t) PROVE IInv'
  BY <1>4, FeedbackOpenStep, FeedbackWriteStep, FeedbackSigpipeStep DEF issd_feedback
<1>5. CASE mainThread
  BY <1>4, <1>5, GetNextStep, RefreshStep, ClearTimerStep, FindEntryStep, AddWorkStep,
     AddNowhereStep, AddFailsStep DEF mainThread
<1>6. CASE \E r \in Routines : thread_routine(r) \/ SpuriousWakeup(r)
  BY <1>4, <1>6, WaitForWorkStep, TakeWorkStep, ComputeStep, SpuriousWakeupStep
  DEF thread_routine
<1>7. CASE UNCHANGED vars
  <2>1. TypeOK' /\ NoLostWakeup' /\ Numbered' /\ WorkInOrder'
    BY <1>7 DEF vars, mapVars, IInv, TypeOK, NoLostWakeup, Numbered, WorkInOrder, Received,
       Holding, DispatchUnderWay
  <2>2. MapOfAsked' /\ AskedInOrder'
    BY <1>7 DEF vars, mapVars, IInv, MapOfAsked, UniqueEntry, DevicesAsked, Found, rPacket,
       realDev, AskedInOrder
  <2>3. EntryKept' /\ Together'
    BY <1>7, MapUntouched, WorkLookedUp
    DEF vars, mapVars, Grows, NoNewWork, LookedUp, InUse, InQueue
  <2> QED
    BY <2>1, <2>2, <2>3 DEF IInv
<1> QED
  BY <1>1, <1>2, <1>3, <1>5, <1>6, <1>7 DEF Next

(* The inductive invariant: requests are numbered and queued in the order  *)
(* of arrival, the map has one entry for a device and only for devices     *)
(* that were asked for, and an entry that leads to work, looked up since   *)
(* the last refresh, is flagged, so that the next refresh keeps it.        *)
THEOREM Invariance == Spec => []IInv
<1>1. Init => IInv
  BY InitIInv
<1>2. IInv /\ [Next]_vars => IInv'
  BY NextIInv
<1> QED
  BY <1>1, <1>2, PTL DEF Spec

(* NoLostWakeup: a routine that sleeps in pthread_cond_wait has no work,   *)
(* for any number of routines (reqPRoutine.c).                             *)
THEOREM WakeupsArrive == Spec => []NoLostWakeup
<1>1. IInv => NoLostWakeup
  BY DEF IInv
<1> QED
  BY <1>1, Invariance, PTL

(* MapSound: the map from devices to routines never has two entries for a  *)
(* device, every index is that of a routine or -1, and a device with work  *)
(* queued or running keeps its entry unless it was not asked for between   *)
(* two refreshes, for any number of devices, routines and expiries of the  *)
(* timer (reqPRoutine.c).                                                  *)
THEOREM MapCorrect == Spec => []MapSound
<1>1. IInv => EntrySurvivesRefresh
  BY DEF IInv, EntryKept, EntrySurvivesRefresh
<1>2. IInv => MapSound
  BY <1>1 DEF IInv, MapOfAsked, MapSound
<1> QED
  BY <1>2, Invariance, PTL

(* RoutineUnlessFull: dispatchReqPacket indexes pRoutines with -1 only     *)
(* after more devices were asked for than the map has entries.             *)
THEOREM RoutineFound == Spec => []RoutineUnlessFull
<1>1. IInv => RoutineUnlessFull
  BY DEF IInv, MapOfAsked, DevicesAsked, RoutineUnlessFull
<1> QED
  BY <1>1, Invariance, PTL

(* SerialPerDisk: requests for a disk are computed one after the other in  *)
(* the order of arrival, however often the timer expires: while the device *)
(* is asked for between any two refreshes its requests share the entry,    *)
(* hence the routine, and the routine's queue is in order.  The exception  *)
(* is that of the code (reqPRoutine.c:302): when two refreshes fell between*)
(* two requests for the device, its entry may have gone with work queued.  *)
THEOREM SerialService == Spec => SerialPerDisk
<1> DEFINE Alone(r) ==
      \A i \in 1 .. pWork'[r].id - 1 :
        got[i].disk = pWork'[r].disk /\ got[i].part \div 10 = pWork'[r].part \div 10
          => (~Queued(i) /\ ~Running(i)) \/ Lapsed(i, pWork'[r].id)
<1>1. IInv /\ [Next]_vars => [\A r \in Routines : TakeWork(r) => Alone(r)]_vars
  <2> SUFFICES ASSUME IInv, NEW r \in Routines, TakeWork(r),
                      NEW i \in 1 .. pWork'[r].id - 1,
                      got[i].disk = pWork'[r].disk,
                      got[i].part \div 10 = pWork'[r].part \div 10,
                      Queued(i) \/ Running(i), ~Lapsed(i, pWork'[r].id)
               PROVE  FALSE
    BY DEF Alone
  <2> DEFINE w == pWork'[r]
  <2>1. /\ reqQueue[r] \in Seq(Packets) /\ reqQueue[r] # <<>>
        /\ Len(reqQueue[r]) \in Nat /\ 1 \in 1 .. Len(reqQueue[r])
    BY LenProperties, EmptySeq DEF IInv, TypeOK, TakeWork
  <2>2. w = reqQueue[r][1] /\ pc[r] = "check"
    BY <2>1 DEF IInv, TypeOK, TakeWork, At
  <2>3. Received(w) /\ InQueue(w.id, r)
    BY <2>1, <2>2 DEF IInv, WorkInOrder, InQueue
  <2> HIDE DEF w
  <2>4. /\ w.id \in 1 .. Len(got) /\ got[w.id] = w /\ Len(got) \in Nat
        /\ i \in 1 .. Len(got) /\ i < w.id /\ i \in Ids /\ w.id \in Ids
    BY <2>3, BoundsNat DEF Received, IInv, TypeOK, Numbered, Ids, w
  <2>5. SameDevice(i, w.id) /\ ~Lapsed(i, w.id)
    BY <2>4 DEF SameDevice, realDev, w
  <2>6. \A q \in Routines : InUse(i, q) => q = r
    BY <2>3, <2>4, <2>5 DEF IInv, Together
  <2>7. \A q \in Routines : InQueue(i, q) \/ (pc[q] = "run" /\ pWork[q].id = i) => q = r
    BY <2>6 DEF InUse
  <2>8. CASE \E q \in Routines : InQueue(i, q)
    <3>1. InQueue(i, r)
      BY <2>7, <2>8
    <3>2. PICK k \in 1 .. Len(reqQueue[r]) : reqQueue[r][k].id = i
      BY <3>1 DEF InQueue
    <3>3. k # 1 => reqQueue[r][1].id < reqQueue[r][k].id
      BY <2>1 DEF IInv, WorkInOrder
    <3> QED
      BY <2>1, <2>2, <2>4, <3>2, <3>3 DEF w
  <2>9. CASE Running(i)
    BY <2>2, <2>7, <2>9 DEF Running
  <2>10. CASE Dispatching(i)
    <3>1. DispatchUnderWay /\ rPacket.id = i
      BY <2>10 DEF Dispatching, DispatchUnderWay, IInv, TypeOK, MainPC
    <3>2. rPacket.id = Len(got)
      BY <2>4 DEF rPacket, IInv, Numbered
    <3> QED
      BY <2>4, <3>1, <3>2
  <2> QED
    BY <2>8, <2>9, <2>10 DEF Queued
<1> QED
  BY <1>1, Invariance, PTL DEF Spec, SerialPerDisk
==============================================================================
