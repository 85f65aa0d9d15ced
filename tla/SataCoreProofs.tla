--------------------------- MODULE SataCoreProofs ---------------------------
(***************************************************************************)
(* Proofs about SataCore for every depth of the event queue, every write   *)
(* buffer, every disk and every command.                                   *)
(***************************************************************************)
EXTENDS SataCore, NumberLemmas, SequenceTheorems, TLAPS

-----------------------------------------------------------------------------
(* The inductive invariant *)

(* What an entry of the event queue asks of the FTL.                       *)
CallOf(e) == [op    |-> IF e.write THEN "write" ELSE "read",
              lba   |-> e.lba,
              count |-> EntryCount(e)]

EqEntries == [write : BOOLEAN, lba : Nat, count : Nat]
Calls == [op : {"read", "write", "flush"}, lba : Nat, count : Nat]

(* The slow command of the host waits for Main or is being served.         *)
SlowOutstanding == slow_cmd.status = "PENDING" \/ pc = "function"

(* The transfer of a read or write of the host is kept or under way.       *)
FastOutstanding == eq_full \/ hw # NoAction

(* The command just sent is one that the FTL is to be told of.             *)
Arriving == int = "CMD_RECV" /\ Concerns(h2d)

(* The slow command that is outstanding is a flush.                        *)
Flushing == SlowOutstanding /\ slow_cmd.code = "FLUSH_CACHE"

Types ==
    /\ TypeOK
    /\ slow_cmd \in [status : {"NONE", "PENDING", "BUSY"}, code : Codes \cup {"none"},
                     lba : Nat, count : Nat]
    /\ eq \in Seq(EqEntries)
    /\ todo \in Seq(Calls)
    /\ late \in 0..Len(eq)

(* A command, a reset or the host that waits for neither is in one place   *)
(* at a time: in the registers, in the slot of the slow commands, at Main  *)
(* or in a transfer.                                                       *)
OnePlace ==
    /\ host = "off" <=> int = "PHY_ONLINE"
    /\ int = "CMD_RECV" => host = "waiting"
    /\ int = "SRST_ON" => host = "reset"
    /\ int = "SRST_OFF" => srst
    /\ srst => host = "reset" /\ int \in {"none", "SRST_OFF"}
    /\ host \in {"off", "reset"} => pc # "return"
    /\ SlowOutstanding \/ FastOutstanding =>
           host \in {"waiting", "reset"} /\ int = "none" /\ ~srst /\ ~dropped
    /\ SlowOutstanding => ~FastOutstanding
    /\ FastOutstanding => host = "waiting" /\ IsFast(h2d.code)
    /\ slow_cmd.status = "PENDING" => pc # "function"
    /\ dropped => host = "waiting" /\ int = "none" /\ pc # "return" /\ ~IsFast(h2d.code)
    /\ host = "waiting" => h2d \in HostCommands
    /\ host = "waiting" /\ SlowOutstanding => ~IsFast(h2d.code)

(* The transfer that is kept or under way is that of the command in the    *)
(* registers, and a read or write that was taken has one.                  *)
Transfers ==
    /\ hw = NoAction \/ hw = [dir |-> "COMPLETE"] \/ hw = Transfer(h2d)
    /\ eq_full => flags = Transfer(h2d) /\ hw = NoAction
    /\ host = "waiting" /\ int # "CMD_RECV" /\ IsFast(h2d.code) => FastOutstanding

(* The queue is at its limit exactly when it is said to be.                *)
FullWhenSaid == eq_full <=> Len(eq) = EQ_LIMIT

(* A read is the last entry of the queue, and its answer is what the host  *)
(* waits for: at most one read is in the queue, at Main or in the buffer.  *)
ReadUnderWay ==
    /\ \A i \in 1..Len(eq) : ~eq[i].write =>
          /\ i = Len(eq) /\ rdata = 0
          /\ ~(pc = "ftl" /\ cmd.op = "read")
          /\ hw.dir = "D2H" \/ (eq_full /\ flags.dir = "D2H")
    /\ pc = "ftl" /\ cmd.op = "read" => eq = <<>> /\ rdata = 0 /\ hw.dir = "D2H"
    /\ rdata = 1 => hw.dir = "D2H"

(* What the FTL has not been told: the entries of the queue, then the      *)
(* outstanding command that is not in it yet.                              *)
Untold ==
    /\ Len(todo) = Len(eq) + (IF Arriving \/ Flushing THEN 1 ELSE 0)
    /\ \A i \in 1..Len(eq) : todo[i] = CallOf(eq[i])
    /\ Arriving => todo[Len(todo)] = Meant(h2d)
    /\ Flushing => todo[Len(todo)].op = "flush"

(* The writes that a flush may overtake are those that have come since     *)
(* Main found the queue empty.                                             *)
LateArrivals ==
    /\ pc \in {"look", "function"} => late = Len(eq)
    /\ pc \in {"loop", "ftl"} => late = 0

IInv ==
    /\ Types /\ OnePlace /\ Transfers /\ FullWhenSaid
    /\ ReadUnderWay /\ Untold /\ LateArrivals

-----------------------------------------------------------------------------
(* The tables and the decoding of a command *)

(* The codes that the firmware tells apart.                                *)
LEMMA CodesKnown ==
  Codes = {"READ_DMA", "WRITE_DMA", "READ_SECT_EXT", "WRITE_SECT_EXT", "READ_VERIFY",
           "SET_MAX_ADDRESS", "FLUSH_CACHE", "INITIALIZE_PARA", "UNDEFINED", "SRST"}
BY DEF Codes, ata_cmd_class_table

(* Every code has an entry, and the entry says where its address is.       *)
LEMMA TableEntries ==
  ASSUME NEW code \in Codes
  PROVE  /\ ata_cmd_class_table[code].ccl \in {"H2D", "D2H", "OTHER", "UNDEFINED"}
         /\ ata_cmd_class_table[code].lba \in {"NOR", "EXT", "NONE"}
         /\ ata_cmd_class_table[code].ccl = "H2D" <=> code \in {"WRITE_DMA", "WRITE_SECT_EXT"}
         /\ ata_cmd_class_table[code].ccl = "D2H" <=> code \in {"READ_DMA", "READ_SECT_EXT"}
         /\ code \in {"READ_DMA", "WRITE_DMA"} =>
               ata_cmd_class_table[code].lba = "NOR" /\ ata_cmd_class_table[code].sect
         /\ code \in {"READ_SECT_EXT", "WRITE_SECT_EXT"} =>
               ata_cmd_class_table[code].lba = "EXT" /\ ata_cmd_class_table[code].sect
         /\ code = "FLUSH_CACHE" => ata_cmd_class_table[code].lba = "NONE"
<1> DEFINE t == ata_cmd_class_table
<1>1. Codes = {"READ_DMA", "WRITE_DMA", "READ_SECT_EXT", "WRITE_SECT_EXT", "READ_VERIFY",
               "SET_MAX_ADDRESS", "FLUSH_CACHE", "INITIALIZE_PARA", "UNDEFINED", "SRST"}
  BY CodesKnown
<1>2. /\ t["READ_DMA"] = Entry("D2H", "NOR", TRUE, TRUE)
      /\ t["WRITE_DMA"] = Entry("H2D", "NOR", TRUE, TRUE)
      /\ t["READ_SECT_EXT"] = Entry("D2H", "EXT", TRUE, FALSE)
      /\ t["WRITE_SECT_EXT"] = Entry("H2D", "EXT", TRUE, FALSE)
      /\ t["READ_VERIFY"] = Entry("OTHER", "NOR", TRUE, FALSE)
      /\ t["SET_MAX_ADDRESS"] = Entry("OTHER", "NOR", FALSE, FALSE)
      /\ t["FLUSH_CACHE"] = Entry("OTHER", "NONE", TRUE, FALSE)
      /\ t["INITIALIZE_PARA"] = Entry("OTHER", "NONE", TRUE, FALSE)
      /\ t["UNDEFINED"] = Entry("UNDEFINED", "NONE", TRUE, FALSE)
      /\ t["SRST"] = Entry("OTHER", "NONE", FALSE, FALSE)
  BY DEF ata_cmd_class_table
<1> HIDE DEF t
<1>3. /\ t[code].ccl \in {"H2D", "D2H", "OTHER", "UNDEFINED"}
      /\ t[code].lba \in {"NOR", "EXT", "NONE"}
  BY <1>1, <1>2 DEF Entry
<1>4. /\ t[code].ccl = "H2D" <=> code \in {"WRITE_DMA", "WRITE_SECT_EXT"}
      /\ t[code].ccl = "D2H" <=> code \in {"READ_DMA", "READ_SECT_EXT"}
  BY <1>1, <1>2 DEF Entry
<1>5. /\ code \in {"READ_DMA", "WRITE_DMA"} => t[code].lba = "NOR" /\ t[code].sect
      /\ code \in {"READ_SECT_EXT", "WRITE_SECT_EXT"} => t[code].lba = "EXT" /\ t[code].sect
      /\ code = "FLUSH_CACHE" => t[code].lba = "NONE"
  BY <1>2 DEF Entry
<1> QED
  BY <1>3, <1>4, <1>5 DEF t

(* A count field of 0 stands for the largest count, however the code and   *)
(* the standard write it.                                                  *)
LEMMA WholeCount ==
  ASSUME NEW N \in Nat \ {0}, NEW f \in Nat
  PROVE  /\ 1 + ((f + N - 1) % N) = IF f % N = 0 THEN N ELSE f % N
         /\ 1 + ((f + N - 1) % N) \in 1 .. N
<1> DEFINE q == f \div N  r == f % N
<1>1. f = N * q + r /\ q \in Int /\ r \in 0 .. N - 1 /\ N * q \in Int
  BY DivMod
<1> HIDE DEF q, r
<1>2. CASE r = 0
  <2>1. f + N - 1 = N * q + (N - 1) /\ N - 1 \in 0 .. N - 1
    BY <1>1, <1>2
  <2>2. (f + N - 1) % N = N - 1
    BY <1>1, <2>1, DivModUnique
  <2> QED
    BY <1>2, <2>2 DEF r
<1>3. CASE r # 0
  <2>1. f + N - 1 = N * (q + 1) + (r - 1) /\ r - 1 \in 0 .. N - 1 /\ q + 1 \in Int
    BY <1>1, <1>3, SMTT(30)
  <2>2. (f + N - 1) % N = r - 1
    BY <2>1, DivModUnique
  <2> QED
    BY <1>1, <1>3, <2>2 DEF r
<1> QED
  BY <1>2, <1>3

(* A sum of 32 bits is in range just when it is, or wraps into it.         *)
LEMMA SumInRange ==
  ASSUME NEW l \in 0 .. UINT32 - 1, NEW n \in 0 .. EXT_MAX
  PROVE  ~((l + n) % UINT32 > MAX_LBA + 1) <=>
           \/ l + n <= MAX_LBA + 1
           \/ l + n \in UINT32 .. (UINT32 + MAX_LBA + 1)
<1>1. /\ UINT32 \in Nat \ {0} /\ EXT_MAX \in Nat /\ EXT_MAX <= UINT32
      /\ MAX_LBA \in Nat /\ MAX_LBA + 1 < UINT32
  BY SataAssumption
<1>2. l \in Nat /\ n \in Nat /\ l < UINT32 /\ n <= UINT32
  BY <1>1
<1>3. CASE l + n < UINT32
  <2>1. (l + n) % UINT32 = l + n
    BY <1>1, <1>2, <1>3, ModSmall
  <2> QED
    BY <1>1, <1>2, <1>3, <2>1
<1>4. CASE l + n >= UINT32
  <2> DEFINE s == l + n - UINT32
  <2>1. s \in 0 .. UINT32 - 1 /\ l + n = UINT32 * 1 + s
    BY <1>1, <1>2, <1>4
  <2>2. (l + n) % UINT32 = s
    BY <1>1, <2>1, DivModUnique
  <2> QED
    BY <1>1, <1>2, <1>4, <2>1, <2>2
<1> QED
  BY <1>1, <1>2, <1>3, <1>4

(* handle_got_cfis decodes a read or a write as the standard means it, and *)
(* what eventq_get makes of its entry is what the FTL is to be told.       *)
LEMMA FastMeaning ==
  ASSUME NEW c \in HostCommands, IsFast(c.code)
  PROVE  /\ LbaOf(c) = Meant(c).lba /\ CountOf(c) = Meant(c).count
         /\ Meant(c).op = IF ata_cmd_class_table[c.code].ccl = "H2D" THEN "write" ELSE "read"
         /\ LbaOf(c) \in Nat /\ CountOf(c) \in 1 .. EXT_MAX
         /\ IsOutOfRange(c) <=> ~Concerns(c)
<1> DEFINE e == ata_cmd_class_table[c.code]
<1>1. c.code \in Codes /\ c.lba \in Nat /\ c.field \in 0 .. EXT_MAX - 1
  BY SataAssumption DEF HostCommands
<1>2. c.code \in {"READ_DMA", "WRITE_DMA", "READ_SECT_EXT", "WRITE_SECT_EXT"}
  BY <1>1, TableEntries DEF IsFast
<1>3. /\ LbaOf(c) = c.lba % UINT32 /\ Meant(c).lba = c.lba % UINT32
      /\ c.lba % UINT32 \in 0 .. UINT32 - 1
  <2>1. UINT32 \in Nat \ {0} /\ c.lba \in Int
    BY <1>1, SataAssumption
  <2>2. c.lba % UINT32 \in 0 .. UINT32 - 1
    BY <2>1, DivMod
  <2>3. c.code # "FLUSH_CACHE" /\ e.lba # "NONE"
    BY <1>1, <1>2, TableEntries
  <2> QED
    BY <2>2, <2>3 DEF LbaOf, Meant
<1>4. CountOf(c) = Meant(c).count /\ CountOf(c) \in 1 .. EXT_MAX
  <2>1. CASE c.code \in {"READ_DMA", "WRITE_DMA"}
    <3>1. CountOf(c) = IF c.field % NOR_MAX = 0 THEN NOR_MAX ELSE c.field % NOR_MAX
      BY <1>1, <2>1, TableEntries DEF CountOf
    <3>2. Meant(c).count = 1 + ((c.field + NOR_MAX - 1) % NOR_MAX)
      BY <2>1 DEF Meant
    <3>3. NOR_MAX \in Nat \ {0} /\ NOR_MAX < EXT_MAX /\ EXT_MAX \in Nat /\ c.field \in Nat
      BY <1>1, SataAssumption
    <3>4. CountOf(c) = Meant(c).count /\ Meant(c).count \in 1 .. NOR_MAX
      BY <3>1, <3>2, <3>3, WholeCount
    <3> QED
      BY <3>3, <3>4
  <2>2. CASE c.code \in {"READ_SECT_EXT", "WRITE_SECT_EXT"}
    <3>1. CountOf(c) = IF c.field = 0 THEN EXT_MAX ELSE c.field
      BY <1>1, <2>2, TableEntries DEF CountOf
    <3>2. Meant(c).count = 1 + ((c.field + EXT_MAX - 1) % EXT_MAX)
      BY <2>2 DEF Meant
    <3>3. c.field % EXT_MAX = c.field
      BY <1>1, ModSmall, SataAssumption
    <3>4. EXT_MAX \in Nat \ {0} /\ c.field \in Nat
      BY <1>1, SataAssumption
    <3>5. /\ Meant(c).count = IF c.field % EXT_MAX = 0 THEN EXT_MAX ELSE c.field % EXT_MAX
          /\ Meant(c).count \in 1 .. EXT_MAX
      BY <3>2, <3>4, WholeCount
    <3> QED
      BY <3>1, <3>3, <3>5
  <2> QED
    BY <1>2, <2>1, <2>2
<1>5. Meant(c).op = IF e.ccl = "H2D" THEN "write" ELSE "read"
  BY <1>1, <1>2, TableEntries DEF Meant
<1>6. IsOutOfRange(c) <=> ~Concerns(c)
  <2>1. e.sect /\ c.code # "FLUSH_CACHE"
    BY <1>1, <1>2, TableEntries
  <2>2. IsOutOfRange(c) <=> (LbaOf(c) + CountOf(c)) % UINT32 > MAX_LBA + 1
    BY <2>1 DEF IsOutOfRange
  <2>3. Concerns(c) <=> \/ LbaOf(c) + CountOf(c) <= MAX_LBA + 1
                        \/ LbaOf(c) + CountOf(c) \in UINT32 .. (UINT32 + MAX_LBA + 1)
    BY <1>3, <1>4, <2>1 DEF Concerns, OnDisk, Wraps
  <2>4. LbaOf(c) \in 0 .. UINT32 - 1 /\ CountOf(c) \in 0 .. EXT_MAX
    BY <1>3, <1>4
  <2> QED
    BY <2>2, <2>3, <2>4, SumInRange
<1>7. LbaOf(c) \in Nat
  BY <1>3, SataAssumption
<1> QED
  BY <1>3, <1>4, <1>5, <1>6, <1>7

(* What a step of the core needs to know of the command in the registers.  *)
LEMMA CommandFacts ==
  ASSUME NEW c \in HostCommands
  PROVE  /\ c.code \in Codes /\ LbaOf(c) \in Nat /\ CountOf(c) \in Nat
         /\ Meant(c) \in Calls
         /\ c.code = "FLUSH_CACHE" =>
               ~IsFast(c.code) /\ ~IsOutOfRange(c) /\ Concerns(c) /\ Meant(c).op = "flush"
         /\ Concerns(c) => ~IsOutOfRange(c) /\ (IsFast(c.code) \/ c.code = "FLUSH_CACHE")
         /\ IsFast(c.code) => /\ Concerns(c) \/ IsOutOfRange(c)
                              /\ Transfer(c).dir = ata_cmd_class_table[c.code].ccl
                              /\ Transfer(c).dir \in {"H2D", "D2H"}
<1> DEFINE e == ata_cmd_class_table[c.code]
<1>1. c.code \in Codes /\ c.lba \in Nat /\ c.field \in 0 .. EXT_MAX - 1
  BY SataAssumption DEF HostCommands
<1>2. NOR_MAX \in Nat \ {0} /\ EXT_MAX \in Nat \ {0} /\ MAX_LBA \in Nat /\ c.field \in Nat
  BY <1>1, SataAssumption
<1>3. LbaOf(c) \in Nat /\ c.lba % UINT32 \in Nat
  <2>1. UINT32 \in Nat \ {0}
    BY SataAssumption
  <2>2. c.lba % UINT32 \in Nat
    BY <1>1, <2>1, DivMod
  <2> QED
    BY <2>2 DEF LbaOf
<1>4. CountOf(c) \in Nat
  <2>1. c.field % NOR_MAX \in Nat
    BY <1>2, DivMod
  <2> QED
    BY <1>1, <1>2, <2>1, TableEntries DEF CountOf
<1>5. Meant(c) \in Calls
  <2>1. /\ 1 + ((c.field + NOR_MAX - 1) % NOR_MAX) \in Nat
        /\ 1 + ((c.field + EXT_MAX - 1) % EXT_MAX) \in Nat
    <3>1. /\ 1 + ((c.field + NOR_MAX - 1) % NOR_MAX) \in 1 .. NOR_MAX
          /\ 1 + ((c.field + EXT_MAX - 1) % EXT_MAX) \in 1 .. EXT_MAX
      BY <1>2, WholeCount
    <3> QED
      BY <1>2, <3>1
  <2>2. Meant(c).op \in {"read", "write", "flush"} /\ Meant(c).lba \in Nat
    BY <1>3 DEF Meant
  <2>3. Meant(c).count \in Nat
    BY <2>1 DEF Meant
  <2>4. Meant(c) = [op |-> Meant(c).op, lba |-> Meant(c).lba, count |-> Meant(c).count]
    BY DEF Meant
  <2> QED
    BY <2>2, <2>3, <2>4 DEF Calls
<1>6. c.code = "FLUSH_CACHE" =>
        ~IsFast(c.code) /\ ~IsOutOfRange(c) /\ Concerns(c) /\ Meant(c).op = "flush"
  <2> SUFFICES ASSUME c.code = "FLUSH_CACHE"
               PROVE  ~IsFast(c.code) /\ ~IsOutOfRange(c) /\ Concerns(c) /\ Meant(c).op = "flush"
    OBVIOUS
  <2>1. e.lba = "NONE" /\ e.ccl \notin {"H2D", "D2H"}
    BY <1>1, TableEntries
  <2>2. LbaOf(c) = 0 /\ CountOf(c) = 0
    BY <2>1 DEF LbaOf, CountOf
  <2>3. ~IsOutOfRange(c)
    <3>1. 0 + 0 <= MAX_LBA + 1 /\ 0 \in 0 .. UINT32 - 1 /\ 0 \in 0 .. EXT_MAX
      BY SataAssumption
    <3> QED
      BY <2>2, <3>1, SumInRange DEF IsOutOfRange
  <2> QED
    BY <2>1, <2>3 DEF IsFast, Concerns, Meant
<1>7. IsFast(c.code) => /\ Concerns(c) <=> ~IsOutOfRange(c)
                        /\ Transfer(c).dir = e.ccl /\ e.ccl \in {"H2D", "D2H"}
  BY FastMeaning DEF IsFast, Transfer
<1>8. Concerns(c) => IsFast(c.code) \/ c.code = "FLUSH_CACHE"
  BY DEF Concerns
<1> QED
  BY <1>1, <1>3, <1>4, <1>5, <1>6, <1>7, <1>8

(* The entry that the hardware makes of a read or a write keeps 16 bits of *)
(* its count, and Main gets back what was meant.                           *)
LEMMA EntryOfCommand ==
  ASSUME NEW c \in HostCommands, IsFast(c.code)
  PROVE  LET e == [write |-> ata_cmd_class_table[c.code].ccl = "H2D",
                   lba |-> LbaOf(c), count |-> CountOf(c) % EXT_MAX]
         IN  e \in EqEntries /\ CallOf(e) = Meant(c)
             /\ (e.write <=> Transfer(c).dir = "H2D")
<1> DEFINE w == ata_cmd_class_table[c.code].ccl = "H2D"
           n == CountOf(c) % EXT_MAX
           e == [write |-> w, lba |-> LbaOf(c), count |-> n]
<1>1. /\ LbaOf(c) = Meant(c).lba /\ CountOf(c) = Meant(c).count /\ LbaOf(c) \in Nat
      /\ Meant(c).op = IF w THEN "write" ELSE "read"
      /\ CountOf(c) \in 1 .. EXT_MAX
  BY FastMeaning
<1>2. EXT_MAX \in Nat \ {0}
  BY SataAssumption
<1>3. n \in Nat /\ (IF n = 0 THEN EXT_MAX ELSE n) = CountOf(c)
  <2>1. CASE CountOf(c) = EXT_MAX
    BY <1>2, <2>1, ModSmall
  <2>2. CASE CountOf(c) \in 1 .. EXT_MAX - 1
    BY <1>2, <2>2, ModSmall
  <2> QED
    BY <1>1, <1>2, <2>1, <2>2
<1>4. e.write <=> Transfer(c).dir = "H2D"
  BY DEF Transfer
<1> HIDE DEF n
<1>5. e \in EqEntries
  BY <1>1, <1>3 DEF EqEntries
<1>6. CallOf(e) = Meant(c)
  <2>1. Meant(c) = [op |-> Meant(c).op, lba |-> Meant(c).lba, count |-> Meant(c).count]
    BY DEF Meant
  <2>2. CallOf(e).op = Meant(c).op /\ CallOf(e).lba = Meant(c).lba
    BY <1>1 DEF CallOf
  <2>3. CallOf(e).count = Meant(c).count
    BY <1>1, <1>3 DEF CallOf, EntryCount
  <2>4. CallOf(e) = [op |-> CallOf(e).op, lba |-> CallOf(e).lba, count |-> CallOf(e).count]
    BY DEF CallOf
  <2> HIDE DEF e
  <2> QED
    BY <2>1, <2>2, <2>3, <2>4
<1> QED
  BY <1>4, <1>5, <1>6 DEF n

(* Dropping the first element of a sequence.                               *)
LEMMA DropFirst ==
  ASSUME NEW S, NEW s \in Seq(S), s # <<>>
  PROVE  /\ SubSeq(s, 2, Len(s)) \in Seq(S)
         /\ Len(SubSeq(s, 2, Len(s))) = Len(s) - 1
         /\ \A i \in 1 .. Len(s) - 1 : SubSeq(s, 2, Len(s))[i] = s[i + 1]
<1>1. SubSeq(s, 2, Len(s)) = Tail(s)
  BY TailIsSubSeq
<1> QED
  BY <1>1, HeadTailProperties

(* Dropping the last element of a sequence.                                *)
LEMMA DropLast ==
  ASSUME NEW S, NEW s \in Seq(S), Len(s) > 0
  PROVE  /\ SubSeq(s, 1, Len(s) - 1) \in Seq(S)
         /\ Len(SubSeq(s, 1, Len(s) - 1)) = Len(s) - 1
         /\ \A i \in 1 .. Len(s) - 1 : SubSeq(s, 1, Len(s) - 1)[i] = s[i]
<1> DEFINE n == Len(s) - 1
<1>1. Len(s) \in Nat /\ n \in Nat /\ \A i \in 1 .. n : s[i] \in S
  BY LenProperties, ElementOfSeq
<1> HIDE DEF n
<1>2. /\ SubSeq(s, 1, n) \in Seq(S)
      /\ Len(SubSeq(s, 1, n)) = IF 1 <= n THEN n - 1 + 1 ELSE 0
      /\ \A i \in 1 .. n - 1 + 1 : SubSeq(s, 1, n)[i] = s[1 + i - 1]
  BY <1>1, SubSeqProperties
<1>3. Len(SubSeq(s, 1, n)) = n
  BY <1>1, <1>2
<1>4. ASSUME NEW i \in 1 .. n PROVE SubSeq(s, 1, n)[i] = s[i]
  <2>1. i \in 1 .. n - 1 + 1 /\ 1 + i - 1 = i
    BY <1>1
  <2> QED
    BY <1>2, <2>1
<1> QED
  BY <1>2, <1>3, <1>4 DEF n

-----------------------------------------------------------------------------
(* Every step keeps the invariant *)

(* Taking a read or a write appends to the queue what the command means.   *)
LEMMA InsertEqFacts ==
  ASSUME IInv, InsertEq
  PROVE  /\ h2d \in HostCommands /\ IsFast(h2d.code) /\ Arriving
         /\ host = "waiting" /\ ~SlowOutstanding /\ ~FastOutstanding
         /\ ~srst /\ ~dropped
         /\ eq' \in Seq(EqEntries) /\ Len(eq') = Len(eq) + 1 /\ Len(eq) \in Nat
         /\ \A i \in 1..Len(eq) : eq'[i] = eq[i]
         /\ CallOf(eq'[Len(eq')]) = Meant(h2d)
         /\ eq'[Len(eq')].write <=> Transfer(h2d).dir = "H2D"
         /\ Transfer(h2d).dir \in {"H2D", "D2H"}
<1> DEFINE e == [write |-> ata_cmd_class_table[h2d.code].ccl = "H2D",
                 lba |-> LbaOf(h2d), count |-> CountOf(h2d) % EXT_MAX]
<1>1. h2d \in HostCommands /\ IsFast(h2d.code) /\ int = "CMD_RECV" /\ host = "waiting"
  BY DEF IInv, OnePlace, InsertEq, GotCfis
<1>2. Arriving
  BY <1>1, FastMeaning DEF InsertEq, Arriving
<1>3. ~SlowOutstanding /\ ~FastOutstanding /\ ~srst /\ ~dropped
  BY <1>1 DEF IInv, OnePlace
<1>4. /\ e \in EqEntries /\ CallOf(e) = Meant(h2d) /\ (e.write <=> Transfer(h2d).dir = "H2D")
      /\ Transfer(h2d).dir \in {"H2D", "D2H"}
  BY <1>1, EntryOfCommand, CommandFacts
<1>5. eq \in Seq(EqEntries) /\ eq' = Append(eq, e) /\ Len(eq) \in Nat
  BY LenProperties DEF IInv, Types, InsertEq
<1> HIDE DEF e
<1>6. /\ eq' \in Seq(EqEntries) /\ Len(eq') = Len(eq) + 1
      /\ \A i \in 1..Len(eq) : eq'[i] = eq[i]
      /\ eq'[Len(eq) + 1] = e
  BY <1>4, <1>5, AppendProperties
<1> QED
  BY <1>1, <1>2, <1>3, <1>4, <1>5, <1>6

(* Whatever becomes of its transfer, the entry keeps the queue in line     *)
(* with what the FTL has not been told.                                    *)
LEMMA InsertEqKeeps ==
  ASSUME IInv, InsertEq
  PROVE  /\ Types' \/ eq_full' \notin BOOLEAN
         /\ Len(eq) < EQ_LIMIT
         /\ Untold' /\ LateArrivals'
         /\ rdata' = 0 /\ ~(pc' = "ftl" /\ cmd'.op = "read")
         /\ \A i \in 1..Len(eq') : ~eq'[i].write => i = Len(eq') /\ Transfer(h2d).dir = "D2H"
<1>1. \A i \in 1..Len(eq') : i \in 1..Len(eq) \/ i = Len(eq')
  BY InsertEqFacts
<1>2. Len(eq) < EQ_LIMIT
  BY InsertEqFacts, SataAssumption DEF IInv, Types, TypeOK, FullWhenSaid, FastOutstanding
<1>3. Len(todo) = Len(eq') /\ todo[Len(eq')] = Meant(h2d)
  BY InsertEqFacts DEF IInv, Untold
<1>4. Untold'
  <2>1. ~Arriving' /\ ~Flushing'
    BY InsertEqFacts DEF InsertEq, GotCfis, Arriving, Flushing, SlowOutstanding, mainVars
  <2>2. \A i \in 1..Len(eq') : todo[i] = CallOf(eq'[i])
    BY <1>1, <1>3, InsertEqFacts DEF IInv, Untold
  <2> QED
    BY <1>3, <2>1, <2>2, InsertEqFacts DEF Untold, InsertEq
<1>5. late' \in 0..Len(eq') /\ LateArrivals'
  BY InsertEqFacts DEF IInv, Types, LateArrivals, SlowOutstanding, InsertEq, mainVars
<1>6. Types' \/ eq_full' \notin BOOLEAN
  BY <1>2, <1>3, <1>5, InsertEqFacts, SataAssumption
  DEF IInv, Types, TypeOK, InsertEq, GotCfis, dataVars, mainVars
<1>7. rdata = 0 /\ ~(pc = "ftl" /\ cmd.op = "read") /\ \A i \in 1..Len(eq) : eq[i].write
  BY InsertEqFacts DEF IInv, Types, TypeOK, ReadUnderWay, FastOutstanding, NoAction
<1>8. \A i \in 1..Len(eq') : ~eq'[i].write => i = Len(eq') /\ Transfer(h2d).dir = "D2H"
  BY <1>1, <1>7, InsertEqFacts
<1> QED
  BY <1>2, <1>4, <1>5, <1>6, <1>7, <1>8 DEF InsertEq, dataVars, mainVars

(* The host sends a command: it is in the registers and nowhere else.      *)
LEMMA SendStep ==
  ASSUME IInv, NEW c \in HostCommands, Send(c) PROVE IInv'
<1>1. Types'
  BY CommandFacts DEF IInv, Types, TypeOK, Send, queueVars, dataVars, mainVars
<1>2. OnePlace'
  BY DEF IInv, OnePlace, SlowOutstanding, FastOutstanding, Send, queueVars, dataVars,
    mainVars
<1>3. Transfers'
  BY DEF IInv, Transfers, FastOutstanding, OnePlace, SlowOutstanding, Send, queueVars,
    dataVars, mainVars
<1>4. FullWhenSaid'
  BY DEF IInv, FullWhenSaid, Send, queueVars, dataVars, mainVars
<1>5. ReadUnderWay'
  BY DEF IInv, ReadUnderWay, Send, queueVars, dataVars, mainVars
<1>6. Untold'
  BY DEF IInv, Untold, Arriving, Flushing, SlowOutstanding, OnePlace, FastOutstanding,
    Send, queueVars, dataVars, mainVars
<1>7. LateArrivals'
  BY DEF IInv, LateArrivals, Send, queueVars, dataVars, mainVars
<1> QED
  BY <1>1, <1>2, <1>3, <1>4, <1>5, <1>6, <1>7 DEF IInv

(* The host gives up on a command that was overwritten and begins a reset. *)
LEMMA ResetStep ==
  ASSUME IInv, Reset PROVE IInv'
<1>1. Types'
  BY DEF IInv, Types, TypeOK, Reset, queueVars, dataVars, mainVars
<1>2. OnePlace'
  BY DEF IInv, OnePlace, SlowOutstanding, FastOutstanding, Reset, queueVars, dataVars,
    mainVars
<1>3. Transfers'
  BY DEF IInv, Transfers, FastOutstanding, Reset, queueVars, dataVars, mainVars
<1>4. FullWhenSaid'
  BY DEF IInv, FullWhenSaid, Reset, queueVars, dataVars, mainVars
<1>5. ReadUnderWay'
  BY DEF IInv, ReadUnderWay, Reset, queueVars, dataVars, mainVars
<1>6. Untold'
  BY DEF IInv, Untold, Arriving, Flushing, SlowOutstanding, Reset, queueVars, dataVars,
    mainVars
<1>7. LateArrivals'
  BY DEF IInv, LateArrivals, Reset, queueVars, dataVars, mainVars
<1> QED
  BY <1>1, <1>2, <1>3, <1>4, <1>5, <1>6, <1>7 DEF IInv

(* The host ends its reset.                                                *)
LEMMA ResetEndStep ==
  ASSUME IInv, ResetEnd PROVE IInv'
<1>1. Types'
  BY DEF IInv, Types, TypeOK, ResetEnd, queueVars, dataVars, mainVars, ghosts
<1>2. OnePlace'
  BY DEF IInv, OnePlace, SlowOutstanding, FastOutstanding, ResetEnd, queueVars, dataVars,
    mainVars, ghosts
<1>3. Transfers'
  BY DEF IInv, Transfers, FastOutstanding, ResetEnd, queueVars, dataVars, mainVars, ghosts
<1>4. FullWhenSaid'
  BY DEF IInv, FullWhenSaid, ResetEnd, queueVars, dataVars, mainVars, ghosts
<1>5. ReadUnderWay'
  BY DEF IInv, ReadUnderWay, ResetEnd, queueVars, dataVars, mainVars, ghosts
<1>6. Untold'
  BY DEF IInv, Untold, Arriving, Flushing, SlowOutstanding, ResetEnd, queueVars, dataVars,
    mainVars, ghosts
<1>7. LateArrivals'
  BY DEF IInv, LateArrivals, ResetEnd, queueVars, dataVars, mainVars, ghosts
<1> QED
  BY <1>1, <1>2, <1>3, <1>4, <1>5, <1>6, <1>7 DEF IInv

(* handle_got_cfis refuses a command: the host may send the next one.      *)
LEMMA GotCfisOutOfRangeStep ==
  ASSUME IInv, GotCfisOutOfRange PROVE IInv'
<1>1. Types'
  BY DEF IInv, Types, TypeOK, GotCfisOutOfRange, GotCfis, send_status_to_host, queueVars,
    dataVars, mainVars, ghosts
<1>2. OnePlace'
  BY DEF IInv, OnePlace, SlowOutstanding, FastOutstanding, GotCfisOutOfRange, GotCfis,
    send_status_to_host, queueVars, dataVars, mainVars, ghosts
<1>3. Transfers'
  BY DEF IInv, Transfers, FastOutstanding, GotCfisOutOfRange, GotCfis,
    send_status_to_host, queueVars, dataVars, mainVars, ghosts
<1>4. FullWhenSaid'
  BY DEF IInv, FullWhenSaid, GotCfisOutOfRange, GotCfis, send_status_to_host, queueVars,
    dataVars, mainVars, ghosts
<1>5. ReadUnderWay'
  BY DEF IInv, ReadUnderWay, GotCfisOutOfRange, GotCfis, send_status_to_host, queueVars,
    dataVars, mainVars, ghosts
<1>6. Untold'
  BY CommandFacts
  DEF IInv, Untold, Arriving, Flushing, SlowOutstanding, OnePlace, FastOutstanding,
    GotCfisOutOfRange, GotCfis, send_status_to_host, queueVars, dataVars, mainVars, ghosts
<1>7. LateArrivals'
  BY DEF IInv, LateArrivals, GotCfisOutOfRange, GotCfis, send_status_to_host, queueVars,
    dataVars, mainVars, ghosts
<1> QED
  BY <1>1, <1>2, <1>3, <1>4, <1>5, <1>6, <1>7 DEF IInv

(* handle_got_cfis starts the transfer of a read or a write.               *)
LEMMA GotCfisFastStep ==
  ASSUME IInv, GotCfisFast PROVE IInv'
<1>0. InsertEq
  BY DEF GotCfisFast
<1>1. Types'
  BY <1>0, InsertEqKeeps DEF IInv, Types, TypeOK, GotCfisFast
<1>2. OnePlace'
  BY <1>0, InsertEqFacts DEF IInv, OnePlace, SlowOutstanding, FastOutstanding, NoAction,
     GotCfisFast, InsertEq, GotCfis, mainVars
<1>3. Transfers'
  BY <1>0, InsertEqFacts DEF Transfers, FastOutstanding, NoAction, GotCfisFast, InsertEq
<1>4. FullWhenSaid'
  BY <1>0, InsertEqFacts, InsertEqKeeps, SataAssumption
  DEF FullWhenSaid, FastOutstanding, GotCfisFast, EqIsFull
<1>5. ReadUnderWay'
  BY <1>0, InsertEqKeeps DEF ReadUnderWay, GotCfisFast, InsertEq
<1>6. Untold'
  BY <1>0, InsertEqKeeps
<1>7. LateArrivals'
  BY <1>0, InsertEqKeeps
<1> QED
  BY <1>1, <1>2, <1>3, <1>4, <1>5, <1>6, <1>7 DEF IInv

(* handle_got_cfis keeps the transfer when the queue is full.              *)
LEMMA GotCfisFullStep ==
  ASSUME IInv, GotCfisFull PROVE IInv'
<1>0. InsertEq
  BY DEF GotCfisFull
<1>1. Types'
  BY <1>0, InsertEqKeeps DEF IInv, Types, TypeOK, GotCfisFull
<1>2. OnePlace'
  BY <1>0, InsertEqFacts DEF IInv, OnePlace, SlowOutstanding, FastOutstanding, NoAction,
     GotCfisFull, InsertEq, GotCfis, mainVars
<1>3. Transfers'
  BY <1>0, InsertEqFacts DEF Transfers, FastOutstanding, NoAction, GotCfisFull, InsertEq
<1>4. FullWhenSaid'
  BY <1>0, InsertEqFacts, InsertEqKeeps, SataAssumption
  DEF FullWhenSaid, FastOutstanding, GotCfisFull, EqIsFull
<1>5. ReadUnderWay'
  BY <1>0, InsertEqKeeps DEF ReadUnderWay, GotCfisFull, InsertEq
<1>6. Untold'
  BY <1>0, InsertEqKeeps
<1>7. LateArrivals'
  BY <1>0, InsertEqKeeps
<1> QED
  BY <1>1, <1>2, <1>3, <1>4, <1>5, <1>6, <1>7 DEF IInv

(* handle_got_cfis takes a slow command.                                   *)
LEMMA GotCfisSlowStep ==
  ASSUME IInv, GotCfisSlow PROVE IInv'
<1>1. Types'
  BY CommandFacts
  DEF IInv, Types, TypeOK, OnePlace, SlowOutstanding, FastOutstanding, GotCfisSlow,
    GotCfis, queueVars, dataVars, mainVars, ghosts
<1>2. OnePlace'
  BY DEF IInv, OnePlace, SlowOutstanding, FastOutstanding, GotCfisSlow, GotCfis,
    queueVars, dataVars, mainVars, ghosts
<1>3. Transfers'
  BY DEF IInv, Transfers, FastOutstanding, GotCfisSlow, GotCfis, queueVars, dataVars,
    mainVars, ghosts
<1>4. FullWhenSaid'
  BY DEF IInv, FullWhenSaid, GotCfisSlow, GotCfis, queueVars, dataVars, mainVars, ghosts
<1>5. ReadUnderWay'
  BY DEF IInv, ReadUnderWay, GotCfisSlow, GotCfis, queueVars, dataVars, mainVars, ghosts
<1>6. Untold'
  BY CommandFacts
  DEF IInv, Untold, Arriving, Flushing, SlowOutstanding, OnePlace, FastOutstanding,
    GotCfisSlow, GotCfis, queueVars, dataVars, mainVars, ghosts
<1>7. LateArrivals'
  BY DEF IInv, LateArrivals, GotCfisSlow, GotCfis, queueVars, dataVars, mainVars, ghosts
<1> QED
  BY <1>1, <1>2, <1>3, <1>4, <1>5, <1>6, <1>7 DEF IInv

(* handle_srst begins a reset.                                             *)
LEMMA SrstOnStep ==
  ASSUME IInv, SrstOn PROVE IInv'
<1>1. Types'
  BY DEF IInv, Types, TypeOK, SrstOn, queueVars, dataVars, mainVars, ghosts
<1>2. OnePlace'
  BY DEF IInv, OnePlace, SlowOutstanding, FastOutstanding, SrstOn, queueVars, dataVars,
    mainVars, ghosts
<1>3. Transfers'
  BY DEF IInv, Transfers, FastOutstanding, SrstOn, queueVars, dataVars, mainVars, ghosts
<1>4. FullWhenSaid'
  BY DEF IInv, FullWhenSaid, SrstOn, queueVars, dataVars, mainVars, ghosts
<1>5. ReadUnderWay'
  BY DEF IInv, ReadUnderWay, SrstOn, queueVars, dataVars, mainVars, ghosts
<1>6. Untold'
  BY DEF IInv, Untold, Arriving, Flushing, SlowOutstanding, SrstOn, queueVars, dataVars,
    mainVars, ghosts
<1>7. LateArrivals'
  BY DEF IInv, LateArrivals, SrstOn, queueVars, dataVars, mainVars, ghosts
<1> QED
  BY <1>1, <1>2, <1>3, <1>4, <1>5, <1>6, <1>7 DEF IInv

(* handle_srst ends a reset and leaves it to Main as a slow command.       *)
LEMMA SrstOffStep ==
  ASSUME IInv, SrstOff PROVE IInv'
<1>1. Types'
  <2>1. slow_cmd' \in [status : {"NONE", "PENDING", "BUSY"}, code : Codes \cup {"none"},
                       lba : Nat, count : Nat]
    BY CodesKnown DEF IInv, Types, SrstOff, PendingSrst
  <2> QED
    BY <2>1 DEF IInv, Types, TypeOK, SrstOff, PendingSrst, hostVars, queueVars,
      dataVars, mainVars, ghosts
<1>2. OnePlace'
  BY DEF IInv, OnePlace, SlowOutstanding, FastOutstanding, SrstOff, PendingSrst,
    queueVars, dataVars, mainVars, ghosts
<1>3. Transfers'
  BY DEF IInv, Transfers, FastOutstanding, SrstOff, PendingSrst, queueVars, dataVars,
    mainVars, ghosts
<1>4. FullWhenSaid'
  BY DEF IInv, FullWhenSaid, SrstOff, PendingSrst, queueVars, dataVars, mainVars, ghosts
<1>5. ReadUnderWay'
  BY DEF IInv, ReadUnderWay, SrstOff, PendingSrst, queueVars, dataVars, mainVars, ghosts
<1>6. Untold'
  BY DEF IInv, Untold, Arriving, Flushing, SlowOutstanding, OnePlace, FastOutstanding,
    SrstOff, PendingSrst, queueVars, dataVars, mainVars, ghosts
<1>7. LateArrivals'
  BY DEF IInv, LateArrivals, SrstOff, PendingSrst, queueVars, dataVars, mainVars, ghosts
<1> QED
  BY <1>1, <1>2, <1>3, <1>4, <1>5, <1>6, <1>7 DEF IInv

(* The link comes up, which Main handles as a reset.                       *)
LEMMA PhyOnlineStep ==
  ASSUME IInv, PhyOnline PROVE IInv'
<1>1. Types'
  <2>1. slow_cmd' \in [status : {"NONE", "PENDING", "BUSY"}, code : Codes \cup {"none"},
                       lba : Nat, count : Nat]
    BY CodesKnown DEF IInv, Types, PhyOnline, PendingSrst
  <2> QED
    BY <2>1 DEF IInv, Types, TypeOK, PhyOnline, PendingSrst, hostVars, queueVars,
      dataVars, mainVars, ghosts
<1>2. OnePlace'
  BY DEF IInv, OnePlace, SlowOutstanding, FastOutstanding, PhyOnline, PendingSrst,
    queueVars, dataVars, mainVars, ghosts
<1>3. Transfers'
  BY DEF IInv, Transfers, FastOutstanding, PhyOnline, PendingSrst, queueVars, dataVars,
    mainVars, ghosts
<1>4. FullWhenSaid'
  BY DEF IInv, FullWhenSaid, PhyOnline, PendingSrst, queueVars, dataVars, mainVars, ghosts
<1>5. ReadUnderWay'
  BY DEF IInv, ReadUnderWay, PhyOnline, PendingSrst, queueVars, dataVars, mainVars, ghosts
<1>6. Untold'
  BY DEF IInv, Untold, Arriving, Flushing, SlowOutstanding, OnePlace, FastOutstanding,
    PhyOnline, PendingSrst, queueVars, dataVars, mainVars, ghosts
<1>7. LateArrivals'
  BY DEF IInv, LateArrivals, PhyOnline, PendingSrst, queueVars, dataVars, mainVars, ghosts
<1> QED
  BY <1>1, <1>2, <1>3, <1>4, <1>5, <1>6, <1>7 DEF IInv

(* The data of a write arrives.                                            *)
LEMMA ReceiveDataStep ==
  ASSUME IInv, ReceiveData PROVE IInv'
<1>1. Types'
  BY SataAssumption DEF IInv, Types, TypeOK, ReceiveData, hostVars, mainVars, ghosts
<1>2. OnePlace'
  BY DEF IInv, OnePlace, SlowOutstanding, FastOutstanding, NoAction, ReceiveData,
    hostVars, mainVars, ghosts
<1>3. Transfers'
  BY DEF IInv, Transfers, FastOutstanding, NoAction, ReceiveData, hostVars, mainVars,
    ghosts
<1>4. FullWhenSaid'
  BY DEF IInv, FullWhenSaid, ReceiveData, hostVars, mainVars, ghosts
<1>5. ReadUnderWay'
  BY DEF IInv, ReadUnderWay, ReceiveData, hostVars, mainVars, ghosts
<1>6. Untold'
  BY DEF IInv, Untold, Arriving, Flushing, SlowOutstanding, ReceiveData, hostVars,
    mainVars, ghosts
<1>7. LateArrivals'
  BY DEF IInv, LateArrivals, ReceiveData, hostVars, mainVars, ghosts
<1> QED
  BY <1>1, <1>2, <1>3, <1>4, <1>5, <1>6, <1>7 DEF IInv

(* The data of a read leaves.                                              *)
LEMMA SendDataStep ==
  ASSUME IInv, SendData PROVE IInv'
<1>1. Types'
  BY DEF IInv, Types, TypeOK, SendData, hostVars, mainVars, ghosts
<1>2. OnePlace'
  BY DEF IInv, OnePlace, SlowOutstanding, FastOutstanding, NoAction, SendData, hostVars,
    mainVars, ghosts
<1>3. Transfers'
  BY DEF IInv, Transfers, FastOutstanding, NoAction, SendData, hostVars, mainVars, ghosts
<1>4. FullWhenSaid'
  BY DEF IInv, FullWhenSaid, SendData, hostVars, mainVars, ghosts
<1>5. ReadUnderWay'
  BY DEF IInv, ReadUnderWay, Types, TypeOK, SendData, hostVars, mainVars, ghosts
<1>6. Untold'
  BY DEF IInv, Untold, Arriving, Flushing, SlowOutstanding, SendData, hostVars, mainVars,
    ghosts
<1>7. LateArrivals'
  BY DEF IInv, LateArrivals, SendData, hostVars, mainVars, ghosts
<1> QED
  BY <1>1, <1>2, <1>3, <1>4, <1>5, <1>6, <1>7 DEF IInv

(* The hardware answers a read or a write.                                 *)
LEMMA CompleteStep ==
  ASSUME IInv, Complete PROVE IInv'
<1>1. Types'
  BY DEF IInv, Types, TypeOK, Complete, dataVars, mainVars, ghosts
<1>2. OnePlace'
  BY DEF IInv, OnePlace, SlowOutstanding, FastOutstanding, NoAction, Transfers, Complete,
    dataVars, mainVars, ghosts
<1>3. Transfers'
  BY DEF IInv, Transfers, FastOutstanding, Complete, dataVars, mainVars, ghosts
<1>4. FullWhenSaid'
  BY DEF IInv, FullWhenSaid, Complete, dataVars, mainVars, ghosts
<1>5. ReadUnderWay'
  BY DEF IInv, ReadUnderWay, Complete, dataVars, mainVars, ghosts
<1>6. Untold'
  BY DEF IInv, Untold, Arriving, Flushing, SlowOutstanding, Complete, dataVars, mainVars,
    ghosts
<1>7. LateArrivals'
  BY DEF IInv, LateArrivals, Complete, dataVars, mainVars, ghosts
<1> QED
  BY <1>1, <1>2, <1>3, <1>4, <1>5, <1>6, <1>7 DEF IInv

(* eventq_get takes the first entry and starts the transfer that was kept. *)
LEMMA EventqGetStep ==
  ASSUME IInv, EventqGet PROVE IInv'
<1>1. Types'
  <2>1. eq \in Seq(EqEntries) /\ eq # <<>> /\ Len(eq) \in Nat \ {0} /\ Len(todo) >= Len(eq)
        /\ todo \in Seq(Calls) /\ Len(todo) \in Nat
    BY LenProperties, EmptySeq DEF IInv, Types, Untold, EventqGet
  <2>2. todo # <<>>
    BY <2>1, EmptySeq
  <2>3. eq' \in Seq(EqEntries) /\ Len(eq') = Len(eq) - 1
    BY <2>1, HeadTailProperties DEF EventqGet
  <2>4. todo' \in Seq(Calls) /\ Len(todo') = Len(todo) - 1
    BY <2>1, <2>2, DropFirst DEF EventqGet
  <2>5. late' = 0
    BY DEF IInv, LateArrivals, EventqGet
  <2>6. /\ host' = host /\ h2d' = h2d /\ int' = int /\ srst' = srst /\ slow_cmd' = slow_cmd
        /\ wdata' = wdata /\ rdata' = rdata /\ dropped' = dropped
        /\ eq_full' = FALSE /\ pc' = "ftl"
    BY DEF EventqGet, ClearFull, hostVars, dataVars
  <2>7. Len(eq') <= EQ_LIMIT /\ late' \in 0..Len(todo') /\ late' \in 0..Len(eq')
    BY <2>1, <2>3, <2>4, <2>5, SataAssumption DEF IInv, Types, TypeOK
  <2> QED
    BY <2>3, <2>4, <2>6, <2>7 DEF IInv, Types, TypeOK
<1>2. OnePlace'
  BY DEF IInv, OnePlace, SlowOutstanding, FastOutstanding, EventqGet, StartKept,
    ClearFull, hostVars, dataVars
<1>3. Transfers'
  BY CommandFacts
  DEF IInv, Transfers, FastOutstanding, OnePlace, SlowOutstanding, NoAction, EventqGet,
    StartKept, ClearFull, hostVars, dataVars
<1>4. FullWhenSaid'
  BY DEF IInv, FullWhenSaid, Types, TypeOK, EventqGet, StartKept, ClearFull, hostVars,
    dataVars
<1>5. ReadUnderWay'
  BY DEF IInv, ReadUnderWay, OnePlace, SlowOutstanding, FastOutstanding, NoAction,
    Transfers, EventqGet, StartKept, ClearFull, hostVars, dataVars
<1>6. Untold'
  BY DEF IInv, Untold, Arriving, Flushing, SlowOutstanding, EventqGet, StartKept,
    ClearFull, hostVars, dataVars
<1>7. LateArrivals'
  BY DEF IInv, LateArrivals, EventqGet, StartKept, ClearFull, hostVars, dataVars
<1> QED
  BY <1>1, <1>2, <1>3, <1>4, <1>5, <1>6, <1>7 DEF IInv

(* The FTL takes the data of a write.                                      *)
LEMMA ftl_writeStep ==
  ASSUME IInv, ftl_write PROVE IInv'
<1>1. Types'
  BY SataAssumption DEF IInv, Types, TypeOK, ftl_write, hostVars, queueVars, ghosts
<1>2. OnePlace'
  BY DEF IInv, OnePlace, SlowOutstanding, FastOutstanding, ftl_write, hostVars, queueVars,
    ghosts
<1>3. Transfers'
  BY DEF IInv, Transfers, FastOutstanding, ftl_write, hostVars, queueVars, ghosts
<1>4. FullWhenSaid'
  BY DEF IInv, FullWhenSaid, ftl_write, hostVars, queueVars, ghosts
<1>5. ReadUnderWay'
  BY DEF IInv, ReadUnderWay, ftl_write, hostVars, queueVars, ghosts
<1>6. Untold'
  BY DEF IInv, Untold, Arriving, Flushing, SlowOutstanding, ftl_write, hostVars,
    queueVars, ghosts
<1>7. LateArrivals'
  BY DEF IInv, LateArrivals, ftl_write, hostVars, queueVars, ghosts
<1> QED
  BY <1>1, <1>2, <1>3, <1>4, <1>5, <1>6, <1>7 DEF IInv

(* The FTL leaves the data of a read.                                      *)
LEMMA ftl_readStep ==
  ASSUME IInv, ftl_read PROVE IInv'
<1>1. Types'
  <2>1. rdata = 0
    BY DEF IInv, ReadUnderWay, ftl_read
  <2> QED
    BY <2>1 DEF IInv, Types, TypeOK, ftl_read, hostVars, queueVars, ghosts
<1>2. OnePlace'
  BY DEF IInv, OnePlace, SlowOutstanding, FastOutstanding, ftl_read, hostVars, queueVars,
    ghosts
<1>3. Transfers'
  BY DEF IInv, Transfers, FastOutstanding, ftl_read, hostVars, queueVars, ghosts
<1>4. FullWhenSaid'
  BY DEF IInv, FullWhenSaid, ftl_read, hostVars, queueVars, ghosts
<1>5. ReadUnderWay'
  BY DEF IInv, ReadUnderWay, ftl_read, hostVars, queueVars, ghosts
<1>6. Untold'
  BY DEF IInv, Untold, Arriving, Flushing, SlowOutstanding, ftl_read, hostVars, queueVars,
    ghosts
<1>7. LateArrivals'
  BY DEF IInv, LateArrivals, ftl_read, hostVars, queueVars, ghosts
<1> QED
  BY <1>1, <1>2, <1>3, <1>4, <1>5, <1>6, <1>7 DEF IInv

(* Main finds the queue empty.                                             *)
LEMMA NoEventStep ==
  ASSUME IInv, NoEvent PROVE IInv'
<1>1. Types'
  BY DEF IInv, Types, TypeOK, NoEvent, hostVars, queueVars, dataVars
<1>2. OnePlace'
  BY DEF IInv, OnePlace, SlowOutstanding, FastOutstanding, NoEvent, hostVars, queueVars,
    dataVars
<1>3. Transfers'
  BY DEF IInv, Transfers, FastOutstanding, NoEvent, hostVars, queueVars, dataVars
<1>4. FullWhenSaid'
  BY DEF IInv, FullWhenSaid, NoEvent, hostVars, queueVars, dataVars
<1>5. ReadUnderWay'
  BY DEF IInv, ReadUnderWay, NoEvent, hostVars, queueVars, dataVars
<1>6. Untold'
  BY DEF IInv, Untold, Arriving, Flushing, SlowOutstanding, NoEvent, hostVars, queueVars,
    dataVars
<1>7. LateArrivals'
  BY DEF IInv, LateArrivals, NoEvent, hostVars, queueVars, dataVars
<1> QED
  BY <1>1, <1>2, <1>3, <1>4, <1>5, <1>6, <1>7 DEF IInv

(* Main finds no slow command.                                             *)
LEMMA NoSlowStep ==
  ASSUME IInv, NoSlow PROVE IInv'
<1>1. Types'
  BY DEF IInv, Types, TypeOK, NoSlow, SlowTurn, hostVars, queueVars, dataVars
<1>2. OnePlace'
  BY DEF IInv, OnePlace, SlowOutstanding, FastOutstanding, NoSlow, SlowTurn, hostVars,
    queueVars, dataVars
<1>3. Transfers'
  BY DEF IInv, Transfers, FastOutstanding, NoSlow, SlowTurn, hostVars, queueVars, dataVars
<1>4. FullWhenSaid'
  BY DEF IInv, FullWhenSaid, NoSlow, SlowTurn, hostVars, queueVars, dataVars
<1>5. ReadUnderWay'
  BY DEF IInv, ReadUnderWay, NoSlow, SlowTurn, hostVars, queueVars, dataVars
<1>6. Untold'
  BY DEF IInv, Untold, Arriving, Flushing, SlowOutstanding, NoSlow, SlowTurn, hostVars,
    queueVars, dataVars
<1>7. LateArrivals'
  BY DEF IInv, LateArrivals, NoSlow, SlowTurn, hostVars, queueVars, dataVars
<1> QED
  BY <1>1, <1>2, <1>3, <1>4, <1>5, <1>6, <1>7 DEF IInv

(* Main takes the slow command.                                            *)
LEMMA TakeSlowStep ==
  ASSUME IInv, TakeSlow PROVE IInv'
<1>1. Types'
  BY DEF IInv, Types, TypeOK, TakeSlow, SlowTurn, hostVars, queueVars, dataVars, ghosts
<1>2. OnePlace'
  BY DEF IInv, OnePlace, SlowOutstanding, FastOutstanding, TakeSlow, SlowTurn, hostVars,
    queueVars, dataVars, ghosts
<1>3. Transfers'
  BY DEF IInv, Transfers, FastOutstanding, TakeSlow, SlowTurn, hostVars, queueVars,
    dataVars, ghosts
<1>4. FullWhenSaid'
  BY DEF IInv, FullWhenSaid, TakeSlow, SlowTurn, hostVars, queueVars, dataVars, ghosts
<1>5. ReadUnderWay'
  BY DEF IInv, ReadUnderWay, TakeSlow, SlowTurn, hostVars, queueVars, dataVars, ghosts
<1>6. Untold'
  BY DEF IInv, Untold, Arriving, Flushing, SlowOutstanding, TakeSlow, SlowTurn, hostVars,
    queueVars, dataVars, ghosts
<1>7. LateArrivals'
  BY DEF IInv, LateArrivals, TakeSlow, SlowTurn, hostVars, queueVars, dataVars, ghosts
<1> QED
  BY <1>1, <1>2, <1>3, <1>4, <1>5, <1>6, <1>7 DEF IInv

(* The function of the slow command answers the host.                      *)
LEMMA AtaFunctionStep ==
  ASSUME IInv, AtaFunction PROVE IInv'
<1>1. Types'
  <2>1. todo' \in Seq(Calls) /\ Len(todo') \in Nat /\ Len(todo') >= Len(eq)
    <3>1. CASE slow_cmd.code = "FLUSH_CACHE"
      <4>1. Len(todo) = Len(eq) + 1 /\ Len(eq) \in Nat /\ todo \in Seq(Calls)
        BY <3>1, LenProperties DEF IInv, Types, Untold, Flushing, SlowOutstanding, AtaFunction
      <4> QED
        BY <3>1, <4>1, DropLast DEF AtaFunction, search_ata_function
    <3>2. CASE slow_cmd.code # "FLUSH_CACHE"
      <4>1. todo' = todo /\ todo \in Seq(Calls) /\ Len(todo) >= Len(eq)
        BY <3>2, LenProperties DEF IInv, Types, Untold, AtaFunction, search_ata_function
      <4> QED
        BY <4>1, LenProperties
    <3> QED
      BY <3>1, <3>2
  <2> QED
    BY <2>1 DEF IInv, Types, TypeOK, AtaFunction, send_status_to_host, queueVars, dataVars
<1>2. OnePlace'
  BY DEF IInv, OnePlace, SlowOutstanding, FastOutstanding, AtaFunction,
    search_ata_function, send_status_to_host, queueVars, dataVars
<1>3. Transfers'
  BY DEF IInv, Transfers, FastOutstanding, AtaFunction, search_ata_function,
    send_status_to_host, queueVars, dataVars
<1>4. FullWhenSaid'
  BY DEF IInv, FullWhenSaid, AtaFunction, search_ata_function, send_status_to_host,
    queueVars, dataVars
<1>5. ReadUnderWay'
  BY DEF IInv, ReadUnderWay, AtaFunction, search_ata_function, send_status_to_host,
    queueVars, dataVars
<1>6. Untold'
  <2>1. ~Flushing' /\ ~Arriving' /\ ~Arriving /\ eq' = eq /\ Len(eq) \in Nat
    BY LenProperties DEF IInv, Types, OnePlace, Flushing, Arriving, SlowOutstanding,
      AtaFunction, queueVars
  <2>2. CASE slow_cmd.code = "FLUSH_CACHE"
    <3>1. Flushing
      BY <2>2 DEF Flushing, SlowOutstanding, AtaFunction
    <3>2. Len(todo) = Len(eq) + 1 /\ todo' = SubSeq(todo, 1, Len(todo) - 1) /\ todo \in Seq(Calls)
      BY <2>2, <3>1 DEF IInv, Types, Untold, AtaFunction, search_ata_function
    <3>3. Len(todo') = Len(eq) /\ \A i \in 1..Len(eq) : todo'[i] = todo[i]
      BY <2>1, <3>2, DropLast
    <3> QED
      BY <2>1, <3>3 DEF IInv, Untold
  <2>3. CASE slow_cmd.code # "FLUSH_CACHE"
    BY <2>1, <2>3 DEF IInv, Untold, Flushing, AtaFunction, search_ata_function
  <2> QED
    BY <2>2, <2>3
<1>7. LateArrivals'
  BY DEF IInv, LateArrivals, AtaFunction, search_ata_function, send_status_to_host,
    queueVars, dataVars
<1> QED
  BY <1>1, <1>2, <1>3, <1>4, <1>5, <1>6, <1>7 DEF IInv

(* The function returns, and a slow command that came meanwhile is dropped. *)
LEMMA SlowReturnsStep ==
  ASSUME IInv, SlowReturns PROVE IInv'
<1>1. Types'
  <2>1. slow_cmd' \in [status : {"NONE", "PENDING", "BUSY"}, code : Codes \cup {"none"},
                       lba : Nat, count : Nat]
    BY DEF IInv, Types, SlowReturns
  <2>2. todo' \in Seq(Calls) /\ Len(todo') \in Nat /\ Len(todo') >= Len(eq)
    <3>1. CASE slow_cmd.status = "PENDING" /\ slow_cmd.code = "FLUSH_CACHE"
      <4>1. Len(todo) = Len(eq) + 1 /\ Len(eq) \in Nat /\ todo \in Seq(Calls)
        BY <3>1, LenProperties DEF IInv, Types, Untold, Flushing, SlowOutstanding
      <4> QED
        BY <3>1, <4>1, DropLast DEF SlowReturns
    <3>2. CASE ~(slow_cmd.status = "PENDING" /\ slow_cmd.code = "FLUSH_CACHE")
      <4>1. todo' = todo /\ todo \in Seq(Calls) /\ Len(todo) >= Len(eq)
        BY <3>2, LenProperties DEF IInv, Types, Untold, SlowReturns
      <4> QED
        BY <4>1, LenProperties
    <3> QED
      BY <3>1, <3>2
  <2> QED
    BY <2>1, <2>2 DEF IInv, Types, TypeOK, SlowReturns, hostVars, queueVars, dataVars
<1>2. OnePlace'
  BY DEF IInv, OnePlace, SlowOutstanding, FastOutstanding, Types, TypeOK, SlowReturns,
    hostVars, queueVars, dataVars
<1>3. Transfers'
  BY DEF IInv, Transfers, FastOutstanding, SlowReturns, hostVars, queueVars, dataVars
<1>4. FullWhenSaid'
  BY DEF IInv, FullWhenSaid, SlowReturns, hostVars, queueVars, dataVars
<1>5. ReadUnderWay'
  BY DEF IInv, ReadUnderWay, SlowReturns, hostVars, queueVars, dataVars
<1>6. Untold'
  BY DEF IInv, Untold, Arriving, Flushing, SlowOutstanding, OnePlace, FastOutstanding,
    SlowReturns, hostVars, queueVars, dataVars
<1>7. LateArrivals'
  BY DEF IInv, LateArrivals, SlowReturns, hostVars, queueVars, dataVars
<1> QED
  BY <1>1, <1>2, <1>3, <1>4, <1>5, <1>6, <1>7 DEF IInv

-----------------------------------------------------------------------------
(* Theorems *)

(* At power-on the link is about to come up and everything is empty.       *)
LEMMA InitIInv == Init => IInv
<1> SUFFICES ASSUME Init PROVE IInv
  OBVIOUS
<1>1. Types
  <2>1. eq \in Seq(EqEntries) /\ todo \in Seq(Calls) /\ Len(eq) = 0 /\ Len(todo) = 0
    BY EmptySeq DEF Init
  <2>2. slow_cmd \in [status : {"NONE", "PENDING", "BUSY"}, code : Codes \cup {"none"},
                      lba : Nat, count : Nat]
    BY DEF Init
  <2>3. Len(eq) <= EQ_LIMIT /\ late \in 0..Len(todo) /\ wdata \in 0..WR_BUFS
    BY <2>1, SataAssumption DEF Init
  <2>4. TypeOK
    <3>1. srst \in BOOLEAN /\ eq_full \in BOOLEAN /\ dropped \in BOOLEAN
      BY DEF Init
    <3>2. rdata \in 0..1 /\ Len(eq) <= EQ_LIMIT
      BY <2>3 DEF Init
    <3> QED
      BY <2>2, <2>3, <3>1, <3>2 DEF Init, TypeOK
  <2> QED
    BY <2>1, <2>2, <2>4 DEF Init, Types
<1>2. Len(eq) = 0 /\ Len(todo) = 0 /\ EQ_LIMIT > 0
  BY EmptySeq, SataAssumption DEF Init
<1>3. ~SlowOutstanding /\ ~FastOutstanding /\ ~Arriving
  BY DEF Init, SlowOutstanding, FastOutstanding, Arriving
<1>4. OnePlace /\ Transfers
  BY <1>3 DEF Init, OnePlace, Transfers
<1>5. FullWhenSaid /\ ReadUnderWay /\ Untold /\ LateArrivals
  BY <1>2, <1>3 DEF Init, FullWhenSaid, ReadUnderWay, Untold, Flushing, LateArrivals
<1> QED
  BY <1>1, <1>4, <1>5 DEF IInv

(* Every step of the host, the interrupt handler, the hardware and Main.   *)
LEMMA NextIInv == IInv /\ [Next]_vars => IInv'
<1> SUFFICES ASSUME IInv, [Next]_vars PROVE IInv'
  OBVIOUS
<1>1. CASE \E c \in HostCommands : Send(c)
  BY <1>1, SendStep
<1>2. CASE Reset \/ ResetEnd
  BY <1>2, ResetStep, ResetEndStep
<1>3. CASE fiq_handler
  BY <1>3, GotCfisOutOfRangeStep, GotCfisFastStep, GotCfisFullStep, GotCfisSlowStep,
     SrstOnStep, SrstOffStep, PhyOnlineStep DEF fiq_handler
<1>4. CASE ReceiveData \/ SendData \/ Complete
  BY <1>4, ReceiveDataStep, SendDataStep, CompleteStep
<1>5. CASE Main
  BY <1>5, EventqGetStep, ftl_writeStep, ftl_readStep, NoEventStep, NoSlowStep,
     TakeSlowStep, AtaFunctionStep, SlowReturnsStep DEF Main
<1>6. CASE UNCHANGED vars
  BY <1>6 DEF vars, IInv, Types, TypeOK, OnePlace, SlowOutstanding, FastOutstanding,
     Transfers, FullWhenSaid, ReadUnderWay, Untold, Arriving, Flushing, LateArrivals
<1> QED
  BY <1>1, <1>2, <1>3, <1>4, <1>5, <1>6 DEF Next

(* The inductive invariant: a command is in one place at a time, its       *)
(* transfer is its own, a read is the last entry of the queue, and the     *)
(* queue and the outstanding command are what the FTL has not been told.   *)
THEOREM Invariance == Spec => []IInv
<1>1. Init => IInv
  BY InitIInv
<1>2. IInv /\ [Next]_vars => IInv'
  BY NextIInv
<1> QED
  BY <1>1, <1>2, PTL DEF Spec

(* TransfersSound: the registers, the queue, whose fullness is never       *)
(* missed, and the buffers keep their bounds, and each transfer that is    *)
(* started or kept is that of the outstanding command, for every queue     *)
(* depth and every command (sata_isr.c:211-219, sata_main.c:52-60).        *)
THEOREM TransfersCorrect == Spec => []TransfersSound
<1>1. IInv => TransfersSound
  <2> SUFFICES ASSUME IInv PROVE TransferOfCommand
    BY DEF IInv, Types, TransfersSound
  <2> DEFINE Outstanding == host = "waiting" /\ int # "CMD_RECV"
             IsFor(t) == /\ t = Transfer(h2d)
                         /\ t.offset = Meant(h2d).lba /\ t.count = Meant(h2d).count
  <2>1. FastOutstanding => Outstanding /\ h2d \in HostCommands /\ IsFast(h2d.code)
    BY DEF IInv, OnePlace
  <2>2. FastOutstanding => IsFor(Transfer(h2d))
    BY <2>1, FastMeaning DEF Transfer
  <2>3. hw.dir \in {"H2D", "D2H"} => Outstanding /\ IsFor(hw)
    BY <2>1, <2>2 DEF IInv, Transfers, FastOutstanding, NoAction
  <2>4. eq_full => Outstanding /\ IsFor(flags) /\ hw = NoAction
    BY <2>1, <2>2 DEF IInv, Transfers, FastOutstanding
  <2>5. Outstanding /\ IsFast(h2d.code) => eq_full \/ hw # NoAction
    BY DEF IInv, Transfers, FastOutstanding
  <2> QED
    BY <2>3, <2>4, <2>5 DEF TransferOfCommand
<1> QED
  BY <1>1, Invariance, PTL

(* InHostOrder: Main hands the reads and writes to the FTL in the order of *)
(* the host, each as it was meant, and a flush after all of them but the   *)
(* writes that arrived after Main had found the queue empty                *)
(* (sata_main.c:85 and 100).                                               *)
THEOREM HostOrder == Spec => InHostOrder
<1> DEFINE Told == pc = "loop" /\ pc' = "ftl" => todo # <<>> /\ cmd' = Head(todo)
           Flushed == pc = "function" /\ pc' = "return" /\ slow_cmd.code = "FLUSH_CACHE"
                        => /\ todo # <<>> /\ todo[Len(todo)].op = "flush"
                           /\ Len(todo) = 1 + late
<1>1. IInv /\ [Next]_vars => [Told /\ Flushed]_vars
  <2> SUFFICES ASSUME IInv, Next PROVE Told /\ Flushed
    BY DEF Told, Flushed
  <2>1. Told
    <3> SUFFICES ASSUME pc = "loop", pc' = "ftl" PROVE todo # <<>> /\ cmd' = Head(todo)
      OBVIOUS
    <3>1. EventqGet
      BY DEF Next, Send, Reset, ResetEnd, fiq_handler, GotCfisOutOfRange, GotCfisFast,
         GotCfisFull, InsertEq, GotCfisSlow, SrstOn, SrstOff, PhyOnline, ReceiveData,
         SendData, Complete, Main, ftl_write, ftl_read, NoEvent, NoSlow, TakeSlow,
         AtaFunction, SlowReturns, mainVars
    <3>2. eq \in Seq(EqEntries) /\ eq # <<>> /\ Len(eq) \in Nat \ {0}
      BY <3>1, EmptySeq DEF IInv, Types, EventqGet
    <3>3. Len(todo) >= Len(eq) /\ todo[1] = CallOf(eq[1]) /\ todo \in Seq(Calls)
      BY <3>2, LenProperties DEF IInv, Types, Untold
    <3>4. todo # <<>> /\ Head(todo) = todo[1] /\ Head(eq) = eq[1]
      BY <3>2, <3>3, EmptySeq
    <3>5. cmd' = CallOf(Head(eq))
      BY <3>1 DEF EventqGet, CallOf
    <3> QED
      BY <3>3, <3>4, <3>5
  <2>2. Flushed
    <3> SUFFICES ASSUME pc = "function", slow_cmd.code = "FLUSH_CACHE"
                 PROVE  /\ todo # <<>> /\ todo[Len(todo)].op = "flush"
                        /\ Len(todo) = 1 + late
      OBVIOUS
    <3>1. Flushing /\ late = Len(eq) /\ Len(eq) \in Nat
      BY LenProperties DEF IInv, Types, LateArrivals, Flushing, SlowOutstanding
    <3>2. Len(todo) = Len(eq) + 1 /\ todo[Len(todo)].op = "flush"
      BY <3>1 DEF IInv, Untold
    <3>3. todo # <<>>
      BY <3>1, <3>2, EmptySeq
    <3> QED
      BY <3>1, <3>2, <3>3
  <2> QED
    BY <2>1, <2>2
<1> QED
  BY <1>1, Invariance, PTL DEF Spec, InHostOrder
=============================================================================
