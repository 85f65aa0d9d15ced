------------------------------ MODULE SataCore ------------------------------
(* The SATA command core of the Jasmine firmware: the interrupt handler that  *)
(* takes a command from the host (fiq_handler, handle_got_cfis, handle_srst,  *)
(* sata/sata_isr.c), the event queue in which the hardware keeps the reads    *)
(* and writes, the single slot of the slow commands, and the loop of Main     *)
(* (sata/sata_main.c) that serves both and calls the FTL.                     *)
(*                                                                            *)
(* The host is a SATA host without native command queueing: it sends a        *)
(* command when the last one has been answered.  A write is answered once its *)
(* data is in the write buffer, so that writes pile up in the event queue     *)
(* while Main is busy.  One unit of data stands for the data of a command.    *)
(* The interrupt handler runs to its end between two steps of Main;           *)
(* eventq_get runs with the interrupt disabled and is one step.               *)
EXTENDS Naturals, Sequences

CONSTANTS
    NOR_MAX,    \* 0x100: a count field of 0 in a command with 28-bit address
    EXT_MAX,    \* 0x10000: the same for 48 bits; the event queue keeps 16 bits
    NOR_LBAS,   \* 2^28: the addresses of a command with 28-bit address
    UINT32,     \* 2^32: addresses and their sums are kept modulo this number
    MAX_LBA,    \* the last sector of the disk
    EQ_LIMIT,   \* entries at which the hardware says that the queue is full
    WR_BUFS,    \* write commands whose data the write buffer holds
    Lbas,       \* the first sectors that the host asks for
    Fields      \* the count fields that the host sends

ASSUME SataAssumption ==
    /\ NOR_MAX \in Nat /\ EXT_MAX \in Nat /\ 0 < NOR_MAX /\ NOR_MAX < EXT_MAX
    /\ NOR_LBAS \in Nat /\ UINT32 \in Nat
    /\ NOR_LBAS <= UINT32 /\ EXT_MAX <= UINT32
    /\ MAX_LBA \in Nat /\ MAX_LBA + 1 < UINT32
    /\ EQ_LIMIT \in Nat /\ 0 < EQ_LIMIT
    /\ WR_BUFS \in Nat /\ 0 < WR_BUFS
    /\ Lbas \subseteq Nat /\ Fields \subseteq 0..(EXT_MAX - 1)

VARIABLES
    host,       \* "off", "reset", "ready" or "waiting" for an answer
    h2d,        \* the command in the registers of the received FIS
    int,        \* the interrupt that is pending, or "none"
    srst,       \* g_sata_context.srst
    eq,         \* the event queue of the hardware
    eq_full,    \* g_sata_context.eq_full
    flags,      \* g_sata_action_flags and the transfer registers
    slow_cmd,   \* g_sata_context.slow_cmd
    hw,         \* the transfer that the SATA hardware performs
    wdata,      \* writes whose data is in the write buffer
    rdata,      \* reads whose data is in the read buffer
    pc,         \* where Main is
    cmd,        \* the CMD_T of Main
    todo,       \* history: what the host has sent and the FTL has not been told
    late,       \* history: how much of todo came after Main found eq empty
    dropped     \* history: the outstanding command has been overwritten

vars == <<host, h2d, int, srst, eq, eq_full, flags, slow_cmd, hw, wdata, rdata,
          pc, cmd, todo, late, dropped>>
hostVars == <<host, h2d, int>>
queueVars == <<eq, eq_full, flags, hw>>
dataVars == <<wdata, rdata>>
mainVars == <<pc, cmd>>
ghosts == <<todo, late, dropped>>

----------------------------------------------------------------------------
(* The tables of sata_table.c, one command of each class and outcome.         *)
Entry(ccl, lba, sect, dma) == [ccl |-> ccl, lba |-> lba, sect |-> sect, dma |-> dma]

ata_cmd_class_table ==
    [READ_DMA         |-> Entry("D2H", "NOR", TRUE, TRUE),
     WRITE_DMA        |-> Entry("H2D", "NOR", TRUE, TRUE),
     READ_SECT_EXT    |-> Entry("D2H", "EXT", TRUE, FALSE),
     WRITE_SECT_EXT   |-> Entry("H2D", "EXT", TRUE, FALSE),
     READ_VERIFY      |-> Entry("OTHER", "NOR", TRUE, FALSE),
     SET_MAX_ADDRESS  |-> Entry("OTHER", "NOR", FALSE, FALSE),
     FLUSH_CACHE      |-> Entry("OTHER", "NONE", TRUE, FALSE),
     INITIALIZE_PARA  |-> Entry("OTHER", "NONE", TRUE, FALSE),
     UNDEFINED        |-> Entry("UNDEFINED", "NONE", TRUE, FALSE),
     SRST             |-> Entry("OTHER", "NONE", FALSE, FALSE)]

Codes == DOMAIN ata_cmd_class_table
IsFast(code) == ata_cmd_class_table[code].ccl \in {"H2D", "D2H"}

(* search_ata_function: what Main calls for the code of a slow command.       *)
search_ata_function(code) ==
    CASE code = "FLUSH_CACHE"     -> "ata_flush_cache"
      [] code = "READ_VERIFY"     -> "ata_read_verify_sectors"
      [] code = "INITIALIZE_PARA" -> "ata_initialize_device_parameters"
      [] code = "SRST"            -> "ata_srst"
      [] OTHER                    -> "ata_not_supported"

----------------------------------------------------------------------------
(* The address and the count of a command, as handle_got_cfis decodes them.   *)
(* An address of 48 bits loses its upper 16, and the sum of the range check   *)
(* is one of 32 bits.  Cylinder, head and sector are left out: see the README. *)
LbaOf(c) ==
    IF ata_cmd_class_table[c.code].lba = "NONE" THEN 0 ELSE c.lba % UINT32

CountOf(c) ==
    LET e == ata_cmd_class_table[c.code]
        Whole(n, max) == IF n = 0 /\ e.sect THEN max ELSE n
    IN  CASE e.lba = "NOR" -> Whole(c.field % NOR_MAX, NOR_MAX)
          [] e.lba = "EXT" -> Whole(c.field, EXT_MAX)
          [] OTHER         -> 0

IsOutOfRange(c) ==
    /\ (LbaOf(c) + CountOf(c)) % UINT32 > MAX_LBA + 1
    /\ ata_cmd_class_table[c.code].sect

(* What the FTL is to be told of a command, in the words of the ATA standard  *)
(* but for the address, of which the device keeps 32 bits.                    *)
Meant(c) ==
    LET max == IF c.code \in {"READ_DMA", "WRITE_DMA"} THEN NOR_MAX ELSE EXT_MAX
    IN  [op    |-> CASE c.code \in {"READ_DMA", "READ_SECT_EXT"}   -> "read"
                     [] c.code \in {"WRITE_DMA", "WRITE_SECT_EXT"} -> "write"
                     [] OTHER                                      -> "flush",
         lba   |-> IF c.code = "FLUSH_CACHE" THEN 0 ELSE c.lba % UINT32,
         count |-> IF c.code = "FLUSH_CACHE" THEN 0
                   ELSE 1 + ((c.field + max - 1) % max)]

OnDisk(c) == Meant(c).lba + Meant(c).count <= MAX_LBA + 1

(* A request that runs past sector 2^32, to an end that the 32 bits of the    *)
(* range check (sata_isr.c:144) take for one on the disk.                     *)
Wraps(c) == Meant(c).lba + Meant(c).count \in UINT32..(UINT32 + MAX_LBA + 1)

(* The requests that the FTL is told of.                                      *)
Concerns(c) ==
    \/ c.code = "FLUSH_CACHE"
    \/ IsFast(c.code) /\ (OnDisk(c) \/ Wraps(c))

HostCommands ==
    {c \in [code : Codes \ {"SRST"}, lba : Lbas, field : Fields] :
        CASE ata_cmd_class_table[c.code].lba = "NOR" -> c.lba < NOR_LBAS
          [] ata_cmd_class_table[c.code].lba = "EXT" -> TRUE
          [] OTHER -> \A l \in Lbas, f \in Fields : c.lba <= l /\ c.field <= f}

NoAction == [dir |-> "none"]
NoCommand == [code |-> "none"]
NoCall == [op |-> "none"]

Transfer(c) == [dir |-> ata_cmd_class_table[c.code].ccl,
                dma |-> ata_cmd_class_table[c.code].dma,
                offset |-> LbaOf(c), count |-> CountOf(c)]

TypeOK ==
    /\ host \in {"off", "reset", "ready", "waiting"}
    /\ h2d \in HostCommands \cup {NoCommand}
    /\ int \in {"none", "CMD_RECV", "SRST_ON", "SRST_OFF", "PHY_ONLINE"}
    /\ srst \in BOOLEAN /\ eq_full \in BOOLEAN /\ dropped \in BOOLEAN
    /\ Len(eq) <= EQ_LIMIT
    /\ slow_cmd.status \in {"NONE", "PENDING", "BUSY"}
    /\ wdata \in 0..WR_BUFS /\ rdata \in 0..1
    /\ pc \in {"loop", "ftl", "look", "function", "return"}
    /\ late \in 0..Len(todo)

Init ==
    /\ host = "off" /\ h2d = NoCommand /\ int = "PHY_ONLINE"
    /\ srst = FALSE
    /\ eq = <<>> /\ eq_full = FALSE /\ flags = NoAction /\ hw = NoAction
    /\ slow_cmd = [status |-> "NONE", code |-> "none", lba |-> 0, count |-> 0]
    /\ wdata = 0 /\ rdata = 0
    /\ pc = "loop" /\ cmd = NoCall
    /\ todo = <<>> /\ late = 0 /\ dropped = FALSE

----------------------------------------------------------------------------
(* The host.                                                                  *)
Send(c) ==
    /\ host = "ready" /\ int = "none"
    /\ host' = "waiting" /\ h2d' = c /\ int' = "CMD_RECV"
    /\ todo' = IF Concerns(c) THEN Append(todo, Meant(c)) ELSE todo
    /\ UNCHANGED <<srst, slow_cmd, late, dropped, queueVars, dataVars, mainVars>>

(* The host's error handler resets the device when an answer does not come.   *)
Reset ==
    /\ host = "waiting" /\ dropped /\ int = "none"
    /\ host' = "reset" /\ int' = "SRST_ON" /\ dropped' = FALSE
    /\ UNCHANGED <<h2d, srst, slow_cmd, todo, late, queueVars, dataVars, mainVars>>

ResetEnd ==
    /\ host = "reset" /\ srst /\ int = "none"
    /\ int' = "SRST_OFF"
    /\ UNCHANGED <<host, h2d, srst, slow_cmd, queueVars, dataVars, mainVars, ghosts>>

----------------------------------------------------------------------------
(* fiq_handler.  The outcome of handle_got_cfis is one of four.               *)
GotCfis ==
    int = "CMD_RECV" /\ int' = "none"

send_status_to_host == host' = "ready"

GotCfisOutOfRange ==
    /\ GotCfis
    /\ IsOutOfRange(h2d)
    /\ send_status_to_host
    /\ UNCHANGED <<h2d, srst, slow_cmd, queueVars, dataVars, mainVars, ghosts>>

InsertEq ==
    /\ GotCfis
    /\ ~IsOutOfRange(h2d) /\ IsFast(h2d.code)
    /\ eq' = Append(eq, [write |-> ata_cmd_class_table[h2d.code].ccl = "H2D",
                         lba |-> LbaOf(h2d), count |-> CountOf(h2d) % EXT_MAX])
    /\ late' = IF pc = "look" THEN late + 1 ELSE late
    /\ UNCHANGED <<host, h2d, srst, slow_cmd, dataVars, mainVars, todo, dropped>>

EqIsFull(q) == Len(q) >= EQ_LIMIT

GotCfisFast ==
    /\ InsertEq
    /\ ~EqIsFull(eq')
    /\ hw' = Transfer(h2d)
    /\ UNCHANGED <<eq_full, flags>>

GotCfisFull ==
    /\ InsertEq
    /\ EqIsFull(eq')
    /\ eq_full' = TRUE /\ flags' = Transfer(h2d)
    /\ UNCHANGED hw

GotCfisSlow ==
    /\ GotCfis
    /\ ~IsOutOfRange(h2d) /\ ~IsFast(h2d.code)
    /\ slow_cmd' = [status |-> "PENDING", code |-> h2d.code,
                    lba |-> LbaOf(h2d), count |-> CountOf(h2d)]
    /\ UNCHANGED <<host, h2d, srst, queueVars, dataVars, mainVars, ghosts>>

PendingSrst ==
    slow_cmd' = [slow_cmd EXCEPT !.status = "PENDING", !.code = "SRST", !.lba = 0]

(* handle_srst, on the two register FISes of a soft reset.                    *)
SrstOn ==
    /\ int = "SRST_ON" /\ int' = "none"
    /\ srst' = TRUE
    /\ UNCHANGED <<host, h2d, slow_cmd, queueVars, dataVars, mainVars, ghosts>>

SrstOff ==
    /\ int = "SRST_OFF" /\ int' = "none"
    /\ srst /\ srst' = FALSE
    /\ PendingSrst
    /\ UNCHANGED <<host, h2d, queueVars, dataVars, mainVars, ghosts>>

PhyOnline ==
    /\ int = "PHY_ONLINE" /\ int' = "none"
    /\ PendingSrst
    /\ host' = "reset"
    /\ UNCHANGED <<h2d, srst, queueVars, dataVars, mainVars, ghosts>>

fiq_handler ==
    \/ GotCfisOutOfRange \/ GotCfisFast \/ GotCfisFull \/ GotCfisSlow
    \/ SrstOn \/ SrstOff \/ PhyOnline

----------------------------------------------------------------------------
(* The transfers of the hardware, which end with COMPLETE.                    *)
ReceiveData ==
    /\ hw.dir = "H2D" /\ wdata < WR_BUFS
    /\ wdata' = wdata + 1 /\ hw' = [dir |-> "COMPLETE"]
    /\ UNCHANGED <<hostVars, srst, eq, eq_full, flags, slow_cmd, rdata, mainVars, ghosts>>

SendData ==
    /\ hw.dir = "D2H" /\ rdata > 0
    /\ rdata' = rdata - 1 /\ hw' = [dir |-> "COMPLETE"]
    /\ UNCHANGED <<hostVars, srst, eq, eq_full, flags, slow_cmd, wdata, mainVars, ghosts>>

Complete ==
    /\ hw.dir = "COMPLETE"
    /\ hw' = NoAction /\ host' = "ready"
    /\ UNCHANGED <<h2d, int, srst, eq, eq_full, flags, slow_cmd, dataVars, mainVars, ghosts>>

----------------------------------------------------------------------------
(* Main.  EventqGet is eventq_get with the test of eventq_get_count before    *)
(* it: until Main takes an entry, entries only come.                          *)
EntryCount(e) == IF e.count = 0 THEN EXT_MAX ELSE e.count

StartKeptWrite ==                                       \* mistake
    hw' = IF eq_full /\ flags.dir = "H2D" THEN flags ELSE hw

StartKept == hw' = IF eq_full THEN flags ELSE hw

ClearFullNot == eq_full' = eq_full                      \* mistake

ClearFull == eq_full' = FALSE

EventqGet ==
    /\ pc = "loop" /\ eq # <<>>
    /\ cmd' = [op |-> IF Head(eq).write THEN "write" ELSE "read",
               lba |-> Head(eq).lba, count |-> EntryCount(Head(eq))]
    /\ eq' = Tail(eq)
    /\ StartKept /\ ClearFull
    /\ pc' = "ftl"
    /\ todo' = SubSeq(todo, 2, Len(todo))
    /\ UNCHANGED <<hostVars, srst, flags, slow_cmd, dataVars, late, dropped>>

ftl_write ==
    /\ pc = "ftl" /\ cmd.op = "write" /\ wdata > 0
    /\ wdata' = wdata - 1
    /\ pc' = "loop" /\ cmd' = NoCall
    /\ UNCHANGED <<hostVars, srst, slow_cmd, rdata, queueVars, ghosts>>

ftl_read ==
    /\ pc = "ftl" /\ cmd.op = "read"
    /\ rdata' = rdata + 1
    /\ pc' = "loop" /\ cmd' = NoCall
    /\ UNCHANGED <<hostVars, srst, slow_cmd, wdata, queueVars, ghosts>>

SlowTurnFirst == pc \in {"loop", "look"}                \* mistake

SlowTurn == pc = "look"

(* eventq_get_count() returned 0. *)
NoEvent ==
    /\ pc = "loop" /\ eq = <<>>
    /\ pc' = "look" /\ late' = 0
    /\ UNCHANGED <<hostVars, srst, slow_cmd, cmd, todo, dropped, queueVars, dataVars>>

NoSlow ==
    /\ SlowTurn /\ slow_cmd.status # "PENDING"
    /\ pc' = "loop" /\ late' = 0
    /\ UNCHANGED <<hostVars, srst, slow_cmd, cmd, todo, dropped, queueVars, dataVars>>

TakeSlow ==
    /\ SlowTurn /\ slow_cmd.status = "PENDING"
    /\ slow_cmd' = [slow_cmd EXCEPT !.status = "BUSY"]
    /\ pc' = "function"
    /\ UNCHANGED <<hostVars, srst, cmd, queueVars, dataVars, ghosts>>

(* The function of the slow command, up to the answer it sends.  Only         *)
(* ata_flush_cache concerns the FTL; the others differ in their answer.       *)
AtaFunction ==
    /\ pc = "function"
    /\ pc' = "return"
    /\ IF search_ata_function(slow_cmd.code) = "ata_flush_cache"
       THEN todo' = SubSeq(todo, 1, Len(todo) - 1)
       ELSE UNCHANGED todo
    /\ send_status_to_host
    /\ UNCHANGED <<h2d, int, srst, slow_cmd, cmd, late, dropped, queueVars, dataVars>>

(* slow_cmd->status = SLOW_CMD_STATUS_NONE, whatever has come meanwhile.      *)
SlowReturns ==
    /\ pc = "return"
    /\ pc' = "loop"
    /\ slow_cmd' = [slow_cmd EXCEPT !.status = "NONE"]
    /\ dropped' = (slow_cmd.status = "PENDING")
    /\ todo' = IF slow_cmd.status = "PENDING" /\ slow_cmd.code = "FLUSH_CACHE"
               THEN SubSeq(todo, 1, Len(todo) - 1) ELSE todo
    /\ late' = 0
    /\ UNCHANGED <<hostVars, srst, cmd, queueVars, dataVars>>

Main ==
    \/ EventqGet \/ ftl_write \/ ftl_read
    \/ NoEvent \/ NoSlow \/ TakeSlow \/ AtaFunction \/ SlowReturns

----------------------------------------------------------------------------
Next ==
    \/ \E c \in HostCommands : Send(c)
    \/ Reset \/ ResetEnd
    \/ fiq_handler
    \/ ReceiveData \/ SendData \/ Complete
    \/ Main

(* Interrupts are taken, Main is never preempted for ever, the hardware ends  *)
(* its transfers, and a host that has begun a reset ends it.  The host may    *)
(* stop sending.                                                              *)
Fairness ==
    /\ WF_vars(fiq_handler) /\ WF_vars(Main)
    /\ WF_vars(ReceiveData) /\ WF_vars(SendData) /\ WF_vars(Complete)
    /\ WF_vars(Reset) /\ WF_vars(ResetEnd)

Spec == Init /\ [][Next]_vars /\ Fairness

----------------------------------------------------------------------------
(* The FTL is told of the reads and writes in the order in which the host     *)
(* sent them, with the address and the count that the command means, and      *)
(* ftl_flush comes after all of them - but for the writes that arrived,       *)
(* with their data, after Main had found the event queue empty and before it  *)
(* looked at the slow command (sata_main.c:85 and 100): these a later flush   *)
(* overtakes.  A read or write off the disk is refused - but for one whose    *)
(* end wraps at 2^32 sectors or whose address needs more than 32 bits: with   *)
(* what is left of the address and of the sum it passes the range check and   *)
(* is told to the FTL (sata_isr.c:130 and 144).                               *)
InHostOrder ==
    [][ /\ pc = "loop" /\ pc' = "ftl" => todo # <<>> /\ cmd' = Head(todo)
        /\ pc = "function" /\ pc' = "return" /\ slow_cmd.code = "FLUSH_CACHE"
             => /\ todo # <<>> /\ todo[Len(todo)].op = "flush"
                /\ Len(todo) = 1 + late ]_vars

(* The transfer that the hardware performs, or that waits in                  *)
(* g_sata_action_flags until eventq_get makes room, is that of the            *)
(* outstanding command, with its direction and length; and the transfer of    *)
(* an outstanding read or write is under way or kept, never forgotten and     *)
(* never started again (sata_isr.c:211-219, sata_main.c:52-60).               *)
TransferOfCommand ==
    LET Outstanding == host = "waiting" /\ int # "CMD_RECV"
        IsFor(t) == /\ t = Transfer(h2d)
                    /\ t.offset = Meant(h2d).lba /\ t.count = Meant(h2d).count
    IN  /\ hw.dir \in {"H2D", "D2H"} => Outstanding /\ IsFor(hw)
        /\ eq_full => Outstanding /\ IsFor(flags) /\ hw = NoAction
        /\ Outstanding /\ IsFast(h2d.code) => eq_full \/ hw # NoAction

(* The registers, queues and buffers keep their types and bounds, and the     *)
(* transfers are those of their commands.                                     *)
TransfersSound == TypeOK /\ TransferOfCommand

(* Every command and every reset of the host is answered - for a command that *)
(* the end of another slow command has overwritten, the reset is.  A slow     *)
(* command waits for the event queue to become empty, which a host without    *)
(* queueing lets happen.                                                      *)
EveryCommandEnds == (host # "ready") ~> (host = "ready")
=============================================================================
