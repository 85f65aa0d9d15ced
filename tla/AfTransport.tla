----------------------------- MODULE AfTransport -----------------------------
(***************************************************************************)
(* How a routine of the server hands an active-flash command to the SSD    *)
(* and learns that it is finished: issd_sendCmd, issd_waitFinish           *)
(* (issd_compute.c) and sata_writeBuffer, sata_readBuffer (sataCom.c) on   *)
(* the host; on the device the SATA interrupt handler (handle_got_cfis),   *)
(* the Main loop with its one slow_cmd slot, ata_write_buffer and          *)
(* ata_read_buffer (sata_cmd.c) and issd_process_cmd (issd.c).             *)
(*                                                                         *)
(* One routine serves each disk (SerialPerDisk of ReqRoutines).  A command *)
(* is cut into 512-byte packets; of their contents only what the transport *)
(* looks at is kept.  The kernel between the two (external) sends one slow *)
(* command at a time to a device, and after 12 seconds without an answer   *)
(* resets the link: SG_IO then returns 0 all the same, and the code looks  *)
(* at nothing but that return value.                                       *)
(***************************************************************************)
EXTENDS Integers, FiniteSets

CONSTANTS Disks,
          DEVICE_NAME,      \* the disk that every sata_readBuffer opens
          Ops,              \* operations the clients ask for
          MaxPackets,       \* bound: packets of a command
          MaxCmds,          \* bound: commands sent, all disks together
          PromptMain,       \* Main is back in its loop before the host's next command
                            \* arrives, unless it is executing issd_process_cmd
          IoctlMayFail,     \* SG_IO may return an error
          BackupMayFail     \* do_issd_backup may return -1

ASSUME DeviceIsDisk == DEVICE_NAME \in Disks
ASSUME OpsKnown == Ops \subseteq {"ISSD_FILECOPY", "ISSD_MERGE"}
ASSUME BoundsNat == MaxPackets \in Nat \ {0} /\ MaxCmds \in Nat
ASSUME FlagsBool == {PromptMain, IoctlMayFail, BackupMayFail} \subseteq BOOLEAN

VARIABLES
  host,      \* the routine of each disk: where it is, its command, the next packet
  port,      \* the slow command outstanding at each disk
  dev,       \* the firmware of each disk
  sentCmds,  \* number of commands begun
  result,    \* what issd_compute returned for each command
  executed,  \* history: commands that do_issd_backup carried out as they were sent
  desync     \* history: disks at which a packet of a begun command was not received

vars == <<host, port, dev, sentCmds, result, executed, desync>>

Ids     == 1 .. MaxCmds
Slots   == 1 .. MaxPackets      \* sectors of HIL_BUF and of ISSD_CMD_BUFFER
Cmds    == [id : Ids, op : Ops, n : Slots]
NoCmd   == [id |-> 0, op |-> "none", n |-> 0]

\* Packet k of a command.  Packet 1 starts with num_packet, opType and isOK; the
\* others hold extents.  init_dram has cleared what was never written (k = 0).
Packets == [cmd : Cmds \cup {NoCmd}, k : 0 .. MaxPackets, isOK : BOOLEAN]
Packet(c, k) == [cmd |-> c, k |-> k, isOK |-> FALSE]
Cleared == Packet(NoCmd, 0)

\* What the first three words of a packet read as: zeroes, the header, or extents
FirstWords(p, zero, header, extents) ==
  IF p.k = 0 THEN {zero} ELSE IF p.k = 1 THEN {header} ELSE extents
NumPacket(p) == FirstWords(p, 0, p.cmd.n, 0 .. MaxPackets)
OpType(p)    == FirstWords(p, "ISSD_FILECOPY", p.cmd.op, {"ISSD_FILECOPY", "ISSD_MERGE"})
IsOK(p)      == IF p.isOK THEN {TRUE} ELSE FirstWords(p, FALSE, FALSE, BOOLEAN)

NoFis == [from |-> DEVICE_NAME, code |-> "none", pkt |-> Cleared, seen |-> FALSE]
Fis(d, code, p) == [from |-> d, code |-> code, pkt |-> p, seen |-> FALSE]

Init ==
  /\ host = [d \in Disks |-> [pc |-> "idle", cmd |-> NoCmd, i |-> 0]]
  /\ port = [d \in Disks |-> NoFis]
  /\ dev = [d \in Disks |-> [pc |-> "loop", slow_cmd |-> "NONE", num_packet |-> 0,
                             offset |-> 0, HIL_BUF |-> [s \in Slots |-> Cleared],
                             CMD_BUFFER |-> [s \in Slots |-> Cleared]]]
  /\ sentCmds = 0
  /\ result = [c \in Ids |-> "none"]
  /\ executed = {}
  /\ desync = {}

-----------------------------------------------------------------------------
(* The host *)

\* issd_compute: issd_createCmd has filled the command
CreateCmd(d, op, n) ==
  /\ host[d].pc = "idle"
  /\ sentCmds < MaxCmds
  /\ sentCmds' = sentCmds + 1
  /\ host' = [host EXCEPT ![d] = [pc |-> "send", i |-> 1,
                                  cmd |-> [id |-> sentCmds + 1, op |-> op, n |-> n]]]
  /\ UNCHANGED <<port, dev, result, executed, desync>>

\* sata_writeBuffer: one WRITE_BUFFER per packet
SendPacket(d) ==
  /\ host[d].pc = "send"
  /\ port[d] = NoFis
  /\ port' = [port EXCEPT ![d] = Fis(d, "WRITE_BUFFER", Packet(host[d].cmd, host[d].i))]
  /\ host' = [host EXCEPT ![d].pc = "sending"]
  /\ UNCHANGED <<dev, sentCmds, result, executed, desync>>

PacketSentOneMore(d) ==          \* a loop that runs up to num_packet inclusive
  IF host[d].i <= host[d].cmd.n
  THEN [host EXCEPT ![d].pc = "send", ![d].i = @ + 1]
  ELSE [host EXCEPT ![d].pc = "poll"]

\* SG_IO of a WRITE_BUFFER has returned 0: the next packet, or issd_waitFinish
PacketSent(d) ==
  IF host[d].i < host[d].cmd.n
  THEN [host EXCEPT ![d].pc = "send", ![d].i = @ + 1]
  ELSE [host EXCEPT ![d].pc = "poll"]

\* sata_readBuffer: one READ_BUFFER, to DEVICE_NAME and not to the disk
Poll(d) ==
  /\ host[d].pc = "poll"
  /\ port[DEVICE_NAME] = NoFis
  /\ port' = [port EXCEPT ![DEVICE_NAME] = Fis(d, "READ_BUFFER", Cleared)]
  /\ host' = [host EXCEPT ![d].pc = "polling"]
  /\ UNCHANGED <<dev, sentCmds, result, executed, desync>>

\* SG_IO of a READ_BUFFER has returned 0: done, or again after a second
Polled(d, isOK) ==
  /\ host' = [host EXCEPT ![d].pc = IF isOK THEN "idle" ELSE "poll"]
  /\ result' = IF isOK THEN [result EXCEPT ![host[d].cmd.id] = "ok"] ELSE result

\* open or SG_IO failed: issd_compute returns -1
IoctlFails(d) ==
  /\ IoctlMayFail
  /\ host[d].pc \in {"send", "poll"}
  /\ host' = [host EXCEPT ![d].pc = "idle"]
  /\ result' = [result EXCEPT ![host[d].cmd.id] = "failed"]
  /\ desync' = IF host[d].pc = "send" /\ host[d].i > 1 THEN desync \cup {d} ELSE desync
  /\ UNCHANGED <<port, dev, sentCmds, executed>>

-----------------------------------------------------------------------------
(* The device *)

\* fiq_handler, handle_got_cfis: the command replaces whatever is in the slot
handle_got_cfis(d) ==
  /\ port[d] # NoFis
  /\ ~port[d].seen
  /\ PromptMain => dev[d].pc \in {"loop", "process"}
  /\ port' = [port EXCEPT ![d].seen = TRUE]
  /\ dev' = [dev EXCEPT ![d].slow_cmd = "PENDING"]
  /\ UNCHANGED <<host, sentCmds, result, executed, desync>>

\* Main takes the slow command up
Pending(d, code) ==
  /\ dev[d].pc = "loop"
  /\ dev[d].slow_cmd = "PENDING"
  /\ port[d].code = code

\* ata_write_buffer up to the status that pio_sector_transfer sends to the host
ReceivePacket(d) ==
  /\ Pending(d, "WRITE_BUFFER")
  /\ dev' = [dev EXCEPT
       ![d].slow_cmd = "BUSY",
       ![d].pc = "count",
       ![d].HIL_BUF = IF dev[d].offset + 1 \in Slots
                      THEN [@ EXCEPT ![dev[d].offset + 1] = port[d].pkt] ELSE @]
  /\ port' = [port EXCEPT ![d] = NoFis]
  /\ host' = PacketSent(d)
  /\ UNCHANGED <<sentCmds, result, executed, desync>>

CountPacketNoReset(d) ==             \* packet_rcv_buf_offset is not set back
  LET now == dev[d]
      left(m) == IF now.num_packet = 0 THEN m - 1 ELSE now.num_packet - 1
  IN /\ now.pc = "count"
     /\ \E m \in NumPacket(now.HIL_BUF[1]) :
          dev' = [dev EXCEPT ![d] =
            IF left(m) = 0
            THEN [now EXCEPT !.pc = "process", !.num_packet = 0, !.offset = @ + 1,
                             !.CMD_BUFFER = now.HIL_BUF]
            ELSE [now EXCEPT !.pc = "return", !.num_packet = left(m), !.offset = @ + 1]]
     /\ UNCHANGED <<host, port, sentCmds, result, executed, desync>>

CountPacketEarly(d) ==               \* processed when one packet is still to come
  LET now == dev[d]
      left(m) == IF now.num_packet = 0 THEN m - 1 ELSE now.num_packet - 1
  IN /\ now.pc = "count"
     /\ \E m \in NumPacket(now.HIL_BUF[1]) :
          dev' = [dev EXCEPT ![d] =
            IF left(m) <= 1
            THEN [now EXCEPT !.pc = "process", !.num_packet = 0, !.offset = 0,
                             !.CMD_BUFFER = now.HIL_BUF]
            ELSE [now EXCEPT !.pc = "return", !.num_packet = left(m), !.offset = @ + 1]]
     /\ UNCHANGED <<host, port, sentCmds, result, executed, desync>>

\* the rest of ata_write_buffer, issd_process_cmd excepted
CountPacket(d) ==
  LET now == dev[d]
      left(m) == IF now.num_packet = 0 THEN m - 1 ELSE now.num_packet - 1
  IN /\ now.pc = "count"
     /\ \E m \in NumPacket(now.HIL_BUF[1]) :
          dev' = [dev EXCEPT ![d] =
            IF left(m) = 0
            THEN [now EXCEPT !.pc = "process", !.num_packet = 0, !.offset = 0,
                             !.CMD_BUFFER = now.HIL_BUF]
            ELSE [now EXCEPT !.pc = "return", !.num_packet = left(m), !.offset = @ + 1]]
     /\ UNCHANGED <<host, port, sentCmds, result, executed, desync>>

\* the command buffer holds one command exactly as it was sent
Whole(buf) == /\ buf[1].k = 1
              /\ \A s \in 1 .. buf[1].cmd.n : buf[s].cmd = buf[1].cmd /\ buf[s].k = s

\* issd_process_cmd: only ISSD_BACKUP, which is ISSD_FILECOPY of the host, is known
Backup(d) ==
  /\ dev[d].pc = "process"
  /\ "ISSD_FILECOPY" \in OpType(dev[d].CMD_BUFFER[1])
  /\ dev' = [dev EXCEPT ![d].pc = "return", ![d].CMD_BUFFER[1].isOK = TRUE]
  /\ executed' = IF Whole(dev[d].CMD_BUFFER)
                 THEN executed \cup {dev[d].CMD_BUFFER[1].cmd.id} ELSE executed
  /\ UNCHANGED <<host, port, sentCmds, result, desync>>

BackupFails(d) ==
  /\ BackupMayFail
  /\ dev[d].pc = "process"
  /\ "ISSD_FILECOPY" \in OpType(dev[d].CMD_BUFFER[1])
  /\ dev' = [dev EXCEPT ![d].pc = "return"]
  /\ UNCHANGED <<host, port, sentCmds, result, executed, desync>>

InvalidCommand(d) ==
  /\ dev[d].pc = "process"
  /\ "ISSD_MERGE" \in OpType(dev[d].CMD_BUFFER[1])
  /\ dev' = [dev EXCEPT ![d].pc = "return"]
  /\ UNCHANGED <<host, port, sentCmds, result, executed, desync>>

ReadBufferForgets(d) ==              \* the copy is made from the receive buffer
  /\ Pending(d, "READ_BUFFER")
  /\ dev' = [dev EXCEPT ![d].slow_cmd = "BUSY", ![d].pc = "return"]
  /\ port' = [port EXCEPT ![d] = NoFis]
  /\ \E isOK \in IsOK(dev[d].HIL_BUF[1]) : Polled(port[d].from, isOK)
  /\ UNCHANGED <<sentCmds, executed, desync>>

\* ata_read_buffer
ReadBuffer(d) ==
  /\ Pending(d, "READ_BUFFER")
  /\ dev' = [dev EXCEPT ![d].slow_cmd = "BUSY", ![d].pc = "return",
                        ![d].HIL_BUF = dev[d].CMD_BUFFER]
  /\ port' = [port EXCEPT ![d] = NoFis]
  /\ \E isOK \in IsOK(dev[d].CMD_BUFFER[1]) : Polled(port[d].from, isOK)
  /\ UNCHANGED <<sentCmds, executed, desync>>

\* Main: slow_cmd->status = SLOW_CMD_STATUS_NONE, whatever arrived meanwhile
MainReturns(d) ==
  /\ dev[d].pc = "return"
  /\ dev' = [dev EXCEPT ![d].pc = "loop", ![d].slow_cmd = "NONE"]
  /\ UNCHANGED <<host, port, sentCmds, result, executed, desync>>

(* The kernel (external): a command the device has seen and dropped is     *)
(* given up after 12 seconds.  The reset that follows is repeated until    *)
(* Main executes it, and ata_srst changes nothing of the state here.       *)
Timeout(d) ==
  /\ port[d].seen
  /\ dev[d].pc = "loop"
  /\ dev[d].slow_cmd = "NONE"
  /\ port' = [port EXCEPT ![d] = NoFis]
  /\ IF port[d].code = "WRITE_BUFFER"
     THEN host' = PacketSent(port[d].from) /\ desync' = desync \cup {d} /\ UNCHANGED result
     ELSE Polled(port[d].from, FALSE) /\ UNCHANGED desync
  /\ UNCHANGED <<dev, sentCmds, executed>>

-----------------------------------------------------------------------------
routine(d) == SendPacket(d) \/ Poll(d)

device(d) == \/ ReceivePacket(d) \/ CountPacket(d) \/ ReadBuffer(d) \/ MainReturns(d)
             \/ Backup(d) \/ BackupFails(d) \/ InvalidCommand(d)

Next == \E d \in Disks :
          \/ \E op \in Ops, n \in Slots : CreateCmd(d, op, n)
          \/ routine(d) \/ IoctlFails(d)
          \/ handle_got_cfis(d) \/ device(d) \/ Timeout(d)

Spec == Init /\ [][Next]_vars

(* The firmware runs, interrupts are taken, the kernel's timer expires and *)
(* a routine goes on polling.  Routines of several disks share a port; the *)
(* kernel serves them in turn.                                             *)
FairSpec == Spec /\ \A d \in Disks : /\ WF_vars(device(d)) /\ WF_vars(handle_got_cfis(d))
                                     /\ WF_vars(Timeout(d)) /\ SF_vars(routine(d))
-----------------------------------------------------------------------------
(* Types: every buffer slot holds a packet and the host is in a place of the code. *)
TypeOK ==
  /\ host \in [Disks -> [pc : {"idle", "send", "sending", "poll", "polling"},
                         cmd : Cmds \cup {NoCmd}, i : 0 .. MaxPackets]]
  /\ port \in [Disks -> [from : Disks, code : {"none", "WRITE_BUFFER", "READ_BUFFER"},
                         pkt : Packets, seen : BOOLEAN]]
  /\ dev \in [Disks -> [pc : {"loop", "count", "process", "return"},
                        slow_cmd : {"NONE", "PENDING", "BUSY"},
                        num_packet : Int, offset : Nat,
                        HIL_BUF : [Slots -> Packets], CMD_BUFFER : [Slots -> Packets]]]
  /\ sentCmds \in 0 .. MaxCmds
  /\ result \in [Ids -> {"none", "ok", "failed"}]
  /\ executed \subseteq Ids
  /\ desync \subseteq Disks

(* isOK tells the host that its command was carried out: a command is      *)
(* reported successful only if the device executed it as it was sent.      *)
TruthfulResult == \A c \in Ids : result[c] = "ok" => c \in executed

(* As long as no WRITE_BUFFER failed or was dropped, success is reported   *)
(* only for a command that was executed, even though READ_BUFFERs are      *)
(* dropped, time out and are repeated while the device computes.           *)
TruthfulUnlessLost == desync = {} => TruthfulResult

(* As long as no WRITE_BUFFER failed or was dropped, the device works only *)
(* on a command that has arrived complete and that the host has not yet    *)
(* taken for finished.                                                     *)
WholeCommand ==
  \A d \in Disks : dev[d].pc = "process" /\ d \notin desync =>
    /\ Whole(dev[d].CMD_BUFFER)
    /\ result[dev[d].CMD_BUFFER[1].cmd.id] # "ok"

\* the device is done with command c and has not set isOK
GivenUp(c) == \E d \in Disks : LET p == dev[d].CMD_BUFFER[1]
                               IN dev[d].pc # "process" /\ p.cmd.id = c /\ ~p.isOK

(* issd_waitFinish returns although every READ_BUFFER sent while the       *)
(* device computes is dropped and times out, unless a WRITE_BUFFER was     *)
(* lost or the device has given the command up without a word.             *)
EndsUnlessGivenUp ==
  \A c \in Ids : (\E d \in Disks : host[d].cmd.id = c /\ host[d].pc = "send")
                   ~> result[c] # "none" \/ GivenUp(c) \/ desync # {}
=============================================================================
