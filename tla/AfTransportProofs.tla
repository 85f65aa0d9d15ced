-------------------------- MODULE AfTransportProofs --------------------------
(***************************************************************************)
(* Proofs about AfTransport, for any number of packets and of commands.    *)
(*                                                                         *)
(* The types hold for any number of disks.  What the firmware works on,    *)
(* and what the host is told of it, is proved for one disk only: each      *)
(* sata_readBuffer goes to DEVICE_NAME, and the poll of a second disk      *)
(* copies ISSD_CMD_BUFFER over the packets that DEVICE_NAME has received   *)
(* so far and answers with the isOK of another command.                    *)
(***************************************************************************)
EXTENDS AfTransport, TLAPS

OneDisk == Disks = {DEVICE_NAME}

D == DEVICE_NAME

-----------------------------------------------------------------------------
(* The inductive invariant *)

\* Only packets of a command bear a number.
Named ==
  /\ \A d \in Disks : host[d].pc = "send" => host[d].cmd \in Cmds /\ host[d].i \in Slots
  /\ \A d \in Disks : port[d].pkt.k > 0 => port[d].pkt.cmd \in Cmds
  /\ \A d \in Disks, s \in Slots :
       /\ dev[d].HIL_BUF[s].k > 0 => dev[d].HIL_BUF[s].cmd \in Cmds
       /\ dev[d].CMD_BUFFER[s].k > 0 => dev[d].CMD_BUFFER[s].cmd \in Cmds

Types == TypeOK /\ Named

\* the host is in the loop of issd_sendCmd, or in that of issd_waitFinish
Sending == host[D].pc \in {"send", "sending"}
Waiting == host[D].pc \in {"poll", "polling"}

\* A command under way is numbered, not finished, and its loop is within bounds.
UnderWay ==
  /\ host[D].cmd.id <= sentCmds
  /\ \A c \in Ids : c > sentCmds => result[c] = "none"
  /\ host[D].pc # "idle" => host[D].cmd \in Cmds /\ result[host[D].cmd.id] = "none"
  /\ Sending => host[D].i \in 1 .. host[D].cmd.n

\* packet k of command c, as the host has built it
Carries(p, c, k) == p.cmd = c /\ p.k = k /\ ~p.isOK

\* What is outstanding at the port is what the host waits for.
Outstanding ==
  /\ port[D].code = "none" => port[D] = NoFis
  /\ port[D].code = "WRITE_BUFFER" =>
       host[D].pc = "sending" /\ Carries(port[D].pkt, host[D].cmd, host[D].i)
  /\ port[D].code = "READ_BUFFER" => host[D].pc = "polling"

\* the first r sectors of buf hold the first r packets of command c
Holds(buf, c, r) == c \in Cmds /\ r <= c.n /\ \A s \in 1 .. r : Carries(buf[s], c, s)

\* num_packet after r packets of command c: what is still to come, 0 before the first
Expects(c, r) == dev[D].num_packet = IF r = 0 THEN 0 ELSE c.n - r

\* The last packet of command c has gone: the host waits, has given up (an ioctl
\* failed), or has begun another command of which nothing has been received.
AllSent(c) == \/ Waiting /\ host[D].cmd = c
              \/ host[D].pc = "idle"
              \/ Sending /\ host[D].i = 1

\* Between two slow commands the firmware has as many packets as the host has sent.
BetweenPackets ==
  dev[D].pc \in {"loop", "return"} =>
    /\ Sending => /\ dev[D].offset = host[D].i - 1
                  /\ Holds(dev[D].HIL_BUF, host[D].cmd, dev[D].offset)
                  /\ Expects(host[D].cmd, dev[D].offset)
    /\ ~Sending => dev[D].offset = 0 /\ dev[D].num_packet = 0
    /\ Waiting => dev[D].CMD_BUFFER[1].k = 1 /\ dev[D].CMD_BUFFER[1].cmd = host[D].cmd

\* A packet has been copied, its status is out, and it is not counted yet.
Counting ==
  dev[D].pc = "count" =>
    LET c == dev[D].HIL_BUF[1].cmd
    IN /\ Holds(dev[D].HIL_BUF, c, dev[D].offset + 1)
       /\ Expects(c, dev[D].offset)
       /\ result[c.id] # "ok"
       /\ dev[D].offset + 1 < c.n =>
            Sending /\ host[D].cmd = c /\ host[D].i = dev[D].offset + 2
       /\ dev[D].offset + 1 = c.n => AllSent(c)

\* issd_process_cmd has the whole command.
Processing ==
  dev[D].pc = "process" =>
    LET c == dev[D].CMD_BUFFER[1].cmd
    IN /\ Holds(dev[D].CMD_BUFFER, c, c.n)
       /\ dev[D].offset = 0 /\ dev[D].num_packet = 0
       /\ result[c.id] # "ok"
       /\ AllSent(c)

\* isOK is set for commands that were carried out, and so is the result.
Done ==
  /\ dev[D].CMD_BUFFER[1].isOK => dev[D].CMD_BUFFER[1].cmd.id \in executed
  /\ TruthfulResult

InStep == BetweenPackets /\ Counting /\ Processing /\ Done

IInv == Types /\ UnderWay /\ Outstanding /\ (D \notin desync => InStep)
-----------------------------------------------------------------------------
(* Commands, packets and the records of the three sides *)

HostStates == [pc : {"idle", "send", "sending", "poll", "polling"},
               cmd : Cmds \cup {NoCmd}, i : 0 .. MaxPackets]
PortStates == [from : Disks, code : {"none", "WRITE_BUFFER", "READ_BUFFER"},
               pkt : Packets, seen : BOOLEAN]
Bufs       == [Slots -> Packets]
DevStates  == [pc : {"loop", "count", "process", "return"},
               slow_cmd : {"NONE", "PENDING", "BUSY"}, num_packet : Int, offset : Nat,
               HIL_BUF : Bufs, CMD_BUFFER : Bufs]

Rest == /\ sentCmds \in 0 .. MaxCmds
        /\ result \in [Ids -> {"none", "ok", "failed"}]
        /\ executed \subseteq Ids
        /\ desync \subseteq Disks

(* TypeOK, variable by variable. *)
LEMMA TypeParts ==
  TypeOK <=> /\ host \in [Disks -> HostStates] /\ port \in [Disks -> PortStates]
             /\ dev \in [Disks -> DevStates] /\ Rest
BY DEF TypeOK, HostStates, PortStates, DevStates, Bufs, Rest

\* What a command carries.
LEMMA CmdFields ==
  /\ \A c \in Cmds : c.id \in Ids /\ c.op \in Ops /\ c.n \in Slots
  /\ \A i \in Ids, op \in Ops, n \in Slots : [id |-> i, op |-> op, n |-> n] \in Cmds
  /\ NoCmd.id = 0 /\ NoCmd.n = 0
BY DEF Cmds, NoCmd

\* What a packet carries, and what Packet makes.
LEMMA PacketFields ==
  /\ \A p \in Packets : p.cmd \in Cmds \cup {NoCmd} /\ p.k \in 0 .. MaxPackets
                        /\ p.isOK \in BOOLEAN
  /\ \A c \in Cmds \cup {NoCmd}, k \in 0 .. MaxPackets :
       Packet(c, k) \in Packets /\ Carries(Packet(c, k), c, k)
BY DEF Packets, Packet, Carries

\* A sector that was never written bears no number and no isOK.
LEMMA ClearedFields == Cleared \in Packets /\ Cleared.k = 0 /\ ~Cleared.isOK
BY BoundsNat, PacketFields DEF Cleared, Carries

\* A FIS carries what it was made of; NoFis carries nothing.
LEMMA FisFields ==
  ASSUME NEW d \in Disks, NEW p \in Packets, NEW code \in {"WRITE_BUFFER", "READ_BUFFER"}
  PROVE  /\ Fis(d, code, p) \in PortStates /\ Fis(d, code, p).from = d
         /\ Fis(d, code, p).code = code /\ Fis(d, code, p).pkt = p
         /\ ~Fis(d, code, p).seen
         /\ NoFis \in PortStates /\ NoFis.code = "none" /\ NoFis.pkt = Cleared
         /\ ~NoFis.seen
BY DeviceIsDisk, ClearedFields DEF Fis, NoFis, PortStates

\* issd_sendCmd goes on to the next packet, or to the wait after the last.
LEMMA PacketSentFacts ==
  ASSUME Types, NEW d \in Disks, host' = PacketSent(d)
  PROVE  /\ host' \in [Disks -> HostStates]
         /\ \A e \in Disks \ {d} : host'[e] = host[e]
         /\ host'[d].cmd = host[d].cmd
         /\ host[d].i < host[d].cmd.n =>
              /\ host'[d].pc = "send" /\ host'[d].i = host[d].i + 1
              /\ host[d].cmd \in Cmds /\ host'[d].i \in Slots
         /\ ~(host[d].i < host[d].cmd.n) => host'[d].pc = "poll" /\ host'[d].i = host[d].i
         /\ host'[d].pc = "send" => host'[d].cmd \in Cmds /\ host'[d].i \in Slots
<1>1. host \in [Disks -> HostStates] BY TypeParts DEF Types
<1>2. /\ host[d].i \in 0 .. MaxPackets /\ host[d].cmd \in Cmds \cup {NoCmd}
      /\ host[d] = [pc |-> host[d].pc, cmd |-> host[d].cmd, i |-> host[d].i]
  BY <1>1 DEF HostStates
<1>3. CASE host[d].i < host[d].cmd.n
  <2>1. host[d].cmd \in Cmds /\ host[d].i + 1 \in Slots
    BY <1>2, <1>3, CmdFields, BoundsNat DEF Slots
  <2>2. host' = [host EXCEPT ![d] = [pc |-> "send", cmd |-> host[d].cmd, i |-> host[d].i + 1]]
    BY <1>1, <1>2, <1>3 DEF PacketSent, HostStates
  <2>3. [pc |-> "send", cmd |-> host[d].cmd, i |-> host[d].i + 1] \in HostStates
    BY <2>1 DEF HostStates, Slots
  <2>4. host[d].i \in Int /\ host[d].cmd.n \in Int
    BY <1>2, CmdFields, BoundsNat DEF Slots
  <2> QED BY <1>1, <1>3, <2>1, <2>2, <2>3, <2>4
<1>4. CASE ~(host[d].i < host[d].cmd.n)
  <2>1. host' = [host EXCEPT ![d].pc = "poll"]
    BY <1>4 DEF PacketSent
  <2>2. host' \in [Disks -> HostStates] BY <1>1, <2>1 DEF HostStates
  <2> QED BY <1>1, <1>4, <2>1, <2>2 DEF HostStates
<1> QED BY <1>3, <1>4

\* A poll that found isOK ends the command, any other is repeated.
LEMMA PolledFacts ==
  ASSUME Types, NEW d \in Disks, NEW isOK \in BOOLEAN, Polled(d, isOK)
  PROVE  /\ host' \in [Disks -> HostStates]
         /\ \A e \in Disks \ {d} : host'[e] = host[e]
         /\ host'[d].pc = IF isOK THEN "idle" ELSE "poll"
         /\ host'[d].cmd = host[d].cmd /\ host'[d].i = host[d].i
         /\ result' \in [Ids -> {"none", "ok", "failed"}]
         /\ \A c \in Ids : result'[c] = IF isOK /\ c = host[d].cmd.id THEN "ok" ELSE result[c]
<1>1. host \in [Disks -> HostStates] /\ result \in [Ids -> {"none", "ok", "failed"}]
  BY TypeParts DEF Types, Rest
<1>2. host' = [host EXCEPT ![d].pc = IF isOK THEN "idle" ELSE "poll"]
  BY DEF Polled
<1>3. result' = IF isOK THEN [result EXCEPT ![host[d].cmd.id] = "ok"] ELSE result
  BY DEF Polled
<1>4. result' \in [Ids -> {"none", "ok", "failed"}] BY <1>1, <1>3
<1>5. \A c \in Ids : result'[c] = IF isOK /\ c = host[d].cmd.id THEN "ok" ELSE result[c]
  BY <1>1, <1>3
<1> QED BY <1>1, <1>2, <1>4, <1>5 DEF HostStates

\* A new command takes the next number and starts with its first packet.
LEMMA CreateCmdFacts ==
  ASSUME Types, NEW d \in Disks, NEW op \in Ops, NEW n \in Slots, CreateCmd(d, op, n)
  PROVE  /\ host[d].pc = "idle" /\ sentCmds < MaxCmds /\ sentCmds' = sentCmds + 1
         /\ host' \in [Disks -> HostStates] /\ \A e \in Disks \ {d} : host'[e] = host[e]
         /\ host'[d].pc = "send" /\ host'[d].i = 1
         /\ host'[d].cmd \in Cmds /\ host'[d].cmd.id = sentCmds + 1 /\ host'[d].cmd.n = n
         /\ UNCHANGED <<port, dev, result, executed, desync>>
<1>1. host \in [Disks -> HostStates] /\ sentCmds \in 0 .. MaxCmds /\ MaxCmds \in Nat
  BY TypeParts, BoundsNat DEF Types, Rest
<1> DEFINE c == [id |-> sentCmds + 1, op |-> op, n |-> n]
<1>2. c \in Cmds /\ c.id = sentCmds + 1 /\ c.n = n
  BY <1>1, CmdFields DEF Ids, CreateCmd
<1>3. host' = [host EXCEPT ![d] = [pc |-> "send", i |-> 1, cmd |-> c]]
  BY DEF CreateCmd
<1> HIDE DEF c
<1> QED BY <1>1, <1>2, <1>3, BoundsNat DEF CreateCmd, HostStates

\* The packet that the host is at lies at the port.
LEMMA SendPacketFacts ==
  ASSUME Types, NEW d \in Disks, SendPacket(d)
  PROVE  /\ host[d].pc = "send" /\ port[d] = NoFis
         /\ host' \in [Disks -> HostStates] /\ \A e \in Disks \ {d} : host'[e] = host[e]
         /\ host'[d].pc = "sending" /\ host'[d].i = host[d].i /\ host'[d].cmd = host[d].cmd
         /\ port' \in [Disks -> PortStates] /\ \A e \in Disks \ {d} : port'[e] = port[e]
         /\ port'[d].code = "WRITE_BUFFER" /\ ~port'[d].seen
         /\ Carries(port'[d].pkt, host[d].cmd, host[d].i)
         /\ UNCHANGED <<dev, sentCmds, result, executed, desync>>
<1>1. host \in [Disks -> HostStates] /\ port \in [Disks -> PortStates]
  BY TypeParts DEF Types
<1>2. host[d].cmd \in Cmds \cup {NoCmd} /\ host[d].i \in 0 .. MaxPackets
  BY <1>1 DEF HostStates
<1> DEFINE p == Packet(host[d].cmd, host[d].i)
           f == Fis(d, "WRITE_BUFFER", p)
<1>3. p \in Packets /\ Carries(p, host[d].cmd, host[d].i)
  BY <1>2, PacketFields
<1>4. f \in PortStates /\ f.code = "WRITE_BUFFER" /\ f.pkt = p /\ ~f.seen
  BY <1>3, FisFields
<1>5. port' = [port EXCEPT ![d] = f] /\ host' = [host EXCEPT ![d].pc = "sending"]
  BY DEF SendPacket
<1> HIDE DEF f
<1>6. port' \in [Disks -> PortStates] BY <1>1, <1>4, <1>5
<1>7. host' \in [Disks -> HostStates] BY <1>1, <1>5 DEF HostStates
<1> QED BY <1>1, <1>3, <1>4, <1>5, <1>6, <1>7 DEF SendPacket, HostStates

\* A poll lies at the port of DEVICE_NAME, whichever routine sends it.
LEMMA PollFacts ==
  ASSUME Types, NEW d \in Disks, Poll(d)
  PROVE  /\ host[d].pc = "poll" /\ port[D] = NoFis
         /\ host' \in [Disks -> HostStates] /\ \A e \in Disks \ {d} : host'[e] = host[e]
         /\ host'[d].pc = "polling" /\ host'[d].i = host[d].i /\ host'[d].cmd = host[d].cmd
         /\ port' \in [Disks -> PortStates] /\ \A e \in Disks \ {D} : port'[e] = port[e]
         /\ port'[D].code = "READ_BUFFER" /\ ~port'[D].seen
         /\ port'[D].from = d /\ port'[D].pkt = Cleared
         /\ UNCHANGED <<dev, sentCmds, result, executed, desync>>
<1>1. host \in [Disks -> HostStates] /\ port \in [Disks -> PortStates] /\ D \in Disks
  BY TypeParts, DeviceIsDisk DEF Types, D
<1> DEFINE f == Fis(d, "READ_BUFFER", Cleared)
<1>2. f \in PortStates /\ f.code = "READ_BUFFER" /\ f.pkt = Cleared /\ ~f.seen /\ f.from = d
  BY ClearedFields, FisFields
<1>3. port' = [port EXCEPT ![D] = f] /\ host' = [host EXCEPT ![d].pc = "polling"]
  BY DEF Poll, D
<1> HIDE DEF f
<1>4. port' \in [Disks -> PortStates] BY <1>1, <1>2, <1>3
<1>5. host' \in [Disks -> HostStates] BY <1>1, <1>3 DEF HostStates
<1> QED BY <1>1, <1>2, <1>3, <1>4, <1>5 DEF Poll, HostStates, D

\* A failed ioctl ends the command; between two packets it leaves the disk out of
\* step.
LEMMA IoctlFailsFacts ==
  ASSUME Types, NEW d \in Disks, IoctlFails(d)
  PROVE  /\ host[d].pc \in {"send", "poll"}
         /\ host' \in [Disks -> HostStates] /\ \A e \in Disks \ {d} : host'[e] = host[e]
         /\ host'[d].pc = "idle" /\ host'[d].i = host[d].i /\ host'[d].cmd = host[d].cmd
         /\ result' \in [Ids -> {"none", "ok", "failed"}]
         /\ \A c \in Ids : result'[c] = IF c = host[d].cmd.id THEN "failed" ELSE result[c]
         /\ desync' \subseteq Disks /\ desync \subseteq desync'
         /\ d \notin desync' => host[d].pc = "poll" \/ host[d].i <= 1
         /\ UNCHANGED <<port, dev, sentCmds, executed>>
<1>1. /\ host \in [Disks -> HostStates] /\ result \in [Ids -> {"none", "ok", "failed"}]
      /\ desync \subseteq Disks
  BY TypeParts DEF Types, Rest
<1>2. /\ host' = [host EXCEPT ![d].pc = "idle"]
      /\ result' = [result EXCEPT ![host[d].cmd.id] = "failed"]
  BY DEF IoctlFails
<1>3. host' \in [Disks -> HostStates] BY <1>1, <1>2 DEF HostStates
<1>4. result' \in [Ids -> {"none", "ok", "failed"}] BY <1>1, <1>2
<1>5. \A c \in Ids : result'[c] = IF c = host[d].cmd.id THEN "failed" ELSE result[c]
  BY <1>1, <1>2
<1>6. host[d].i \in Int BY <1>1, BoundsNat DEF HostStates
<1>7. /\ desync' \subseteq Disks /\ desync \subseteq desync'
      /\ d \notin desync' => host[d].pc = "poll" \/ host[d].i <= 1
  BY <1>1, <1>6 DEF IoctlFails
<1> QED BY <1>1, <1>2, <1>3, <1>4, <1>5, <1>7 DEF IoctlFails, HostStates

\* The interrupt handler marks the command as seen and touches no packet.
LEMMA GotCfisFacts ==
  ASSUME Types, NEW d \in Disks, handle_got_cfis(d)
  PROVE  /\ port[d] # NoFis
         /\ port' \in [Disks -> PortStates] /\ \A e \in Disks \ {d} : port'[e] = port[e]
         /\ port'[d].code = port[d].code /\ port'[d].pkt = port[d].pkt
         /\ port'[d].from = port[d].from /\ port'[d].seen
         /\ dev' \in [Disks -> DevStates] /\ \A e \in Disks \ {d} : dev'[e] = dev[e]
         /\ dev'[d].pc = dev[d].pc /\ dev'[d].offset = dev[d].offset
         /\ dev'[d].num_packet = dev[d].num_packet
         /\ dev'[d].HIL_BUF = dev[d].HIL_BUF /\ dev'[d].CMD_BUFFER = dev[d].CMD_BUFFER
         /\ UNCHANGED <<host, sentCmds, result, executed, desync>>
<1>1. port \in [Disks -> PortStates] /\ dev \in [Disks -> DevStates]
  BY TypeParts DEF Types
<1>2. /\ port' = [port EXCEPT ![d].seen = TRUE]
      /\ dev' = [dev EXCEPT ![d].slow_cmd = "PENDING"]
  BY DEF handle_got_cfis
<1>3. port' \in [Disks -> PortStates] BY <1>1, <1>2 DEF PortStates
<1>4. dev' \in [Disks -> DevStates] BY <1>1, <1>2 DEF DevStates
<1>5. port'[d].seen BY <1>1, <1>2 DEF PortStates
<1>6. /\ \A e \in Disks \ {d} : port'[e] = port[e] /\ dev'[e] = dev[e]
      /\ port'[d].code = port[d].code /\ port'[d].pkt = port[d].pkt
      /\ port'[d].from = port[d].from
  BY <1>1, <1>2 DEF PortStates
<1>7. /\ dev'[d].pc = dev[d].pc /\ dev'[d].offset = dev[d].offset
      /\ dev'[d].num_packet = dev[d].num_packet
      /\ dev'[d].HIL_BUF = dev[d].HIL_BUF /\ dev'[d].CMD_BUFFER = dev[d].CMD_BUFFER
  BY <1>1, <1>2 DEF DevStates
<1> QED BY <1>3, <1>4, <1>5, <1>6, <1>7 DEF handle_got_cfis

\* the command at port d has been answered
Answered(d) ==
  /\ port' \in [Disks -> PortStates] /\ port'[d] = NoFis
  /\ \A e \in Disks \ {d} : port'[e] = port[e]

\* The status of a command clears the port.
LEMMA AnsweredFacts ==
  ASSUME Types, NEW d \in Disks, port' = [port EXCEPT ![d] = NoFis]
  PROVE  Answered(d)
<1>1. port \in [Disks -> PortStates] /\ NoFis \in PortStates
  BY TypeParts, FisFields, ClearedFields DEF Types
<1> QED BY <1>1 DEF Answered

\* The packet is copied to the sector packet_rcv_buf_offset of HIL_BUF.
LEMMA ReceivePacketFacts ==
  ASSUME Types, NEW d \in Disks, ReceivePacket(d)
  PROVE  /\ dev[d].pc = "loop" /\ port[d].code = "WRITE_BUFFER"
         /\ Answered(d) /\ host' = PacketSent(d)
         /\ dev' \in [Disks -> DevStates] /\ \A e \in Disks \ {d} : dev'[e] = dev[e]
         /\ dev'[d].pc = "count" /\ dev'[d].offset = dev[d].offset
         /\ dev'[d].num_packet = dev[d].num_packet
         /\ dev'[d].CMD_BUFFER = dev[d].CMD_BUFFER
         /\ \A s \in Slots : dev'[d].HIL_BUF[s] = IF s = dev[d].offset + 1 THEN port[d].pkt
                                                  ELSE dev[d].HIL_BUF[s]
         /\ UNCHANGED <<sentCmds, result, executed, desync>>
<1>1. port \in [Disks -> PortStates] /\ dev \in [Disks -> DevStates]
  BY TypeParts DEF Types
<1>2. port[d].pkt \in Packets BY <1>1 DEF PortStates
<1> DEFINE B == IF dev[d].offset + 1 \in Slots
                THEN [dev[d].HIL_BUF EXCEPT ![dev[d].offset + 1] = port[d].pkt]
                ELSE dev[d].HIL_BUF
<1>3. dev[d].HIL_BUF \in [Slots -> Packets] BY <1>1 DEF DevStates, Bufs
<1>4. /\ B \in Bufs
      /\ \A s \in Slots : B[s] = IF s = dev[d].offset + 1 THEN port[d].pkt
                                 ELSE dev[d].HIL_BUF[s]
  BY <1>2, <1>3 DEF Bufs
<1>5. dev' = [dev EXCEPT ![d].slow_cmd = "BUSY", ![d].pc = "count", ![d].HIL_BUF = B]
  BY <1>1 DEF ReceivePacket, DevStates
<1> HIDE DEF B
<1>6. dev' \in [Disks -> DevStates]
  <2> DEFINE v == [dev[d] EXCEPT !.slow_cmd = "BUSY", !.pc = "count", !.HIL_BUF = B]
  <2>1. v \in DevStates BY <1>1, <1>4 DEF DevStates
  <2>2. dev' = [dev EXCEPT ![d] = v] BY <1>1, <1>5 DEF DevStates
  <2> QED BY <1>1, <2>1, <2>2
<1>7. dev'[d].HIL_BUF = B BY <1>1, <1>5 DEF DevStates
<1>8. Answered(d) BY AnsweredFacts DEF ReceivePacket
<1> QED BY <1>1, <1>4, <1>5, <1>6, <1>7, <1>8 DEF ReceivePacket, Pending, DevStates

Counted(v, pc, m, o) == [v EXCEPT !.pc = pc, !.num_packet = m, !.offset = o]

\* Updating pc and the two counters leaves the buffers alone.
LEMMA CountedFacts ==
  ASSUME NEW v \in DevStates, NEW pc \in {"loop", "count", "process", "return"},
         NEW m \in Int, NEW o \in Nat
  PROVE  /\ Counted(v, pc, m, o) \in DevStates
         /\ Counted(v, pc, m, o).pc = pc
         /\ Counted(v, pc, m, o).num_packet = m /\ Counted(v, pc, m, o).offset = o
         /\ Counted(v, pc, m, o).HIL_BUF = v.HIL_BUF
         /\ Counted(v, pc, m, o).CMD_BUFFER = v.CMD_BUFFER
<1>1. [v EXCEPT !.pc = pc] \in DevStates BY DEF DevStates
<1>2. [v EXCEPT !.pc = pc, !.num_packet = m] \in DevStates BY <1>1 DEF DevStates
<1>3. [v EXCEPT !.pc = pc, !.num_packet = m, !.offset = o] \in DevStates
  BY <1>2 DEF DevStates
<1> QED BY <1>3 DEF DevStates, Counted

\* The packet is counted; the last one copies HIL_BUF to ISSD_CMD_BUFFER.
LEMMA CountPacketFacts ==
  ASSUME Types, NEW d \in Disks, CountPacket(d)
  PROVE  /\ dev[d].pc = "count" /\ dev[d].HIL_BUF[1] \in Packets
         /\ dev' \in [Disks -> DevStates] /\ \A e \in Disks \ {d} : dev'[e] = dev[e]
         /\ dev'[d].HIL_BUF = dev[d].HIL_BUF
         /\ \E m \in NumPacket(dev[d].HIL_BUF[1]) :
              LET left == IF dev[d].num_packet = 0 THEN m - 1 ELSE dev[d].num_packet - 1
              IN \/ /\ left = 0 /\ dev'[d].pc = "process" /\ dev'[d].num_packet = 0
                    /\ dev'[d].offset = 0 /\ dev'[d].CMD_BUFFER = dev[d].HIL_BUF
                 \/ /\ left # 0 /\ dev'[d].pc = "return" /\ dev'[d].num_packet = left
                    /\ dev'[d].offset = dev[d].offset + 1
                    /\ dev'[d].CMD_BUFFER = dev[d].CMD_BUFFER
         /\ UNCHANGED <<host, port, sentCmds, result, executed, desync>>
<1>1. dev \in [Disks -> DevStates] BY TypeParts DEF Types
<1>2. /\ dev[d] \in DevStates /\ dev[d].HIL_BUF \in Bufs
      /\ dev[d].num_packet \in Int /\ dev[d].offset \in Nat
  BY <1>1 DEF DevStates
<1>3. dev[d].HIL_BUF[1] \in Packets BY <1>2, BoundsNat DEF Slots, Bufs
<1>4. PICK m \in NumPacket(dev[d].HIL_BUF[1]) :
        LET left == IF dev[d].num_packet = 0 THEN m - 1 ELSE dev[d].num_packet - 1
        IN dev' = [dev EXCEPT ![d] =
             IF left = 0
             THEN [dev[d] EXCEPT !.pc = "process", !.num_packet = 0, !.offset = 0,
                                 !.CMD_BUFFER = dev[d].HIL_BUF]
             ELSE [dev[d] EXCEPT !.pc = "return", !.num_packet = left, !.offset = @ + 1]]
  BY DEF CountPacket
<1>5. m \in Int
  BY <1>3, PacketFields, CmdFields, BoundsNat DEF NumPacket, FirstWords, Slots
<1> DEFINE left == IF dev[d].num_packet = 0 THEN m - 1 ELSE dev[d].num_packet - 1
<1>6. left \in Int BY <1>2, <1>5
<1>7. CASE left = 0
  <2> DEFINE v == [dev[d] EXCEPT !.pc = "process", !.num_packet = 0, !.offset = 0,
                                 !.CMD_BUFFER = dev[d].HIL_BUF]
  <2>1. v \in DevStates
    <3> DEFINE w == Counted(dev[d], "process", 0, 0)
    <3>1. w \in DevStates /\ dev[d].HIL_BUF \in Bufs BY <1>2, CountedFacts
    <3>2. v = [w EXCEPT !.CMD_BUFFER = dev[d].HIL_BUF] BY DEF Counted
    <3> HIDE DEF w, v
    <3> QED BY <3>1, <3>2 DEF DevStates
  <2>2. dev' = [dev EXCEPT ![d] = v] BY <1>4, <1>7
  <2>3. /\ v.pc = "process" /\ v.num_packet = 0 /\ v.offset = 0
        /\ v.CMD_BUFFER = dev[d].HIL_BUF /\ v.HIL_BUF = dev[d].HIL_BUF
    BY <1>2 DEF DevStates
  <2> HIDE DEF v
  <2> QED BY <1>1, <1>3, <1>7, <2>1, <2>2, <2>3 DEF CountPacket
<1>8. CASE left # 0
  <2> DEFINE v == Counted(dev[d], "return", left, dev[d].offset + 1)
  <2>1. dev' = [dev EXCEPT ![d] = v] BY <1>4, <1>8 DEF Counted
  <2> HIDE DEF left
  <2>2. dev[d].offset + 1 \in Nat BY <1>2
  <2>3. /\ v \in DevStates
        /\ v.pc = "return" /\ v.num_packet = left /\ v.offset = dev[d].offset + 1
        /\ v.CMD_BUFFER = dev[d].CMD_BUFFER /\ v.HIL_BUF = dev[d].HIL_BUF
    BY <1>2, <1>6, <2>2, CountedFacts
  <2> HIDE DEF v
  <2>4. /\ dev' \in [Disks -> DevStates] /\ dev'[d] = v
        /\ \A e \in Disks \ {d} : dev'[e] = dev[e]
    BY <1>1, <2>1, <2>3
  <2> USE DEF left
  <2> QED BY <1>3, <1>8, <2>3, <2>4 DEF CountPacket
<1> QED BY <1>7, <1>8

\* the firmware of disk d goes on, its packets stay as they are
OnlyPc(d, pc) ==
  /\ dev' \in [Disks -> DevStates] /\ \A e \in Disks \ {d} : dev'[e] = dev[e]
  /\ dev'[d].pc = pc
  /\ dev'[d].num_packet = dev[d].num_packet /\ dev'[d].offset = dev[d].offset
  /\ dev'[d].HIL_BUF = dev[d].HIL_BUF /\ dev'[d].CMD_BUFFER = dev[d].CMD_BUFFER

\* The end of a slow command moves nothing but the firmware.
LEMMA ReturnFacts ==
  ASSUME Types, NEW d \in Disks
  PROVE  /\ dev' = [dev EXCEPT ![d].pc = "return"] => OnlyPc(d, "return")
         /\ MainReturns(d) => OnlyPc(d, "loop")
<1>1. dev \in [Disks -> DevStates] BY TypeParts DEF Types
<1>2. ASSUME dev' = [dev EXCEPT ![d].pc = "return"] PROVE OnlyPc(d, "return")
  BY <1>1, <1>2 DEF OnlyPc, DevStates
<1>3. ASSUME dev' = [dev EXCEPT ![d].pc = "loop", ![d].slow_cmd = "NONE"]
      PROVE  OnlyPc(d, "loop")
  BY <1>1, <1>3 DEF OnlyPc, DevStates
<1> QED BY <1>2, <1>3 DEF MainReturns

\* issd_process_cmd sets isOK in the command buffer
LEMMA BackupFacts ==
  ASSUME Types, NEW d \in Disks, Backup(d)
  PROVE  /\ dev[d].pc = "process" /\ dev[d].CMD_BUFFER[1] \in Packets
         /\ dev' \in [Disks -> DevStates] /\ \A e \in Disks \ {d} : dev'[e] = dev[e]
         /\ dev'[d].pc = "return"
         /\ dev'[d].num_packet = dev[d].num_packet /\ dev'[d].offset = dev[d].offset
         /\ dev'[d].HIL_BUF = dev[d].HIL_BUF
         /\ \A s \in Slots : /\ dev'[d].CMD_BUFFER[s].k = dev[d].CMD_BUFFER[s].k
                             /\ dev'[d].CMD_BUFFER[s].cmd = dev[d].CMD_BUFFER[s].cmd
         /\ UNCHANGED <<host, port, sentCmds, result, desync>>
<1>1. dev \in [Disks -> DevStates] BY TypeParts DEF Types
<1>2. dev[d].CMD_BUFFER \in [Slots -> Packets] BY <1>1 DEF DevStates, Bufs
<1>3. 1 \in Slots /\ dev[d].CMD_BUFFER[1] \in Packets BY <1>2, BoundsNat DEF Slots
<1> DEFINE B == [dev[d].CMD_BUFFER EXCEPT ![1].isOK = TRUE]
<1>4. [dev[d].CMD_BUFFER[1] EXCEPT !.isOK = TRUE] \in Packets
  BY <1>3 DEF Packets
<1>5. B \in Bufs BY <1>2, <1>3, <1>4 DEF Bufs
<1>6. \A s \in Slots : /\ B[s].k = dev[d].CMD_BUFFER[s].k
                       /\ B[s].cmd = dev[d].CMD_BUFFER[s].cmd
  BY <1>2, <1>3 DEF Packets
<1>7. dev' = [dev EXCEPT ![d].pc = "return", ![d].CMD_BUFFER = B]
  BY <1>1 DEF Backup, DevStates
<1> HIDE DEF B
<1>8. /\ dev' \in [Disks -> DevStates] /\ \A e \in Disks \ {d} : dev'[e] = dev[e]
      /\ dev'[d].pc = "return"
      /\ dev'[d].num_packet = dev[d].num_packet /\ dev'[d].offset = dev[d].offset
      /\ dev'[d].HIL_BUF = dev[d].HIL_BUF /\ dev'[d].CMD_BUFFER = B
  BY <1>1, <1>5, <1>7 DEF DevStates
<1> QED BY <1>3, <1>6, <1>8 DEF Backup

\* ata_read_buffer copies ISSD_CMD_BUFFER to HIL_BUF and shows its isOK to the host.
LEMMA ReadBufferFacts ==
  ASSUME Types, NEW d \in Disks, ReadBuffer(d)
  PROVE  /\ dev[d].pc = "loop" /\ port[d].code = "READ_BUFFER" /\ port[d].from \in Disks
         /\ Answered(d)
         /\ dev[d].CMD_BUFFER[1] \in Packets
         /\ dev' \in [Disks -> DevStates] /\ \A e \in Disks \ {d} : dev'[e] = dev[e]
         /\ dev'[d].pc = "return"
         /\ dev'[d].num_packet = dev[d].num_packet /\ dev'[d].offset = dev[d].offset
         /\ dev'[d].HIL_BUF = dev[d].CMD_BUFFER /\ dev'[d].CMD_BUFFER = dev[d].CMD_BUFFER
         /\ \E isOK \in BOOLEAN : /\ isOK \in IsOK(dev[d].CMD_BUFFER[1])
                                  /\ Polled(port[d].from, isOK)
         /\ UNCHANGED <<sentCmds, executed, desync>>
<1>1. dev \in [Disks -> DevStates] /\ port \in [Disks -> PortStates]
  BY TypeParts DEF Types
<1>2. /\ dev[d].CMD_BUFFER \in Bufs /\ dev[d].CMD_BUFFER[1] \in Packets
      /\ port[d].from \in Disks
  BY <1>1, BoundsNat DEF DevStates, PortStates, Bufs, Slots
<1> DEFINE v == [dev[d] EXCEPT !.slow_cmd = "BUSY", !.pc = "return",
                               !.HIL_BUF = dev[d].CMD_BUFFER]
<1>3. /\ v \in DevStates /\ v.pc = "return" /\ v.num_packet = dev[d].num_packet
      /\ v.offset = dev[d].offset /\ v.HIL_BUF = dev[d].CMD_BUFFER
      /\ v.CMD_BUFFER = dev[d].CMD_BUFFER
  BY <1>1, <1>2 DEF DevStates
<1>4. dev' = [dev EXCEPT ![d] = v] BY <1>1 DEF ReadBuffer, DevStates
<1> HIDE DEF v
<1>5. dev' \in [Disks -> DevStates] /\ dev'[d] = v /\ \A e \in Disks \ {d} : dev'[e] = dev[e]
  BY <1>1, <1>3, <1>4
<1>6. Answered(d) BY AnsweredFacts DEF ReadBuffer
<1>7. \A isOK \in IsOK(dev[d].CMD_BUFFER[1]) : isOK \in BOOLEAN
  BY Zenon DEF IsOK, FirstWords
<1>8. \E isOK \in BOOLEAN : isOK \in IsOK(dev[d].CMD_BUFFER[1]) /\ Polled(port[d].from, isOK)
  BY <1>7 DEF ReadBuffer
<1> QED BY <1>2, <1>3, <1>5, <1>6, <1>8 DEF ReadBuffer, Pending

\* A command given up after 12 seconds counts as sent, or as a poll without isOK.
LEMMA TimeoutFacts ==
  ASSUME Types, NEW d \in Disks, Timeout(d)
  PROVE  /\ port[d].seen /\ dev[d].pc = "loop" /\ Answered(d)
         /\ port[d].from \in Disks
         /\ \/ /\ port[d].code = "WRITE_BUFFER" /\ host' = PacketSent(port[d].from)
               /\ desync' = desync \cup {d} /\ UNCHANGED result
            \/ /\ port[d].code # "WRITE_BUFFER" /\ Polled(port[d].from, FALSE)
               /\ UNCHANGED desync
         /\ UNCHANGED <<dev, sentCmds, executed>>
<1>1. port[d].from \in Disks BY TypeParts DEF Types, PortStates
<1>2. Answered(d) BY AnsweredFacts DEF Timeout
<1> QED BY <1>1, <1>2 DEF Timeout

-----------------------------------------------------------------------------
(* Types, for any number of disks *)

\* Types, variable by variable.
LEMMA TypesFacts ==
  ASSUME Types
  PROVE  /\ host \in [Disks -> HostStates] /\ port \in [Disks -> PortStates]
         /\ dev \in [Disks -> DevStates] /\ Rest /\ Named
BY TypeParts DEF Types

\* Named is kept by a step that changes one host, ...
LEMMA NamedHost ==
  ASSUME Types, NEW d \in Disks,
         \A e \in Disks \ {d} : host'[e] = host[e],
         host'[d].pc = "send" => host'[d].cmd \in Cmds /\ host'[d].i \in Slots
  PROVE  \A e \in Disks : host'[e].pc = "send" => host'[e].cmd \in Cmds /\ host'[e].i \in Slots
BY DEF Types, Named

\* ... one port, ...
LEMMA NamedPort ==
  ASSUME Types, NEW d \in Disks,
         \A e \in Disks \ {d} : port'[e] = port[e],
         port'[d].pkt.k > 0 => port'[d].pkt.cmd \in Cmds
  PROVE  \A e \in Disks : port'[e].pkt.k > 0 => port'[e].pkt.cmd \in Cmds
BY DEF Types, Named

\* ... or the firmware of one disk.
LEMMA NamedDev ==
  ASSUME Types, NEW d \in Disks,
         \A e \in Disks \ {d} : dev'[e] = dev[e],
         \A s \in Slots : /\ dev'[d].HIL_BUF[s].k > 0 => dev'[d].HIL_BUF[s].cmd \in Cmds
                          /\ dev'[d].CMD_BUFFER[s].k > 0 => dev'[d].CMD_BUFFER[s].cmd \in Cmds
  PROVE  \A e \in Disks, s \in Slots :
           /\ dev'[e].HIL_BUF[s].k > 0 => dev'[e].HIL_BUF[s].cmd \in Cmds
           /\ dev'[e].CMD_BUFFER[s].k > 0 => dev'[e].CMD_BUFFER[s].cmd \in Cmds
BY DEF Types, Named

\* An answered port holds no packet.
LEMMA AnsweredNamed ==
  ASSUME Types, NEW d \in Disks, Answered(d)
  PROVE  port' \in [Disks -> PortStates]
         /\ \A e \in Disks : port'[e].pkt.k > 0 => port'[e].pkt.cmd \in Cmds
<1>1. ~(port'[d].pkt.k > 0)
  BY ClearedFields, FisFields DEF Answered
<1> QED BY <1>1, NamedPort DEF Answered

\* The buffers keep their packets where only the firmware moves.
LEMMA OnlyPcNamed ==
  ASSUME Types, NEW d \in Disks, NEW pc, OnlyPc(d, pc)
  PROVE  dev' \in [Disks -> DevStates]
         /\ \A e \in Disks, s \in Slots :
              /\ dev'[e].HIL_BUF[s].k > 0 => dev'[e].HIL_BUF[s].cmd \in Cmds
              /\ dev'[e].CMD_BUFFER[s].k > 0 => dev'[e].CMD_BUFFER[s].cmd \in Cmds
BY DEF Types, Named, OnlyPc

(* Each action of one disk keeps the types. *)
LEMMA TypesStep ==
  ASSUME Types, NEW d \in Disks,
         \/ \E op \in Ops, n \in Slots : CreateCmd(d, op, n)
         \/ routine(d) \/ IoctlFails(d) \/ handle_got_cfis(d) \/ device(d) \/ Timeout(d)
  PROVE  Types'
<1> USE TypesFacts
<1>1. Types' <=> /\ (host \in [Disks -> HostStates])' /\ (port \in [Disks -> PortStates])'
                 /\ (dev \in [Disks -> DevStates])' /\ Rest' /\ Named'
  BY TypeParts, PTL DEF Types
<1>2. ASSUME NEW op \in Ops, NEW n \in Slots, CreateCmd(d, op, n) PROVE Types'
  <2>1. /\ sentCmds < MaxCmds /\ sentCmds' = sentCmds + 1
        /\ host' \in [Disks -> HostStates] /\ \A e \in Disks \ {d} : host'[e] = host[e]
        /\ host'[d].i = 1 /\ host'[d].cmd \in Cmds
        /\ UNCHANGED <<port, dev, result, executed, desync>>
    BY <1>2, CreateCmdFacts
  <2>2. Rest' BY <2>1, BoundsNat DEF Rest
  <2>3. Named'
    <3>1. 1 \in Slots BY BoundsNat DEF Slots
    <3> QED BY <2>1, <3>1, NamedHost DEF Named
  <2> QED BY <1>1, <2>1, <2>2, <2>3
<1>3. CASE SendPacket(d)
  <2> USE <1>3, SendPacketFacts
  <2>1. port'[d].pkt.cmd \in Cmds BY DEF Named, Carries
  <2>2. Named' BY <2>1, NamedHost, NamedPort DEF Named
  <2>3. Rest' BY DEF Rest
  <2> QED BY <1>1, <2>2, <2>3
<1>4. CASE Poll(d)
  <2> USE <1>4, PollFacts
  <2>1. D \in Disks /\ ~(port'[D].pkt.k > 0) BY DeviceIsDisk, ClearedFields DEF D
  <2>2. Named' BY <2>1, NamedHost, NamedPort DEF Named
  <2>3. Rest' BY DEF Rest
  <2> QED BY <1>1, <2>2, <2>3
<1>5. CASE IoctlFails(d)
  <2> USE <1>5, IoctlFailsFacts
  <2>1. Named' BY NamedHost DEF Named
  <2>2. Rest' BY DEF Rest
  <2> QED BY <1>1, <2>1, <2>2
<1>6. CASE handle_got_cfis(d)
  <2> USE <1>6, GotCfisFacts
  <2>1. Named' BY NamedPort, NamedDev DEF Named
  <2>2. Rest' BY DEF Rest
  <2> QED BY <1>1, <2>1, <2>2
<1>7. CASE ReceivePacket(d)
  <2> USE <1>7, ReceivePacketFacts, PacketSentFacts
  <2>1. \A s \in Slots :
          /\ dev'[d].HIL_BUF[s].k > 0 => dev'[d].HIL_BUF[s].cmd \in Cmds
          /\ dev'[d].CMD_BUFFER[s].k > 0 => dev'[d].CMD_BUFFER[s].cmd \in Cmds
    BY DEF Named
  <2>2. Named' BY <2>1, NamedHost, AnsweredNamed, NamedDev DEF Named
  <2>3. Rest' BY DEF Rest
  <2> QED BY <1>1, <2>2, <2>3, AnsweredNamed
<1>8. CASE CountPacket(d)
  <2> USE <1>8, CountPacketFacts
  <2>1. \A s \in Slots : dev'[d].CMD_BUFFER[s].k > 0 => dev'[d].CMD_BUFFER[s].cmd \in Cmds
    BY DEF Named
  <2>2. Named' BY <2>1, NamedDev DEF Named
  <2>3. Rest' BY DEF Rest
  <2> QED BY <1>1, <2>2, <2>3
<1>9. CASE ReadBuffer(d)
  <2> USE <1>9, ReadBufferFacts
  <2>1. PICK isOK \in BOOLEAN : Polled(port[d].from, isOK) OBVIOUS
  <2>2. /\ host' \in [Disks -> HostStates]
        /\ \A e \in Disks : host'[e].pc = "send" => host'[e].cmd \in Cmds /\ host'[e].i \in Slots
        /\ result' \in [Ids -> {"none", "ok", "failed"}]
    BY <2>1, PolledFacts, NamedHost
  <2>3. Named' BY <2>2, AnsweredNamed, NamedDev DEF Named
  <2>4. Rest' BY <2>2 DEF Rest
  <2> QED BY <1>1, <2>2, <2>3, <2>4, AnsweredNamed
<1>10. ASSUME NEW pc, OnlyPc(d, pc),
             UNCHANGED <<host, port, sentCmds, result, executed, desync>>
      PROVE  Types'
  BY <1>1, <1>10, OnlyPcNamed DEF Named, Rest
<1>11. CASE Backup(d)
  <2> USE <1>11, BackupFacts
  <2>1. \A s \in Slots : dev'[d].CMD_BUFFER[s].k > 0 => dev'[d].CMD_BUFFER[s].cmd \in Cmds
    BY DEF Named
  <2>2. Named' BY <2>1, NamedDev DEF Named
  <2>3. executed' \subseteq Ids
    <3>1. 1 \in Slots BY BoundsNat DEF Slots
    <3>2. Whole(dev[d].CMD_BUFFER) => dev[d].CMD_BUFFER[1].cmd \in Cmds
      BY <3>1 DEF Whole, Named
    <3>3. Whole(dev[d].CMD_BUFFER) => dev[d].CMD_BUFFER[1].cmd.id \in Ids
      BY <3>2, CmdFields
    <3> QED BY <3>3 DEF Backup, Rest
  <2>4. Rest' BY <2>3 DEF Rest
  <2> QED BY <1>1, <2>2, <2>4
<1>12. CASE Timeout(d)
  <2> USE <1>12, TimeoutFacts
  <2>1. /\ host' \in [Disks -> HostStates]
        /\ \A e \in Disks : host'[e].pc = "send" => host'[e].cmd \in Cmds /\ host'[e].i \in Slots
        /\ result' \in [Ids -> {"none", "ok", "failed"}]
    <3>1. PICK f \in Disks : \/ host' = PacketSent(f) /\ UNCHANGED result
                             \/ Polled(f, FALSE)
      OBVIOUS
    <3>2. CASE host' = PacketSent(f) /\ UNCHANGED result
      <4>1. /\ host' \in [Disks -> HostStates] /\ \A e \in Disks \ {f} : host'[e] = host[e]
            /\ host'[f].pc = "send" => host'[f].cmd \in Cmds /\ host'[f].i \in Slots
        BY <3>2, PacketSentFacts
      <4> QED BY <3>2, <4>1, NamedHost DEF Rest
    <3>3. CASE Polled(f, FALSE)
      <4>1. /\ host' \in [Disks -> HostStates] /\ \A e \in Disks \ {f} : host'[e] = host[e]
            /\ host'[f].pc = "poll" /\ result' \in [Ids -> {"none", "ok", "failed"}]
        BY <3>3, PolledFacts
      <4> QED BY <4>1, NamedHost
    <3> QED BY <3>1, <3>2, <3>3
  <2>2. Named' BY <2>1, AnsweredNamed DEF Named
  <2>3. Rest' BY <2>1 DEF Rest
  <2> QED BY <1>1, <2>1, <2>2, <2>3, AnsweredNamed
<1>13. CASE MainReturns(d) \/ BackupFails(d) \/ InvalidCommand(d)
  BY <1>10, <1>13, ReturnFacts DEF MainReturns, BackupFails, InvalidCommand
<1> QED
  BY <1>2, <1>3, <1>4, <1>5, <1>6, <1>7, <1>8, <1>9, <1>11, <1>12, <1>13
  DEF routine, device
-----------------------------------------------------------------------------
(* One disk *)

\* The types of the one disk's variables.
LEMMA DiskTypes ==
  ASSUME Types
  PROVE  /\ D \in Disks /\ 1 \in Slots /\ Slots \subseteq Nat
         /\ host[D].pc \in {"idle", "send", "sending", "poll", "polling"}
         /\ host[D].i \in Nat /\ host[D].cmd \in Cmds \cup {NoCmd}
         /\ dev[D].pc \in {"loop", "count", "process", "return"}
         /\ dev[D].offset \in Nat /\ dev[D].num_packet \in Int
         /\ port[D].code \in {"none", "WRITE_BUFFER", "READ_BUFFER"}
         /\ sentCmds \in 0 .. MaxCmds /\ Ids \subseteq Nat /\ 0 \notin Ids
<1>1. D \in Disks BY DeviceIsDisk DEF D
<1>2. 1 \in Slots /\ Slots \subseteq Nat /\ Ids \subseteq Nat /\ 0 \notin Ids
  BY BoundsNat DEF Slots, Ids
<1>3. /\ host[D].pc \in {"idle", "send", "sending", "poll", "polling"}
      /\ host[D].i \in Nat /\ host[D].cmd \in Cmds \cup {NoCmd}
  BY <1>1, TypesFacts, BoundsNat DEF HostStates
<1>4. /\ dev[D].pc \in {"loop", "count", "process", "return"}
      /\ dev[D].offset \in Nat /\ dev[D].num_packet \in Int
      /\ port[D].code \in {"none", "WRITE_BUFFER", "READ_BUFFER"}
  BY <1>1, TypesFacts DEF DevStates, PortStates
<1> QED BY <1>1, <1>2, <1>3, <1>4, TypesFacts DEF Rest

\* A command begins when the firmware expects a first packet or still works on one
\* that the host has given up.
LEMMA CreateCmdStep ==
  ASSUME OneDisk, IInv, NEW op \in Ops, NEW n \in Slots, CreateCmd(D, op, n)
  PROVE  UnderWay' /\ Outstanding' /\ (D \notin desync' => InStep')
<1> USE DiskTypes, CmdFields DEF IInv
<1>1. /\ host[D].pc = "idle" /\ sentCmds < MaxCmds /\ sentCmds' = sentCmds + 1
      /\ host'[D].pc = "send" /\ host'[D].i = 1 /\ host'[D].cmd \in Cmds
      /\ host'[D].cmd.id = sentCmds + 1 /\ host'[D].cmd.n = n
      /\ UNCHANGED <<port, dev, result, executed, desync>>
  BY CreateCmdFacts
<1>2. UnderWay'
  <2>1. 1 \in 1 .. n BY BoundsNat DEF Slots
  <2>2. /\ host'[D].cmd.id \in Ids /\ result'[host'[D].cmd.id] = "none"
        /\ \A c \in Ids : c > sentCmds' => result'[c] = "none"
    BY <1>1 DEF UnderWay
  <2> QED BY <1>1, <2>1, <2>2 DEF UnderWay
<1>3. Outstanding'
  BY <1>1 DEF Outstanding, Carries
<1>4. D \notin desync' => BetweenPackets'
  BY <1>1 DEF InStep, BetweenPackets, Outstanding, Sending, Waiting, Expects, Holds
<1>5. D \notin desync' => Counting'
  BY <1>1 DEF InStep, Counting, Sending, Waiting, AllSent, Expects
<1>6. D \notin desync' => Processing'
  BY <1>1 DEF InStep, Processing, Sending, Waiting, AllSent
<1>7. D \notin desync' => Done'
  BY <1>1 DEF InStep, Done, TruthfulResult
<1> QED BY <1>2, <1>3, <1>4, <1>5, <1>6, <1>7 DEF InStep

\* Sending moves no counter.
LEMMA SendPacketStep ==
  ASSUME OneDisk, IInv, SendPacket(D)
  PROVE  UnderWay' /\ Outstanding' /\ (D \notin desync' => InStep')
<1> USE DiskTypes, CmdFields, SendPacketFacts DEF IInv
<1>1. UnderWay'
  BY DEF UnderWay, Outstanding, Sending
<1>2. Outstanding'
  BY DEF Outstanding, Carries
<1>3. D \notin desync' => BetweenPackets'
  BY DEF InStep, BetweenPackets, Outstanding, Sending, Waiting, Expects
<1>4. D \notin desync' => Counting'
  BY DEF InStep, Counting, Sending, Waiting, AllSent, Expects
<1>5. D \notin desync' => Processing'
  BY DEF InStep, Processing, Sending, Waiting, AllSent
<1>6. D \notin desync' => Done'
  BY DEF InStep, Done, TruthfulResult
<1> QED BY <1>1, <1>2, <1>3, <1>4, <1>5, <1>6 DEF InStep

\* Polling moves no counter.
LEMMA PollStep ==
  ASSUME OneDisk, IInv, Poll(D)
  PROVE  UnderWay' /\ Outstanding' /\ (D \notin desync' => InStep')
<1> USE DiskTypes, CmdFields, PollFacts DEF IInv
<1>1. UnderWay'
  BY DEF UnderWay, Outstanding, Sending
<1>2. Outstanding'
  BY DEF Outstanding, Carries
<1>3. D \notin desync' => BetweenPackets'
  BY DEF InStep, BetweenPackets, Outstanding, Sending, Waiting, Expects
<1>4. D \notin desync' => Counting'
  BY DEF InStep, Counting, Sending, Waiting, AllSent, Expects
<1>5. D \notin desync' => Processing'
  BY DEF InStep, Processing, Sending, Waiting, AllSent
<1>6. D \notin desync' => Done'
  BY DEF InStep, Done, TruthfulResult
<1> QED BY <1>1, <1>2, <1>3, <1>4, <1>5, <1>6 DEF InStep

\* A failed ioctl keeps the two in step before the first and after the last packet.
LEMMA IoctlFailsStep ==
  ASSUME OneDisk, IInv, IoctlFails(D)
  PROVE  UnderWay' /\ Outstanding' /\ (D \notin desync' => InStep')
<1> USE DiskTypes, CmdFields, IoctlFailsFacts DEF IInv
<1>1. UnderWay'
  BY DEF UnderWay, Outstanding, Sending
<1>2. Outstanding'
  BY DEF Outstanding, Carries
<1>3. D \notin desync' => BetweenPackets'
  BY DEF InStep, BetweenPackets, Outstanding, Sending, Waiting, Expects
<1>4. D \notin desync' => Counting'
  BY DEF InStep, Counting, Sending, Waiting, AllSent, Expects, Holds
<1>5. D \notin desync' => Processing'
  BY DEF InStep, Processing, Sending, Waiting, AllSent, Holds
<1>6. D \notin desync' => Done'
  BY DEF InStep, Done, TruthfulResult
<1> QED BY <1>1, <1>2, <1>3, <1>4, <1>5, <1>6 DEF InStep

\* The interrupt handler keeps the invariant, whatever Main is doing.
LEMMA handle_got_cfisStep ==
  ASSUME OneDisk, IInv, handle_got_cfis(D)
  PROVE  UnderWay' /\ Outstanding' /\ (D \notin desync' => InStep')
<1> USE DiskTypes, CmdFields, GotCfisFacts DEF IInv
<1>1. UnderWay'
  BY DEF UnderWay, Outstanding, Sending
<1>2. Outstanding'
  BY DEF Outstanding, Carries
<1>3. D \notin desync' => BetweenPackets'
  BY DEF InStep, BetweenPackets, Outstanding, Sending, Waiting, Expects
<1>4. D \notin desync' => Counting'
  BY DEF InStep, Counting, Sending, Waiting, AllSent, Expects
<1>5. D \notin desync' => Processing'
  BY DEF InStep, Processing, Sending, Waiting, AllSent
<1>6. D \notin desync' => Done'
  BY DEF InStep, Done, TruthfulResult
<1> QED BY <1>1, <1>2, <1>3, <1>4, <1>5, <1>6 DEF InStep

\* The packet received is the one the firmware expects at that offset.
LEMMA ReceivePacketStep ==
  ASSUME OneDisk, IInv, ReceivePacket(D)
  PROVE  UnderWay' /\ Outstanding' /\ (D \notin desync' => InStep')
<1> USE DiskTypes, CmdFields DEF IInv
<1>1. /\ dev[D].pc = "loop" /\ port[D].code = "WRITE_BUFFER" /\ port'[D] = NoFis
      /\ NoFis.code = "none" /\ host'[D].cmd = host[D].cmd
      /\ host[D].i < host[D].cmd.n => host'[D].pc = "send" /\ host'[D].i = host[D].i + 1
      /\ ~(host[D].i < host[D].cmd.n) => host'[D].pc = "poll" /\ host'[D].i = host[D].i
      /\ dev'[D].pc = "count" /\ dev'[D].offset = dev[D].offset
      /\ dev'[D].num_packet = dev[D].num_packet
      /\ dev'[D].CMD_BUFFER = dev[D].CMD_BUFFER
      /\ \A s \in Slots : dev'[D].HIL_BUF[s] = IF s = dev[D].offset + 1 THEN port[D].pkt
                                               ELSE dev[D].HIL_BUF[s]
      /\ UNCHANGED <<sentCmds, result, executed, desync>>
  BY ReceivePacketFacts, PacketSentFacts, FisFields, ClearedFields DEF Answered
<1>2. UnderWay'
  BY <1>1 DEF UnderWay, Outstanding, Sending
<1>3. Outstanding'
  BY <1>1 DEF Outstanding, Carries
<1>4. D \notin desync' => BetweenPackets'
  BY <1>1 DEF InStep, BetweenPackets, Outstanding, Sending, Waiting, Expects
<1>5. D \notin desync' => Counting'
  <2> SUFFICES ASSUME D \notin desync PROVE Counting' BY <1>1
  <2> DEFINE c == host[D].cmd
             r == dev[D].offset
  <2>1. /\ host[D].pc = "sending" /\ Carries(port[D].pkt, c, host[D].i)
        /\ host[D].i \in 1 .. c.n /\ c \in Cmds /\ c.n \in Slots /\ c.n <= MaxPackets
        /\ result[c.id] = "none"
    BY <1>1, BoundsNat DEF Outstanding, UnderWay, Sending, Slots
  <2>2. r = host[D].i - 1 /\ Holds(dev[D].HIL_BUF, c, r) /\ Expects(c, r)
    BY <1>1, <2>1 DEF InStep, BetweenPackets, Sending
  <2>3. Holds(dev'[D].HIL_BUF, c, r + 1)
    <3>1. \A s \in 1 .. r + 1 : s \in Slots BY <2>1, <2>2, BoundsNat DEF Slots
    <3> QED BY <1>1, <2>1, <2>2, <3>1 DEF Holds
  <2>4. dev'[D].HIL_BUF[1].cmd = c BY <2>2, <2>3 DEF Holds, Carries
  <2>5. dev'[D].num_packet = IF r = 0 THEN 0 ELSE c.n - r BY <1>1, <2>2 DEF Expects
  <2>6. result'[c.id] # "ok" BY <1>1, <2>1
  <2>7. r + 1 < c.n => Sending' /\ host'[D].cmd = c /\ host'[D].i = r + 2
    BY <1>1, <2>2 DEF Sending
  <2>8. r + 1 = c.n => Waiting' /\ host'[D].cmd = c
    BY <1>1, <2>2 DEF Waiting
  <2>9. dev'[D].pc = "count" /\ dev'[D].offset = r BY <1>1
  <2> HIDE DEF c, r
  <2> QED BY <2>3, <2>4, <2>5, <2>6, <2>7, <2>8, <2>9 DEF Counting, Expects, AllSent
<1>6. D \notin desync' => Processing'
  BY <1>1 DEF InStep, Processing, Sending, Waiting, AllSent
<1>7. D \notin desync' => Done'
  BY <1>1 DEF InStep, Done, TruthfulResult
<1> QED BY <1>2, <1>3, <1>4, <1>5, <1>6, <1>7 DEF InStep

\* The count reaches 0 at the last packet of the command and never before.
LEMMA CountPacketStep ==
  ASSUME OneDisk, IInv, CountPacket(D)
  PROVE  UnderWay' /\ Outstanding' /\ (D \notin desync' => InStep')
<1> USE DiskTypes, CmdFields DEF IInv
<1>1. /\ dev[D].pc = "count" /\ dev'[D].HIL_BUF = dev[D].HIL_BUF
      /\ \E m \in NumPacket(dev[D].HIL_BUF[1]) :
           LET left == IF dev[D].num_packet = 0 THEN m - 1 ELSE dev[D].num_packet - 1
           IN \/ /\ left = 0 /\ dev'[D].pc = "process" /\ dev'[D].num_packet = 0
                 /\ dev'[D].offset = 0 /\ dev'[D].CMD_BUFFER = dev[D].HIL_BUF
              \/ /\ left # 0 /\ dev'[D].pc = "return" /\ dev'[D].num_packet = left
                 /\ dev'[D].offset = dev[D].offset + 1
                 /\ dev'[D].CMD_BUFFER = dev[D].CMD_BUFFER
      /\ UNCHANGED <<host, port, sentCmds, result, executed, desync>>
  BY CountPacketFacts
<1> DEFINE c == dev[D].HIL_BUF[1].cmd
           r == dev[D].offset + 1
<1>2. ASSUME D \notin desync
      PROVE  /\ c \in Cmds /\ Holds(dev[D].HIL_BUF, c, r) /\ result[c.id] # "ok"
             /\ r \in Nat \ {0} /\ c.n \in Nat
             /\ \/ /\ r = c.n /\ AllSent(c)
                   /\ dev'[D].pc = "process" /\ dev'[D].num_packet = 0 /\ dev'[D].offset = 0
                   /\ dev'[D].CMD_BUFFER = dev[D].HIL_BUF
                \/ /\ r < c.n /\ Sending /\ host[D].cmd = c /\ host[D].i = r + 1
                   /\ dev'[D].pc = "return" /\ dev'[D].num_packet = c.n - r
                   /\ dev'[D].offset = r /\ dev'[D].CMD_BUFFER = dev[D].CMD_BUFFER
  <2>1. /\ Holds(dev[D].HIL_BUF, c, r) /\ Expects(c, dev[D].offset) /\ result[c.id] # "ok"
        /\ r < c.n => Sending /\ host[D].cmd = c /\ host[D].i = r + 1
        /\ r = c.n => AllSent(c)
    BY <1>1, <1>2 DEF InStep, Counting
  <2>2. /\ c \in Cmds /\ r <= c.n /\ c.n \in Nat /\ r \in Nat \ {0}
        /\ dev[D].HIL_BUF[1].k = 1
    BY <2>1 DEF Holds, Carries
  <2>3. NumPacket(dev[D].HIL_BUF[1]) = {c.n}
    BY <2>2 DEF NumPacket, FirstWords
  <2>4. dev[D].num_packet = IF r = 1 THEN 0 ELSE c.n - (r - 1)
    BY <2>1 DEF Expects
  <2> HIDE DEF c
  <2>5. (IF dev[D].num_packet = 0 THEN c.n - 1 ELSE dev[D].num_packet - 1) = c.n - r
    BY <2>2, <2>4
  <2>6. \/ /\ c.n - r = 0 /\ dev'[D].pc = "process" /\ dev'[D].num_packet = 0
           /\ dev'[D].offset = 0 /\ dev'[D].CMD_BUFFER = dev[D].HIL_BUF
        \/ /\ c.n - r # 0 /\ dev'[D].pc = "return" /\ dev'[D].num_packet = c.n - r
           /\ dev'[D].offset = r /\ dev'[D].CMD_BUFFER = dev[D].CMD_BUFFER
    BY <1>1, <2>3, <2>5
  <2> HIDE DEF r
  <2> QED BY <2>1, <2>2, <2>6
<1> HIDE DEF c, r
<1>3. UnderWay'
  BY <1>1 DEF UnderWay, Outstanding, Sending
<1>4. Outstanding'
  BY <1>1 DEF Outstanding, Carries
<1>5. D \notin desync' => BetweenPackets'
  BY <1>1, <1>2 DEF BetweenPackets, Sending, Waiting, Expects
<1>6. D \notin desync' => Counting'
  BY <1>1 DEF InStep, Counting, Sending, Waiting, AllSent, Expects
<1>7. D \notin desync' => Processing'
  BY <1>1, <1>2 DEF Processing, AllSent, Waiting, Sending, c
<1>8. D \notin desync' => Done'
  BY <1>1, <1>2 DEF Done, InStep, TruthfulResult, Holds, Carries
<1> QED BY <1>3, <1>4, <1>5, <1>6, <1>7, <1>8 DEF InStep

\* isOK is the one of the command that the host waits for.
LEMMA ReadBufferStep ==
  ASSUME OneDisk, IInv, ReadBuffer(D)
  PROVE  UnderWay' /\ Outstanding' /\ (D \notin desync' => InStep')
<1> USE DiskTypes, CmdFields DEF IInv
<1>1. /\ dev[D].pc = "loop" /\ port[D].code = "READ_BUFFER"
      /\ port'[D] = NoFis /\ NoFis.code = "none"
      /\ dev'[D].pc = "return"
      /\ dev'[D].num_packet = dev[D].num_packet /\ dev'[D].offset = dev[D].offset
      /\ dev'[D].CMD_BUFFER = dev[D].CMD_BUFFER
      /\ host'[D].cmd = host[D].cmd /\ host'[D].i = host[D].i
      /\ \E isOK \in IsOK(dev[D].CMD_BUFFER[1]) :
           /\ host'[D].pc = IF isOK THEN "idle" ELSE "poll"
           /\ \A e \in Ids :
                result'[e] = IF isOK /\ e = host[D].cmd.id THEN "ok" ELSE result[e]
      /\ UNCHANGED <<sentCmds, executed, desync>>
  <2>1. port[D].from = D BY ReadBufferFacts DEF OneDisk, D
  <2>2. PICK isOK \in BOOLEAN : isOK \in IsOK(dev[D].CMD_BUFFER[1]) /\ Polled(D, isOK)
    BY <2>1, ReadBufferFacts
  <2>3. /\ host'[D].cmd = host[D].cmd /\ host'[D].i = host[D].i
        /\ host'[D].pc = IF isOK THEN "idle" ELSE "poll"
        /\ \A e \in Ids : result'[e] = IF isOK /\ e = host[D].cmd.id THEN "ok" ELSE result[e]
    BY <2>2, PolledFacts
  <2> QED BY <2>2, <2>3, ReadBufferFacts, FisFields, ClearedFields DEF Answered
<1>2. UnderWay'
  BY <1>1 DEF UnderWay, Outstanding, Sending
<1>3. Outstanding'
  BY <1>1 DEF Outstanding, Carries
<1>4. D \notin desync' => BetweenPackets'
  BY <1>1 DEF InStep, BetweenPackets, Outstanding, Sending, Waiting, Expects
<1>5. D \notin desync' => Counting'
  BY <1>1 DEF InStep, Counting, Sending, Waiting, AllSent, Expects
<1>6. D \notin desync' => Processing'
  BY <1>1 DEF InStep, Processing, Sending, Waiting, AllSent
<1>7. D \notin desync' => Done'
  <2> SUFFICES ASSUME D \notin desync PROVE Done' BY <1>1
  <2>1. /\ dev[D].CMD_BUFFER[1].k = 1 /\ dev[D].CMD_BUFFER[1].cmd = host[D].cmd
        /\ dev[D].CMD_BUFFER[1].isOK => host[D].cmd.id \in executed /\ TruthfulResult
        /\ TruthfulResult
    BY <1>1 DEF Outstanding, InStep, BetweenPackets, Waiting, Done
  <2>2. \A isOK \in IsOK(dev[D].CMD_BUFFER[1]) : isOK => dev[D].CMD_BUFFER[1].isOK
    BY <2>1 DEF IsOK, FirstWords
  <2> QED BY <1>1, <2>1, <2>2 DEF Done, TruthfulResult, InStep
<1> QED BY <1>2, <1>3, <1>4, <1>5, <1>6, <1>7 DEF InStep

\* Leaving a slow command, done or not, keeps the invariant.
LEMMA ReturnStep ==
  ASSUME OneDisk, IInv, NEW pc \in {"loop", "return"}, dev[D].pc \in {"process", "return"},
         OnlyPc(D, pc), UNCHANGED <<host, port, sentCmds, result, executed, desync>>
  PROVE  UnderWay' /\ Outstanding' /\ (D \notin desync' => InStep')
<1> USE DiskTypes, CmdFields DEF IInv, OnlyPc
<1>1. UnderWay'
  BY DEF UnderWay, Sending
<1>2. Outstanding'
  BY DEF Outstanding, Carries
<1>3. D \notin desync' => BetweenPackets'
  <2>1. Sending => host[D].cmd \in Cmds BY DEF Sending, UnderWay
  <2>2. CASE dev[D].pc = "return"
    BY <2>2 DEF InStep, BetweenPackets, Sending, Waiting, Expects
  <2>3. CASE dev[D].pc = "process"
    <3>1. D \notin desync =>
            LET c == dev[D].CMD_BUFFER[1].cmd
            IN /\ c \in Cmds /\ dev[D].CMD_BUFFER[1].k = 1
               /\ dev[D].offset = 0 /\ dev[D].num_packet = 0 /\ AllSent(c)
      BY <2>3, BoundsNat DEF InStep, Processing, Holds, Carries, Slots
    <3> QED BY <2>1, <3>1 DEF BetweenPackets, Sending, Waiting, AllSent, Holds, Expects
  <2> QED BY <2>2, <2>3
<1>4. D \notin desync' => Counting' /\ Processing'
  BY DEF Counting, Processing
<1>5. D \notin desync' => Done'
  BY DEF InStep, Done, TruthfulResult
<1> QED BY <1>1, <1>2, <1>3, <1>4, <1>5 DEF InStep

\* isOK is set for a command that was whole, so it is in executed.
LEMMA BackupStep ==
  ASSUME OneDisk, IInv, Backup(D)
  PROVE  UnderWay' /\ Outstanding' /\ (D \notin desync' => InStep')
<1> USE DiskTypes, CmdFields DEF IInv
<1>1. /\ dev[D].pc = "process" /\ dev'[D].pc = "return"
      /\ dev'[D].num_packet = dev[D].num_packet /\ dev'[D].offset = dev[D].offset
      /\ dev'[D].CMD_BUFFER[1].k = dev[D].CMD_BUFFER[1].k
      /\ dev'[D].CMD_BUFFER[1].cmd = dev[D].CMD_BUFFER[1].cmd
      /\ UNCHANGED <<host, port, sentCmds, result, desync>>
  BY BackupFacts
<1>2. UnderWay'
  BY <1>1 DEF UnderWay, Outstanding, Sending
<1>3. Outstanding'
  BY <1>1 DEF Outstanding, Carries
<1>4. D \notin desync' => BetweenPackets'
  <2>1. Sending => host[D].cmd \in Cmds BY DEF Sending, UnderWay
  <2>2. D \notin desync =>
          LET c == dev[D].CMD_BUFFER[1].cmd
          IN /\ c \in Cmds /\ dev[D].CMD_BUFFER[1].k = 1
             /\ dev[D].offset = 0 /\ dev[D].num_packet = 0 /\ AllSent(c)
    BY <1>1, BoundsNat DEF InStep, Processing, Holds, Carries, Slots
  <2> QED BY <1>1, <2>1, <2>2 DEF BetweenPackets, Sending, Waiting, AllSent, Holds, Expects
<1>5. D \notin desync' => Counting'
  BY <1>1 DEF InStep, Counting, Sending, Waiting, AllSent, Expects
<1>6. D \notin desync' => Processing'
  BY <1>1 DEF InStep, Processing, Sending, Waiting, AllSent
<1>7. D \notin desync' => Done'
  <2>1. D \notin desync => Whole(dev[D].CMD_BUFFER)
    BY <1>1, BoundsNat DEF InStep, Processing, Holds, Carries, Whole, Slots
  <2>2. D \notin desync => executed' = executed \cup {dev[D].CMD_BUFFER[1].cmd.id}
    BY <2>1 DEF Backup
  <2> QED BY <1>1, <2>2 DEF InStep, Done, TruthfulResult
<1> QED BY <1>2, <1>3, <1>4, <1>5, <1>6, <1>7 DEF InStep

\* A lost packet sets desync; a lost poll changes nothing that matters.
LEMMA TimeoutStep ==
  ASSUME OneDisk, IInv, Timeout(D)
  PROVE  UnderWay' /\ Outstanding' /\ (D \notin desync' => InStep')
<1> USE DiskTypes, CmdFields DEF IInv
<1>1. /\ dev[D].pc = "loop"
      /\ port'[D] = NoFis /\ NoFis.code = "none" /\ host'[D].cmd = host[D].cmd
      /\ \/ /\ port[D].code = "WRITE_BUFFER" /\ D \in desync'
            /\ host[D].i < host[D].cmd.n => host'[D].pc = "send" /\ host'[D].i = host[D].i + 1
            /\ ~(host[D].i < host[D].cmd.n) => host'[D].pc = "poll" /\ host'[D].i = host[D].i
            /\ UNCHANGED result
         \/ /\ port[D].code = "READ_BUFFER" /\ host'[D].pc = "poll"
            /\ host'[D].i = host[D].i
            /\ UNCHANGED <<result, desync>>
      /\ UNCHANGED <<dev, sentCmds, executed>>
  <2>1. port[D].from = D BY TimeoutFacts DEF OneDisk, D
  <2>2. port[D].code # "none" BY TimeoutFacts, FisFields, ClearedFields DEF Outstanding
  <2>3. dev[D].pc = "loop" /\ port'[D] = NoFis /\ NoFis.code = "none" /\ UNCHANGED <<dev, sentCmds, executed>>
    BY TimeoutFacts, FisFields, ClearedFields DEF Answered
  <2>4. CASE port[D].code = "WRITE_BUFFER"
    BY <2>1, <2>3, <2>4, TimeoutFacts, PacketSentFacts
  <2>5. CASE port[D].code = "READ_BUFFER"
    <3>1. Polled(D, FALSE) /\ UNCHANGED desync BY <2>1, <2>5, TimeoutFacts
    <3>2. UNCHANGED result BY <3>1 DEF Polled
    <3> QED BY <2>3, <2>5, <3>1, <3>2, PolledFacts
  <2> QED BY <2>2, <2>4, <2>5
<1>2. UnderWay'
  BY <1>1 DEF UnderWay, Outstanding, Sending
<1>3. Outstanding'
  BY <1>1 DEF Outstanding, Carries
<1>4. D \notin desync' => BetweenPackets'
  BY <1>1 DEF InStep, BetweenPackets, Outstanding, Sending, Waiting, Expects
<1>5. D \notin desync' => Counting'
  BY <1>1 DEF InStep, Counting, Sending, Waiting, AllSent, Expects
<1>6. D \notin desync' => Processing'
  BY <1>1 DEF InStep, Processing, Sending, Waiting, AllSent
<1>7. D \notin desync' => Done'
  BY <1>1 DEF InStep, Done, TruthfulResult
<1> QED BY <1>2, <1>3, <1>4, <1>5, <1>6, <1>7 DEF InStep

-----------------------------------------------------------------------------
(* Theorems *)

\* Types holds initially, ...
LEMMA InitTypes == Init => Types
<1> SUFFICES ASSUME Init PROVE Types OBVIOUS
<1> USE BoundsNat, ClearedFields, FisFields, DeviceIsDisk
<1>1. host \in [Disks -> HostStates] /\ port \in [Disks -> PortStates] /\ Rest
  BY DEF Init, HostStates, Rest
<1>2. dev \in [Disks -> DevStates]
  BY DEF Init, DevStates, Bufs
<1>3. Named BY DEF Init, Named
<1> QED BY <1>1, <1>2, <1>3, TypeParts DEF Types

\* ... and every step keeps it.
LEMMA NextTypes == Types /\ [Next]_vars => Types'
<1> SUFFICES ASSUME Types, [Next]_vars PROVE Types' OBVIOUS
<1>1. CASE Next BY <1>1, TypesStep DEF Next
<1>2. CASE UNCHANGED vars BY <1>2 DEF vars, Types, TypeOK, Named
<1> QED BY <1>1, <1>2

(* Every buffer slot holds a packet of a command that a client has asked   *)
(* for, and every counter stays in its range, for any number of disks.     *)
THEOREM TypeCorrect == Spec => []TypeOK
<1>1. Types => TypeOK BY DEF Types
<1> QED BY <1>1, InitTypes, NextTypes, PTL DEF Spec

\* The inductive invariant holds initially, ...
LEMMA InitIInv == ASSUME OneDisk PROVE Init => IInv
<1> SUFFICES ASSUME Init PROVE IInv OBVIOUS
<1>1. Types BY InitTypes
<1> USE DiskTypes, <1>1
<1>2. /\ host[D].pc = "idle" /\ host[D].cmd.id = 0 /\ port[D] = NoFis
      /\ dev[D].pc = "loop" /\ dev[D].num_packet = 0 /\ dev[D].offset = 0
      /\ ~dev[D].CMD_BUFFER[1].isOK
      /\ sentCmds = 0 /\ \A c \in Ids : result[c] = "none"
  BY ClearedFields, CmdFields DEF Init
<1>3. UnderWay BY <1>2 DEF UnderWay, Sending
<1>4. Outstanding BY <1>2, FisFields, ClearedFields DEF Outstanding
<1>5. InStep
  BY <1>2 DEF InStep, BetweenPackets, Counting, Processing, Done, TruthfulResult, Sending, Waiting
<1> QED BY <1>1, <1>3, <1>4, <1>5 DEF IInv

\* ... and every step keeps it.
LEMMA NextIInv == ASSUME OneDisk PROVE IInv /\ [Next]_vars => IInv'
<1> SUFFICES ASSUME IInv, [Next]_vars PROVE IInv' OBVIOUS
<1> USE DEF IInv
<1>1. Types' BY NextTypes
<1>2. CASE UNCHANGED vars
  BY <1>1, <1>2
  DEF vars, UnderWay, Outstanding, InStep, BetweenPackets, Counting, Processing, Done,
      TruthfulResult, Sending, Waiting, AllSent, Holds, Carries, Expects
<1>3. ASSUME NEW pc \in {"loop", "return"}, dev[D].pc \in {"process", "return"},
             OnlyPc(D, pc), UNCHANGED <<host, port, sentCmds, result, executed, desync>>
      PROVE  UnderWay' /\ Outstanding' /\ (D \notin desync' => InStep')
  BY <1>3, ReturnStep
<1>4. CASE Next
  <2>1. PICK d \in Disks :
          \/ \E op \in Ops, n \in Slots : CreateCmd(d, op, n)
          \/ routine(d) \/ IoctlFails(d) \/ handle_got_cfis(d) \/ device(d) \/ Timeout(d)
    BY <1>4 DEF Next
  <2>2. d = D BY DEF OneDisk, D
  <2>3. UnderWay' /\ Outstanding' /\ (D \notin desync' => InStep')
    <3>1. CASE \E op \in Ops, n \in Slots : CreateCmd(D, op, n)
      BY <3>1, CreateCmdStep
    <3>2. CASE routine(D)
      BY <3>2, SendPacketStep, PollStep DEF routine
    <3>3. CASE IoctlFails(D) \/ handle_got_cfis(D) \/ Timeout(D)
      BY <3>3, IoctlFailsStep, handle_got_cfisStep, TimeoutStep
    <3>4. CASE ReceivePacket(D) \/ CountPacket(D) \/ ReadBuffer(D) \/ Backup(D)
      BY <3>4, ReceivePacketStep, CountPacketStep, ReadBufferStep, BackupStep
    <3>5. CASE MainReturns(D) \/ BackupFails(D) \/ InvalidCommand(D)
      BY <1>3, <3>5, ReturnFacts, DiskTypes DEF MainReturns, BackupFails, InvalidCommand
    <3> QED BY <2>1, <2>2, <3>1, <3>2, <3>3, <3>4, <3>5 DEF device
  <2> QED BY <1>1, <2>3
<1> QED BY <1>2, <1>4

(* With one disk the firmware and the host stay in step as long as no      *)
(* WRITE_BUFFER fails or is dropped: before each packet the firmware has   *)
(* counted exactly those that were sent, and from the last one on it has   *)
(* the command that the host waits for.                                    *)
THEOREM Invariance == ASSUME OneDisk PROVE Spec => []IInv
BY InitIInv, NextIInv, PTL DEF Spec

(* With one disk the host learns of success only what is true, however     *)
(* many READ_BUFFERs are dropped, time out and are repeated, as long as    *)
(* every WRITE_BUFFER is received.                                         *)
THEOREM Truthful == ASSUME OneDisk PROVE Spec => []TruthfulUnlessLost
<1>1. IInv => TruthfulUnlessLost BY DEF IInv, InStep, Done, TruthfulUnlessLost
<1> QED BY <1>1, Invariance, PTL

(* With one disk issd_process_cmd is entered only with a command that has  *)
(* arrived complete and that the host has not yet taken for finished, as   *)
(* long as every WRITE_BUFFER is received.                                 *)
THEOREM WorksOnWhole == ASSUME OneDisk PROVE Spec => []WholeCommand
<1>1. IInv => WholeCommand
  <2> SUFFICES ASSUME IInv, NEW d \in Disks, dev[d].pc = "process", d \notin desync
               PROVE  Whole(dev[d].CMD_BUFFER) /\ result[dev[d].CMD_BUFFER[1].cmd.id] # "ok"
    BY DEF WholeCommand
  <2>1. d = D BY DEF OneDisk, D
  <2>2. Processing BY <2>1 DEF IInv, InStep
  <2> QED BY <2>1, <2>2, CmdFields, BoundsNat DEF Processing, Holds, Carries, Whole, Slots
<1> QED BY <1>1, Invariance, PTL
=============================================================================
