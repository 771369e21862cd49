---------------------------- MODULE ReplayCommand ----------------------------
(***************************************************************************)
(* The replay command over UDP, from the arguments to the demo server:     *)
(* each client is a process that runs main, Commands::CmdReplay and        *)
(* ReplayEngine over a UdpReplayer; the server is udp_demo_server.  Sends  *)
(* over TCP have any outcome here; ReplaySession is about them.  When a    *)
(* packet is sent is the concern of ReplayEngine.                          *)
(*                                                                         *)
(* Between the processes are the network, which loses, delays, overtakes   *)
(* and duplicates datagrams, and the receive queue of the server's socket, *)
(* which drops them when it is full.  A byte of a payload is named by its  *)
(* client, packet and place, so that the server can be seen to mix them.   *)
(***************************************************************************)
EXTENDS CommandLine, Integers, FiniteSets

CONSTANTS
  Clients,      \* replaying processes
  Argvs,        \* command lines they may be given, one for each
  Speeds,       \* the texts std::stod takes for a number
  Targets,      \* Targets[text], for texts with a colon: host, and port as std::stoi
                \* reads it, or NotANumber
  Addresses,    \* Addresses[host], for hosts inet_pton takes for an address
  Files,        \* Files[path], for captures that open: their packets
  PortSpace,    \* number of ports
  Local,        \* the server's address
  ServerPort,
  BufSize,      \* sizeof(buf) of the server
  ReportMin,    \* least number of bytes it takes for a message
  ReportEnd,    \* bytes of the fields it prints
  QueueCap,     \* datagrams its socket holds
  MaxDuplicates,  \* bound: datagrams delivered twice
  NotANumber

Packet ==
  {p \in [has_buffer : BOOLEAN, size : Nat, magic : BOOLEAN] : p.has_buffer <=> p.size > 0}

ASSUME ReplayCommandAssumption ==
  /\ {PortSpace, BufSize, ReportMin, ReportEnd, QueueCap} \subseteq Nat \ {0}
  /\ ReportMin <= ReportEnd /\ ReportEnd <= BufSize
  /\ MaxDuplicates \in Nat
  /\ ServerPort \in 0 .. PortSpace - 1
  /\ \A text \in DOMAIN Targets : Targets[text].port \in Int \cup {NotANumber}
  /\ Argvs \subseteq [Clients -> Seq(Argument)]
  /\ \A path \in DOMAIN Files : Files[path] \in Seq(Packet)

VARIABLES
  argv,         \* of each client
  options,      \* what Parse makes of it, when it makes anything
  pc,           \* "main", "running", "exited" or "aborted"
  exit_code,
  position,     \* packets given to Send
  sent_count,
  in_flight,    \* datagrams in the network
  duplicated,   \* history: those it has delivered and kept
  queue,        \* the receive queue of the server's socket
  server,       \* "up" or "down"
  buf,          \* the server's buffer
  reports,      \* history: what it has printed
  lost          \* history: datagrams dropped on the way

clientVars == <<argv, options, pc, exit_code, position, sent_count>>
networkVars == <<in_flight, duplicated, lost>>
serverVars == <<queue, server, buf, reports>>
vars == <<clientVars, networkVars, serverVars>>

Unset == <<>>

Init ==
  /\ argv \in Argvs
  /\ options = [c \in Clients |-> IF Parses(argv[c]) THEN Options(argv[c]) ELSE NoOptions]
  /\ pc = [c \in Clients |-> "main"]
  /\ exit_code = [c \in Clients |-> 0]
  /\ position = [c \in Clients |-> 0]
  /\ sent_count = [c \in Clients |-> 0]
  /\ in_flight = {}
  /\ duplicated = {}
  /\ queue = <<>>
  /\ server = "up"
  /\ buf = [k \in 1 .. BufSize |-> Unset]
  /\ reports = <<>>
  /\ lost = {}

-----------------------------------------------------------------------------
(* The command line of c, and its options.                                 *)
Option(c, key, default) == GetOr(options[c], key, default)

Pcap(c) == Option(c, "pcap", "")
Target(c) == Option(c, "target", "")
OverTcp(c) == Option(c, "transport", "tcp") = "tcp"

IsHelp(argument) ==
  argument \in {[dashed |-> FALSE, text |-> "help"], [dashed |-> TRUE, text |-> "help"],
                [dashed |-> FALSE, text |-> "-h"]}

IsReplay(argument) == argument = [dashed |-> FALSE, text |-> "replay"]

IsDecode(argument) == argument = [dashed |-> FALSE, text |-> "decode"]

Exit(c, code) ==
  /\ pc' = [pc EXCEPT ![c] = "exited"]
  /\ exit_code' = [exit_code EXCEPT ![c] = code]
  /\ UNCHANGED <<argv, options, position, sent_count, networkVars, serverVars>>

(* main and Execute: no arguments, help, or a command there is none of;    *)
(* what decode does is in DecodeCommand.                                   *)
ExitMain(c) ==
  /\ pc[c] = "main"
  /\ \/ ~Parses(argv[c]) /\ Exit(c, 1)
     \/ /\ Parses(argv[c])
        /\ \/ IsHelp(Command(argv[c])) /\ Exit(c, 0)
           \/ /\ ~IsHelp(Command(argv[c]))
              /\ ~IsReplay(Command(argv[c])) /\ ~IsDecode(Command(argv[c]))
              /\ Exit(c, 1)

InReplay(c) == pc[c] = "main" /\ Parses(argv[c]) /\ IsReplay(Command(argv[c]))

(* stod looks at the speed before the other options are looked at.         *)
SpeedParses(c) == Option(c, "speed", "1.0") \in Speeds

Complete(c) == Pcap(c) # "" /\ Target(c) \in DOMAIN Targets

PortParses(c) == Targets[Target(c)].port # NotANumber

(* stod or stoi throws, and nobody catches.                                *)
AbortReplay(c) ==
  /\ InReplay(c)
  /\ ~SpeedParses(c) \/ (Complete(c) /\ ~PortParses(c))
  /\ pc' = [pc EXCEPT ![c] = "aborted"]
  /\ UNCHANGED <<argv, options, exit_code, position, sent_count, networkVars, serverVars>>

(* An option is missing, or the target has no colon.                       *)
RefuseReplay(c) ==
  /\ InReplay(c)
  /\ SpeedParses(c)
  /\ ~Complete(c)
  /\ Exit(c, 1)

(* The engine and its replayer are built, and Run opens the capture.  When *)
(* that fails Run returns, and the command exits as if all were well.      *)
StartReplay(c) ==
  /\ InReplay(c)
  /\ SpeedParses(c)
  /\ Complete(c)
  /\ PortParses(c)
  /\ IF Pcap(c) \in DOMAIN Files
       THEN /\ pc' = [pc EXCEPT ![c] = "running"]
            /\ UNCHANGED <<argv, options, exit_code, position, sent_count, networkVars, serverVars>>
       ELSE Exit(c, 0)

-----------------------------------------------------------------------------
Capture(c) == Files[Pcap(c)]

(* The loop of Run has c's next packet.                                    *)
NextPacket(c) == Capture(c)[position[c] + 1]

MorePackets(c) == pc[c] = "running" /\ position[c] < Len(Capture(c))

Datagram(c) == [from |-> c, index |-> position[c] + 1, size |-> NextPacket(c).size]

(* inet_pton leaves 0.0.0.0, the local host, when host is not an address;  *)
(* the port is cut to 16 bits.                                             *)
ReachesServer(c) ==
  LET target == Targets[Target(c)]
  IN  /\ target.host \in DOMAIN Addresses => Addresses[target.host] = Local
      /\ target.port % PortSpace = ServerPort

(* Mutant: bytes are counted, not packets.                                 *)
Attempted_CountsBytes(c, counted) ==
  /\ position' = [position EXCEPT ![c] = @ + 1]
  /\ sent_count' = [sent_count EXCEPT ![c] = @ + (IF counted THEN NextPacket(c).size ELSE 0)]
  /\ UNCHANGED <<argv, options, pc, exit_code>>

(* Send was called for the packet, and its result counted.                 *)
Attempted(c, counted) ==
  /\ position' = [position EXCEPT ![c] = @ + 1]
  /\ sent_count' = [sent_count EXCEPT ![c] = @ + (IF counted THEN 1 ELSE 0)]
  /\ UNCHANGED <<argv, options, pc, exit_code>>

(* Mutant: sendto has an error to report of a datagram it has sent.        *)
SendDatagram_LateError(c) ==
  /\ MorePackets(c)
  /\ NextPacket(c).has_buffer
  /\ ~OverTcp(c)
  /\ \E counted \in BOOLEAN : Attempted(c, counted)
  /\ in_flight' = in_flight \cup {d \in {Datagram(c)} : ReachesServer(c)}
  /\ UNCHANGED <<duplicated, lost, serverVars>>

(* Mutant: the socket is connected, and a send waits for the server.       *)
SendDatagram_NeedsServer(c) ==
  /\ server = "up"
  /\ MorePackets(c)
  /\ NextPacket(c).has_buffer
  /\ ~OverTcp(c)
  /\ Attempted(c, TRUE)
  /\ in_flight' = in_flight \cup {d \in {Datagram(c)} : ReachesServer(c)}
  /\ UNCHANGED <<duplicated, lost, serverVars>>

(* sendto takes the datagram whole, or returns an error; so it does always *)
(* when the socket could not be created.  Nobody learns where it went.     *)
SendDatagram(c) ==
  /\ MorePackets(c)
  /\ NextPacket(c).has_buffer
  /\ ~OverTcp(c)
  /\ \/ /\ Attempted(c, TRUE)
        /\ in_flight' = in_flight \cup {d \in {Datagram(c)} : ReachesServer(c)}
     \/ /\ Attempted(c, FALSE)
        /\ UNCHANGED in_flight
  /\ UNCHANGED <<duplicated, lost, serverVars>>

(* A send over TCP is counted or not, meets a broken pipe and ends the     *)
(* process, or waits for ever.                                             *)
SendSegment(c) ==
  /\ MorePackets(c)
  /\ NextPacket(c).has_buffer
  /\ OverTcp(c)
  /\ \/ \E counted \in BOOLEAN : Attempted(c, counted)
     \/ /\ pc' = [pc EXCEPT ![c] = "aborted"]
        /\ UNCHANGED <<argv, options, exit_code, position, sent_count>>
  /\ UNCHANGED <<networkVars, serverVars>>

(* Run asks a null payload for its size.                                   *)
CrashOnBarePacket(c) ==
  /\ MorePackets(c)
  /\ ~NextPacket(c).has_buffer
  /\ pc' = [pc EXCEPT ![c] = "aborted"]
  /\ UNCHANGED <<argv, options, exit_code, position, sent_count, networkVars, serverVars>>

(* Run returns; the exit code is 0 whatever was sent.                      *)
EndReplay(c) ==
  /\ pc[c] = "running"
  /\ position[c] = Len(Capture(c))
  /\ Exit(c, 0)

(* The steps of c that wait for nobody.                                    *)
ClientStep(c) ==
  \/ ExitMain(c) \/ AbortReplay(c) \/ RefuseReplay(c) \/ StartReplay(c)
  \/ SendDatagram(c) \/ CrashOnBarePacket(c) \/ EndReplay(c)

Client(c) == ClientStep(c) \/ SendSegment(c)

-----------------------------------------------------------------------------
(* Any datagram in flight arrives next, and may arrive once more.          *)
Deliver(d) ==
  /\ server = "up"
  /\ Len(queue) < QueueCap
  /\ queue' = Append(queue, d)
  /\ \/ /\ in_flight' = in_flight \ {d}
        /\ UNCHANGED duplicated
     \/ /\ d \notin duplicated
        /\ Cardinality(duplicated) < MaxDuplicates
        /\ duplicated' = duplicated \cup {d}
        /\ UNCHANGED in_flight
  /\ UNCHANGED <<clientVars, lost, server, buf, reports>>

(* A datagram is lost on the way, or finds the queue full or nobody there. *)
Drop(d) ==
  /\ in_flight' = in_flight \ {d}
  /\ lost' = lost \cup {d}
  /\ UNCHANGED <<clientVars, duplicated, serverVars>>

Network == \E d \in in_flight : Deliver(d) \/ Drop(d)

Smaller(m, n) == IF m < n THEN m ELSE n

(* buf after recvfrom: the datagram, as much of it as fits, and behind it  *)
(* what was there before.                                                  *)
Filled(d) ==
  [k \in 1 .. BufSize |-> IF k <= d.size THEN <<d.from, d.index, k>> ELSE buf[k]]

(* The message starts with the magic number.                               *)
Magic(d) == Files[Pcap(d.from)][d.index].magic

(* Mutant: the number of bytes is not looked at.                           *)
Recv_AnySize ==
  /\ server = "up"
  /\ queue # <<>>
  /\ LET d == Head(queue)
     IN  /\ buf' = Filled(d)
         /\ reports' = Append(reports,
              [datagram |-> d,
               n        |-> Smaller(d.size, BufSize),
               fields   |-> IF Magic(d) THEN SubSeq(Filled(d), 1, ReportEnd) ELSE <<>>])
  /\ queue' = Tail(queue)
  /\ UNCHANGED <<clientVars, networkVars, server>>

(* Mutant: the loop goes back to recvfrom with a short datagram unread.    *)
Recv_LeavesShort ==
  /\ server = "up"
  /\ queue # <<>>
  /\ Head(queue).size >= ReportMin
  /\ LET d == Head(queue)
     IN  /\ buf' = Filled(d)
         /\ reports' = Append(reports,
              [datagram |-> d,
               n        |-> Smaller(d.size, BufSize),
               fields   |-> IF Magic(d) THEN SubSeq(Filled(d), 1, ReportEnd) ELSE <<>>])
  /\ queue' = Tail(queue)
  /\ UNCHANGED <<clientVars, networkVars, server>>

(* recvfrom cuts a datagram off that is longer than buf.  The size of one  *)
(* is always printed, its fields when it has ReportMin bytes, though they  *)
(* are ReportEnd bytes long.                                               *)
Recv ==
  /\ server = "up"
  /\ queue # <<>>
  /\ LET d == Head(queue)
         n == Smaller(d.size, BufSize)
     IN  /\ buf' = Filled(d)
         /\ reports' = Append(reports,
              [datagram |-> d,
               n        |-> n,
               fields   |-> IF n >= ReportMin /\ Magic(d) THEN SubSeq(Filled(d), 1, ReportEnd)
                                                          ELSE <<>>])
  /\ queue' = Tail(queue)
  /\ UNCHANGED <<clientVars, networkVars, server>>

(* The test that started the server stops it, at any time.                 *)
StopServer ==
  /\ server = "up"
  /\ server' = "down"
  /\ lost' = lost \cup {queue[i] : i \in DOMAIN queue}
  /\ queue' = <<>>
  /\ UNCHANGED <<clientVars, in_flight, duplicated, buf, reports>>

Next == (\E c \in Clients : Client(c)) \/ Network \/ Recv \/ StopServer

(* The scheduler runs every process that can go on, but a send over TCP    *)
(* may never return; what is in flight arrives or is lost some time.       *)
Spec ==
  /\ Init /\ [][Next]_vars
  /\ \A c \in Clients : WF_vars(ClientStep(c))
  /\ WF_vars(Network)
  /\ WF_vars(Recv)

-----------------------------------------------------------------------------
(* Datagrams of c that have left it, by where they are.                    *)
Queued == {queue[i] : i \in DOMAIN queue}
Reported == {reports[i].datagram : i \in DOMAIN reports}
Somewhere(c) == {d \in in_flight \cup Queued \cup Reported \cup lost : d.from = c}

(* The position of a replay is one of its capture, nothing is in flight    *)
(* but what was attempted, and queue and buffer keep their sizes.          *)
TypeOK ==
  /\ argv \in Argvs
  /\ pc \in [Clients -> {"main", "running", "exited", "aborted"}]
  /\ exit_code \in [Clients -> {0, 1}]
  /\ \A c \in Clients :
       /\ position[c] > 0 => Pcap(c) \in DOMAIN Files /\ position[c] <= Len(Capture(c))
       /\ sent_count[c] \in 0 .. position[c]
       /\ \A d \in Somewhere(c) : /\ d.index \in 1 .. position[c]
                                   /\ d.size = Capture(c)[d.index].size
  /\ duplicated \subseteq in_flight \cup lost \cup Reported \cup Queued
  /\ Len(queue) <= QueueCap
  /\ server \in {"up", "down"}
  /\ DOMAIN buf = 1 .. BufSize
  /\ \A i \in DOMAIN reports : Len(reports[i].fields) \in {0, ReportEnd}

(* An option has the value it was last given, wherever it stands and       *)
(* whatever stands between: no option takes another for its value, and no  *)
(* value is taken for an option.                                           *)
OptionsAsGiven ==
  \A c \in Clients : Parses(argv[c]) =>
    LET Given(key) == {i \in 2 .. Len(argv[c]) : argv[c][i] = [dashed |-> TRUE, text |-> key]}
    IN  \A key \in {argv[c][i].text : i \in DOMAIN argv[c]} :
          IF Given(key) = {}
            THEN \A default \in {"", "tcp"} : Option(c, key, default) = default
            ELSE \E i \in Given(key) :
                   /\ \A j \in Given(key) : j <= i
                   /\ Option(c, key, "tcp") = ValueAt(argv[c], i)

(* What the server prints of a message begins with bytes of that message,  *)
(* and all of it is when the message has all the fields.  Of a shorter one *)
(* the rest is what an earlier datagram left in buf, or nobody wrote: the  *)
(* printed device and sequence number may be another client's.             *)
ReportsAreOwn ==
  \A i \in DOMAIN reports : \A k \in DOMAIN reports[i].fields :
    LET d    == reports[i].datagram
        cell == reports[i].fields[k]
    IN  \/ cell = <<d.from, d.index, k>>
        \/ /\ k > ReportMin /\ k > reports[i].n
           /\ \/ cell = Unset
              \/ \E j \in 1 .. i - 1 : LET e == reports[j].datagram
                                      IN  cell = <<e.from, e.index, k>>

(* The replay counts the datagrams that left, no more and no fewer: with   *)
(* the server's address each is in flight, queued, printed or lost, however*)
(* often it was delivered; with any other none ever gets to the server.    *)
CountedLeft ==
  \A c \in Clients :
    IF pc[c] = "main" \/ position[c] = 0 \/ OverTcp(c) \/ ~ReachesServer(c)
      THEN Somewhere(c) = {}
      ELSE Cardinality(Somewhere(c)) = sent_count[c]

(* What left does not stay in the network or in the queue: every datagram  *)
(* counted is printed by the server in the end, or lost on the way or with *)
(* the server.                                                             *)
CountedIsPrintedOrLost == <>[](in_flight = {} /\ queue = <<>>)

(* A replay over UDP ends, whether or not there is a server: nothing in it *)
(* waits for an answer.                                                    *)
ReplaysEnd ==
  \A c \in Clients :
    (InReplay(c) /\ OverTcp(c)) \/ <>(pc[c] \in {"exited", "aborted"})

=============================================================================
