---------------------------- MODULE ReplaySession ---------------------------
(***************************************************************************)
(* Replays over TCP against the demo server: each client is a process that *)
(* runs ReplayEngine over a TcpReplayer, the server is tcp_demo_server.    *)
(* ReplayEngine has the timing; here is what passes between the processes. *)
(*                                                                         *)
(* A connection is two bounded buffers of bytes, each the send buffer of   *)
(* one end together with the receive buffer of the other.  Both ends use   *)
(* blocking sockets and neither sets MSG_NOSIGNAL.  Only the number of     *)
(* bytes matters: the server looks at nothing but how many recv gave it.   *)
(*                                                                         *)
(* What the kernel does with a connection that breaks is external: data    *)
(* not yet read may be lost, the first send may still succeed or fail, a   *)
(* later one raises SIGPIPE.                                               *)
(***************************************************************************)
EXTENDS Integers, Sequences

CONSTANTS
  Clients,     \* replaying processes
  Payloads,    \* Payloads[c]: sizes of the payloads c replays
  SendCap,     \* bytes in flight to the server, per connection
  AckCap,      \* bytes in flight to the client, per connection
  RecvMax,     \* sizeof(buf) of the server
  HeaderLen,   \* least number of bytes the server answers
  AckLen,      \* sizeof(ack)
  None         \* no client

ASSUME SessionAssumption ==
  /\ Payloads \in [Clients -> Seq(Nat \ {0})]
  /\ {SendCap, AckCap, RecvMax, HeaderLen, AckLen} \subseteq Nat \ {0}
  /\ None \notin Clients

VARIABLES
  phase,       \* of each client: "start", "idle", "sending", "closed" or "killed"
  link,        \* its connection: "none", "up", "reset" (by the server's end), "broken" (known to be)
  position,    \* packets it has given to Send
  unsent,      \* bytes of the current packet that send has not taken
  sent_count,
  copied,      \* history: bytes its sends have taken
  in_flight,   \* bytes the server has still to receive
  acks,        \* bytes of answers; the client never receives them
  server,      \* "accept", "recv", "ack" or "down"
  serving,     \* the server's client
  late_ack,    \* the server has answered serving after it closed
  backlog,     \* connections the server has still to accept
  received     \* history: bytes the server has received, by client

clientVars == <<phase, link, position, unsent, sent_count, copied>>
bufferVars == <<in_flight, acks>>
serverVars == <<server, serving, late_ack, backlog, received>>
vars == <<clientVars, bufferVars, serverVars>>

Init ==
  /\ phase = [c \in Clients |-> "start"]
  /\ link = [c \in Clients |-> "none"]
  /\ position = [c \in Clients |-> 0]
  /\ unsent = [c \in Clients |-> 0]
  /\ sent_count = [c \in Clients |-> 0]
  /\ copied = [c \in Clients |-> 0]
  /\ in_flight = [c \in Clients |-> 0]
  /\ acks = [c \in Clients |-> 0]
  /\ server = "accept"
  /\ serving = None
  /\ late_ack = FALSE
  /\ backlog = <<>>
  /\ received = [c \in Clients |-> 0]

-----------------------------------------------------------------------------
(* The constructor of TcpReplayer: connect.                                *)
Connect(c) ==
  /\ phase[c] = "start"
  /\ server # "down"
  /\ link' = [link EXCEPT ![c] = "up"]
  /\ phase' = [phase EXCEPT ![c] = "idle"]
  /\ backlog' = Append(backlog, c)
  /\ UNCHANGED <<position, unsent, sent_count, copied, bufferVars, server, serving, late_ack, received>>

(* Nobody listens; connected_ stays false and the replay goes on.          *)
RefusedConnect(c) ==
  /\ phase[c] = "start"
  /\ server = "down"
  /\ phase' = [phase EXCEPT ![c] = "idle"]
  /\ UNCHANGED <<link, position, unsent, sent_count, copied, bufferVars, serverVars>>

MorePackets(c) == phase[c] = "idle" /\ position[c] < Len(Payloads[c])

(* Send on a replayer that is not connected returns false.                 *)
SendUnconnected(c) ==
  /\ MorePackets(c)
  /\ link[c] = "none"
  /\ position' = [position EXCEPT ![c] = @ + 1]
  /\ UNCHANGED <<phase, link, unsent, sent_count, copied, bufferVars, serverVars>>

BeginSend(c) ==
  /\ MorePackets(c)
  /\ link[c] # "none"
  /\ unsent' = [unsent EXCEPT ![c] = Payloads[c][position[c] + 1]]
  /\ phase' = [phase EXCEPT ![c] = "sending"]
  /\ UNCHANGED <<link, position, sent_count, copied, bufferVars, serverVars>>

(* Room for bytes of c: a connection that was reset takes any, into the    *)
(* void.                                                                   *)
Room(c) == IF link[c] = "up" THEN SendCap - in_flight[c] ELSE SendCap

(* send has taken n more bytes; the packet is counted when done.           *)
Taken(c, n, done) ==
  /\ copied' = [copied EXCEPT ![c] = @ + n]
  /\ in_flight' = [in_flight EXCEPT ![c] = @ + (IF link[c] = "up" THEN n ELSE 0)]
  /\ unsent' = [unsent EXCEPT ![c] = IF done THEN 0 ELSE @ - n]
  /\ position' = [position EXCEPT ![c] = @ + (IF done THEN 1 ELSE 0)]
  /\ sent_count' = [sent_count EXCEPT ![c] = @ + (IF done THEN 1 ELSE 0)]
  /\ phase' = [phase EXCEPT ![c] = IF done THEN "idle" ELSE @]

(* Mutant: every part that send takes counts.                              *)
CopyBytes_CountsParts(c) ==
  /\ phase[c] = "sending"
  /\ link[c] = "up"
  /\ \E n \in 1 .. unsent[c] :
       /\ n <= Room(c)
       /\ copied' = [copied EXCEPT ![c] = @ + n]
       /\ in_flight' = [in_flight EXCEPT ![c] = @ + n]
       /\ unsent' = [unsent EXCEPT ![c] = @ - n]
       /\ sent_count' = [sent_count EXCEPT ![c] = @ + 1]
       /\ position' = [position EXCEPT ![c] = @ + (IF n = unsent[c] THEN 1 ELSE 0)]
       /\ phase' = [phase EXCEPT ![c] = IF n = unsent[c] THEN "idle" ELSE @]
  /\ UNCHANGED <<link, acks, serverVars>>

(* A blocking send moves bytes while there is room, and returns when it    *)
(* has moved them all.                                                     *)
CopyBytes(c) ==
  /\ phase[c] = "sending"
  /\ link[c] \in {"up", "reset"}
  /\ \E n \in 1 .. unsent[c] : n <= Room(c) /\ Taken(c, n, n = unsent[c])
  /\ UNCHANGED <<link, acks, serverVars>>

(* Mutant: a failed send ends the replay.                                  *)
FailSend_GivesUp(c) ==
  /\ phase[c] = "sending"
  /\ link[c] = "reset"
  /\ link' = [link EXCEPT ![c] = "broken"]
  /\ phase' = [phase EXCEPT ![c] = "closed"]
  /\ unsent' = [unsent EXCEPT ![c] = 0]
  /\ UNCHANGED <<position, sent_count, copied, bufferVars, serverVars>>

(* Mutant: a send that returns less than the payload counts.               *)
FailSend_Counts(c) ==
  /\ phase[c] = "sending"
  /\ link[c] = "reset"
  /\ link' = [link EXCEPT ![c] = "broken"]
  /\ phase' = [phase EXCEPT ![c] = "idle"]
  /\ position' = [position EXCEPT ![c] = @ + 1]
  /\ sent_count' = [sent_count EXCEPT ![c] = @ + 1]
  /\ unsent' = [unsent EXCEPT ![c] = 0]
  /\ UNCHANGED <<copied, bufferVars, serverVars>>

(* The reset has arrived: this send returns less than the payload.         *)
FailSend(c) ==
  /\ phase[c] = "sending"
  /\ link[c] = "reset"
  /\ link' = [link EXCEPT ![c] = "broken"]
  /\ phase' = [phase EXCEPT ![c] = "idle"]
  /\ position' = [position EXCEPT ![c] = @ + 1]
  /\ unsent' = [unsent EXCEPT ![c] = 0]
  /\ UNCHANGED <<sent_count, copied, bufferVars, serverVars>>

(* SIGPIPE: the process that writes to a broken connection dies.           *)
BrokenPipe(c) ==
  /\ phase[c] = "sending"
  /\ link[c] \in {"reset", "broken"}
  /\ phase' = [phase EXCEPT ![c] = "killed"]
  /\ UNCHANGED <<link, position, unsent, sent_count, copied, bufferVars, serverVars>>

(* Run is over and the destructor closes the socket.  With answers unread  *)
(* that resets the connection, and what is in flight may be lost.          *)
CloseClient(c) ==
  /\ phase[c] = "idle"
  /\ position[c] = Len(Payloads[c])
  /\ phase' = [phase EXCEPT ![c] = "closed"]
  /\ acks' = [acks EXCEPT ![c] = 0]
  /\ \E kept \in 0 .. in_flight[c] :
       /\ acks[c] = 0 => kept = in_flight[c]
       /\ in_flight' = [in_flight EXCEPT ![c] = kept]
  /\ UNCHANGED <<link, position, unsent, sent_count, copied, serverVars>>

Client(c) ==
  \/ Connect(c) \/ RefusedConnect(c)
  \/ SendUnconnected(c) \/ BeginSend(c) \/ CopyBytes(c) \/ FailSend(c) \/ BrokenPipe(c)
  \/ CloseClient(c)

-----------------------------------------------------------------------------
(* accept: one client is served at a time.                                 *)
Accept ==
  /\ server = "accept"
  /\ backlog # <<>>
  /\ serving' = Head(backlog)
  /\ backlog' = Tail(backlog)
  /\ late_ack' = FALSE
  /\ server' = "recv"
  /\ UNCHANGED <<clientVars, bufferVars, received>>

(* Mutant: the server hangs up on a client when it gets less than a header.*)
Recv_HangsUp ==
  /\ server = "recv"
  /\ \E n \in 1 .. in_flight[serving] :
       /\ n <= RecvMax
       /\ in_flight' = [in_flight EXCEPT ![serving] = IF n >= HeaderLen THEN @ - n ELSE 0]
       /\ received' = [received EXCEPT ![serving] = @ + n]
       /\ server' = IF n >= HeaderLen THEN "ack" ELSE "accept"
       /\ serving' = IF n >= HeaderLen THEN serving ELSE None
       /\ link' = IF n >= HeaderLen THEN link ELSE [link EXCEPT ![serving] = "reset"]
  /\ UNCHANGED <<phase, position, unsent, sent_count, copied, acks, late_ack, backlog>>

(* recv gives some of the bytes that came; enough of them are answered,    *)
(* however many messages they are.                                         *)
Recv ==
  /\ server = "recv"
  /\ \E n \in 1 .. in_flight[serving] :
       /\ n <= RecvMax
       /\ in_flight' = [in_flight EXCEPT ![serving] = @ - n]
       /\ received' = [received EXCEPT ![serving] = @ + n]
       /\ server' = IF n >= HeaderLen THEN "ack" ELSE "recv"
  /\ UNCHANGED <<clientVars, acks, serving, late_ack, backlog>>

(* The answer is sent, when there is room for it.                          *)
SendAck ==
  /\ server = "ack"
  /\ phase[serving] # "closed"
  /\ acks[serving] + AckLen <= AckCap
  /\ acks' = [acks EXCEPT ![serving] = @ + AckLen]
  /\ server' = "recv"
  /\ UNCHANGED <<clientVars, in_flight, serving, late_ack, backlog, received>>

(* An answer to a client that has closed makes its kernel reset the        *)
(* connection; what is in flight may be lost.                              *)
SendLateAck ==
  /\ server = "ack"
  /\ phase[serving] = "closed"
  /\ late_ack' = TRUE
  /\ \E kept \in 0 .. in_flight[serving] : in_flight' = [in_flight EXCEPT ![serving] = kept]
  /\ server' = "recv"
  /\ UNCHANGED <<clientVars, acks, serving, backlog, received>>

(* The server process is gone, and its ends of the connections with it.    *)
ServerGone ==
  /\ server' = "down"
  /\ serving' = None
  /\ backlog' = <<>>
  /\ in_flight' = [c \in Clients |-> 0]
  /\ acks' = [c \in Clients |-> 0]
  /\ link' = [c \in Clients |-> IF link[c] = "up" /\ phase[c] # "closed" THEN "reset" ELSE link[c]]
  /\ UNCHANGED <<phase, position, unsent, sent_count, copied, late_ack, received>>

(* One more answer to the client that has closed raises SIGPIPE here.      *)
ServerBrokenPipe ==
  /\ server = "ack"
  /\ phase[serving] = "closed"
  /\ late_ack
  /\ ServerGone

(* Mutant: an end of file does not end the loop.                           *)
EndClient_Never ==
  /\ server = "recv"
  /\ phase[serving] = "closed"
  /\ in_flight[serving] = 0
  /\ UNCHANGED vars

(* Mutant: a recv with nothing to give ends the loop.                      *)
EndClient_WhenQuiet ==
  /\ server = "recv"
  /\ in_flight[serving] = 0
  /\ server' = "accept"
  /\ serving' = None
  /\ UNCHANGED <<clientVars, bufferVars, late_ack, backlog, received>>

(* recv returns 0, or an error after a reset: on to the next client.       *)
EndClient ==
  /\ server = "recv"
  /\ phase[serving] = "closed"
  /\ in_flight[serving] = 0
  /\ server' = "accept"
  /\ serving' = None
  /\ UNCHANGED <<clientVars, bufferVars, late_ack, backlog, received>>

Server == Accept \/ Recv \/ SendAck \/ SendLateAck \/ ServerBrokenPipe \/ EndClient

(* The test plan's last step; it may come at any time.                     *)
StopServer == server # "down" /\ ServerGone

Next == (\E c \in Clients : Client(c)) \/ Server \/ StopServer

(* The scheduler runs every process that can go on.                        *)
Spec ==
  /\ Init /\ [][Next]_vars
  /\ \A c \in Clients : WF_vars(Client(c))
  /\ WF_vars(Server)

-----------------------------------------------------------------------------
(* The bytes of the first n payloads of a client.                          *)
TotalOf(c, n) ==
  LET total[i \in 0 .. Len(Payloads[c])] == IF i = 0 THEN 0 ELSE total[i - 1] + Payloads[c][i]
  IN  total[n]

(* Type correctness, and the buffers keep within their bounds.             *)
TypeOK ==
  /\ phase \in [Clients -> {"start", "idle", "sending", "closed", "killed"}]
  /\ link \in [Clients -> {"none", "up", "reset", "broken"}]
  /\ \A c \in Clients :
       /\ position[c] \in 0 .. Len(Payloads[c])
       /\ sent_count[c] \in 0 .. position[c]
       /\ unsent[c] > 0 <=> phase[c] \in {"sending", "killed"}
       /\ in_flight[c] \in 0 .. SendCap
       /\ acks[c] \in 0 .. AckCap
  /\ server \in {"accept", "recv", "ack", "down"}
  /\ serving \in Clients \cup {None}
  /\ serving = None <=> server \in {"accept", "down"}

(* What a replay counts as sent, the kernel has taken to the last byte,    *)
(* even when the server vanishes in the middle of a packet.  While no send *)
(* has failed, every packet counts, and the current one does not before    *)
(* its last byte; the one that a reset interrupts is not counted, though   *)
(* a part of it may have been taken, and no other packet is after it.      *)
CountedIsTaken ==
  \A c \in Clients :
    /\ link[c] = "none" => sent_count[c] = 0
    /\ link[c] \in {"up", "reset"} =>
         /\ sent_count[c] = position[c]
         /\ copied[c] + unsent[c] = TotalOf(c, position[c] + (IF unsent[c] > 0 THEN 1 ELSE 0))
    /\ link[c] = "broken" =>
         /\ sent_count[c] + 1 = position[c]
         /\ copied[c] \in TotalOf(c, sent_count[c]) .. TotalOf(c, position[c]) - 1

(* As long as a client has not closed and the server lives, every byte     *)
(* taken has been received or will be: a loss has one of these two causes. *)
NothingLostWhileOpen ==
  \A c \in Clients :
    (link[c] # "none" /\ phase[c] # "closed" /\ server # "down") =>
      copied[c] = received[c] + in_flight[c]

(* The server is done with one client before it receives from the next, in *)
(* spite of clients that send at the same time.                            *)
OneClientAtATime ==
  \A c \in Clients :
    (received[c] > 0 /\ server # "down") => c = serving \/ (phase[c] = "closed" /\ in_flight[c] = 0)

(* Each client implements a sequential replay: the server may be away,     *)
(* stop, or reset the connection at any point, and still every payload is  *)
(* attempted once and in order, and counted at most once, unless SIGPIPE   *)
(* ends the process.                                                       *)
Replay(c) ==
  INSTANCE SequentialReplay WITH
    state     <- CASE phase[c] \in {"start", "closed"} -> "idle"
                   [] phase[c] \in {"idle", "sending"} -> "running"
                   [] phase[c] = "killed"              -> "dead",
    total     <- IF phase[c] = "start" THEN 0 ELSE Len(Payloads[c]),
    attempted <- position[c],
    counted   <- sent_count[c]

ImplementsSequentialReplay ==
  /\ \A c \in Clients : Replay(c)!Init
  /\ [][\A c \in Clients : [Replay(c)!Next]_(Replay(c)!vars)]_vars

(* While answers have room, every replay ends, though the server takes the *)
(* clients one by one and nobody reads the answers; it may be killed.      *)
ReplaysEnd == \A c \in Clients : <>(phase[c] \in {"closed", "killed"})

-----------------------------------------------------------------------------
Waiting(c) == \E i \in DOMAIN backlog : backlog[i] = c

(* docs/test-plan.md:217 (ST-SRV-003) expects clients that connect         *)
(* together to be accepted, all of them, without blocking.  The client     *)
(* being served never reads its answers: when they fill their buffer the   *)
(* server blocks, then the client does, and the next is never accepted.    *)
EveryClientIsAccepted == \A c \in Clients : Waiting(c) ~> ~Waiting(c)

=============================================================================
