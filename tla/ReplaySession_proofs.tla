------------------------ MODULE ReplaySession_proofs ------------------------
(***************************************************************************)
(* Proofs about ReplaySession, for any number of clients, any payloads and *)
(* buffers of any size.                                                    *)
(***************************************************************************)
EXTENDS ReplaySession, SharedLemmas

(* Every variable of the clients is a function on them, and every count is *)
(* a number.                                                               *)
Functions ==
  /\ phase \in [Clients -> {"start", "idle", "sending", "closed", "killed"}]
  /\ link \in [Clients -> {"none", "up", "reset", "broken"}]
  /\ position \in [Clients -> Nat] /\ unsent \in [Clients -> Nat]
  /\ sent_count \in [Clients -> Nat] /\ copied \in [Clients -> Nat]
  /\ in_flight \in [Clients -> Nat] /\ acks \in [Clients -> Nat]
  /\ received \in [Clients -> Nat]

(* A client that has not connected has no connection, and nothing in it.   *)
Unstarted ==
  \A c \in Clients :
    phase[c] = "start" =>
      /\ link[c] = "none" /\ position[c] = 0 /\ copied[c] = 0
      /\ in_flight[c] = 0 /\ received[c] = 0

(* A connection is reset only by the end of the server.                    *)
UpWithServer == server # "down" => \A c \in Clients : link[c] \in {"none", "up"}

(* A packet that is being sent is one of the capture.                      *)
SendsAPacket == \A c \in Clients : phase[c] = "sending" => position[c] < Len(Payloads[c])

(* Clients wait to be accepted once each, and are not served before.       *)
QueueOK ==
  /\ backlog \in Seq(Clients)
  /\ server = "down" => backlog = <<>>
  /\ \A i, j \in DOMAIN backlog : backlog[i] = backlog[j] => i = j
  /\ \A i \in DOMAIN backlog :
       /\ backlog[i] # serving
       /\ phase[backlog[i]] # "start"
       /\ received[backlog[i]] = 0
  /\ serving # None => phase[serving] # "start"

(* What TypeOK says of one client.                                         *)
ClientOK(c) ==
  /\ position[c] \in 0 .. Len(Payloads[c])
  /\ sent_count[c] \in 0 .. position[c]
  /\ unsent[c] > 0 <=> phase[c] \in {"sending", "killed"}
  /\ in_flight[c] \in 0 .. SendCap
  /\ acks[c] \in 0 .. AckCap

(* What TypeOK says of the server.                                         *)
ServerOK ==
  /\ server \in {"accept", "recv", "ack", "down"}
  /\ serving \in Clients \cup {None}
  /\ serving = None <=> server \in {"accept", "down"}

(* What CountedIsTaken says of one client.                                 *)
CountedOK(c) ==
  /\ link[c] = "none" => sent_count[c] = 0
  /\ link[c] \in {"up", "reset"} =>
       /\ sent_count[c] = position[c]
       /\ copied[c] + unsent[c] = TotalOf(c, position[c] + (IF unsent[c] > 0 THEN 1 ELSE 0))
  /\ link[c] = "broken" =>
       /\ sent_count[c] + 1 = position[c]
       /\ copied[c] \in TotalOf(c, sent_count[c]) .. TotalOf(c, position[c]) - 1

(* What a client has in hand is no more than its packet.                   *)
UnsentOK(c) ==
  unsent[c] > 0 => /\ position[c] < Len(Payloads[c])
                   /\ unsent[c] <= Payloads[c][position[c] + 1]

UnsentFits == \A c \in Clients : UnsentOK(c)

IInv ==
  /\ TypeOK /\ Functions
  /\ Unstarted /\ UpWithServer /\ SendsAPacket /\ UnsentFits /\ QueueOK
  /\ CountedIsTaken /\ NothingLostWhileOpen /\ OneClientAtATime

-----------------------------------------------------------------------------
(* The payloads have sizes.                                                *)
LEMMA PayloadType ==
  ASSUME NEW c \in Clients
  PROVE  /\ Len(Payloads[c]) \in Nat
         /\ \A i \in 1 .. Len(Payloads[c]) : Payloads[c][i] \in Nat /\ Payloads[c][i] > 0
<1>1. Payloads[c] \in Seq(Nat \ {0})
  BY SessionAssumption
<1>2. QED
  BY <1>1

LEMMA NextPayload ==
  ASSUME NEW c \in Clients, NEW n \in Nat, n < Len(Payloads[c])
  PROVE  Payloads[c][n + 1] \in Nat /\ Payloads[c][n + 1] > 0
<1>1. n + 1 \in 1 .. Len(Payloads[c])
  BY PayloadType
<1>2. QED
  BY <1>1, PayloadType

(* The bytes of a client's payloads add up, packet by packet.              *)
LEMMA TotalSteps ==
  ASSUME NEW c \in Clients
  PROVE  /\ TotalOf(c, 0) = 0
         /\ \A n \in 0 .. Len(Payloads[c]) - 1 :
              TotalOf(c, n + 1) = TotalOf(c, n) + Payloads[c][n + 1]
         /\ \A n \in 0 .. Len(Payloads[c]) : TotalOf(c, n) \in Nat
<1> DEFINE p == Payloads[c]
           Sums(f) == f = [i \in 0 .. Len(p) |-> IF i = 0 THEN 0 ELSE f[i - 1] + p[i]]
           step == [n \in Nat |-> [x \in Nat |-> IF n < Len(p) THEN x + p[n + 1] ELSE x]]
           total == CHOOSE f : Sums(f)
<1>1. Len(p) \in Nat /\ \A i \in 1 .. Len(p) : p[i] \in Nat
  BY PayloadType
<1> HIDE DEF p
<1>2. step \in [Nat -> [Nat -> Nat]]
  <2>1. \A n, x \in Nat : (IF n < Len(p) THEN x + p[n + 1] ELSE x) \in Nat
    BY <1>1
  <2>2. QED
    BY <2>1
<1>3. PICK f : IsRecursive(f, Nat, 0, step)
  <2> HIDE DEF step
  <2>1. \A base \in Nat : \E f : IsRecursive(f, Nat, base, step)
    BY <1>2, Recursion
  <2>2. QED
    BY <2>1
<1> USE DEF IsRecursive
<1> DEFINE g == [i \in 0 .. Len(p) |-> f[i]]
<1>4. \A i \in 1 .. Len(p) : g[i] = g[i - 1] + p[i]
  <2> TAKE i \in 1 .. Len(p)
  <2>1. i - 1 \in Nat /\ i - 1 < Len(p) /\ (i - 1) + 1 = i /\ f[i - 1] \in Nat
    BY <1>1, <1>3
  <2>2. f[i] = f[i - 1] + p[i]
    BY <1>3, <2>1
  <2>3. QED
    BY <1>1, <2>1, <2>2
<1>5. Sums(g)
  <2>1. g[0] = 0
    BY <1>1, <1>3
  <2> HIDE DEF g
  <2>2. \A i \in 0 .. Len(p) : g[i] = IF i = 0 THEN 0 ELSE g[i - 1] + p[i]
    BY <1>1, <1>4, <2>1
  <2> USE DEF g
  <2>3. QED
    BY <2>2
<1> HIDE DEF g
<1>6. Sums(total)
  <2> HIDE DEF Sums
  <2>1. QED
    BY <1>5
<1>7. \A n \in 0 .. Len(p) : TotalOf(c, n) = total[n]
  BY DEF TotalOf, p
<1> HIDE DEF total
<1>8. total[0] = 0 /\ \A n \in 0 .. Len(p) - 1 : total[n + 1] = total[n] + p[n + 1]
  <2>1. \A i \in 0 .. Len(p) : total[i] = IF i = 0 THEN 0 ELSE total[i - 1] + p[i]
    BY <1>6
  <2>2. total[0] = 0
    BY <1>1, <2>1
  <2>3. ASSUME NEW n \in 0 .. Len(p) - 1 PROVE total[n + 1] = total[n] + p[n + 1]
    <3>1. n + 1 \in 0 .. Len(p) /\ n + 1 # 0 /\ (n + 1) - 1 = n
      BY <1>1
    <3>2. QED
      BY <2>1, <3>1
  <2>4. QED
    BY <2>2, <2>3
<1>9. \A n \in 0 .. Len(p) : total[n] \in Nat
  <2> DEFINE S == {n \in Nat : n <= Len(p) => total[n] \in Nat}
  <2>1. 0 \in S
    BY <1>8
  <2>2. ASSUME NEW n \in Nat, n \in S PROVE n + 1 \in S
    <3>1. CASE n < Len(p)
      <4>1. n \in 0 .. Len(p) - 1 /\ n + 1 \in 1 .. Len(p) /\ total[n] \in Nat
        BY <1>1, <2>2, <3>1
      <4>2. total[n + 1] = total[n] + p[n + 1] /\ p[n + 1] \in Nat
        BY <1>1, <1>8, <4>1
      <4>3. total[n + 1] \in Nat
        BY <4>1, <4>2
      <4>4. QED
        BY <4>3
    <3>2. CASE ~(n < Len(p))
      BY <1>1, <3>2
    <3>3. QED
      BY <3>1, <3>2
  <2> HIDE DEF S
  <2>3. Nat \subseteq S
    BY <2>1, <2>2, SetInduction
  <2>4. QED
    BY <1>1, <2>3 DEF S
<1>10. 0 \in 0 .. Len(p) /\ \A n \in 0 .. Len(p) - 1 : n \in 0 .. Len(p) /\ n + 1 \in 0 .. Len(p)
  BY <1>1
<1>11. QED
  BY <1>7, <1>8, <1>9, <1>10 DEF p

-----------------------------------------------------------------------------
(* The server receives from, and answers, a client.                        *)
LEMMA ServedIsClient ==
  ASSUME TypeOK, server \in {"recv", "ack"}
  PROVE  serving \in Clients
BY DEF TypeOK

(* Every step keeps the functions functions.                               *)
LEMMA FunctionsStep ==
  ASSUME TypeOK, Functions, Next
  PROVE  Functions'
<1> USE DEF Functions
<1>1. ASSUME NEW c \in Clients, Client(c) PROVE Functions'
  <2>1. CASE Connect(c)
    BY <2>1 DEF Connect, clientVars, bufferVars, serverVars
  <2>2. CASE RefusedConnect(c)
    BY <2>2 DEF RefusedConnect, clientVars, bufferVars, serverVars
  <2>3. CASE SendUnconnected(c)
    BY <2>3 DEF SendUnconnected, MorePackets, clientVars, bufferVars, serverVars
  <2>4. CASE BeginSend(c)
    <3>1. position[c] \in Nat /\ position[c] < Len(Payloads[c])
      BY <2>4 DEF BeginSend, MorePackets
    <3>2. Payloads[c][position[c] + 1] \in Nat
      BY <3>1, NextPayload
    <3>3. QED
      BY <2>4, <3>2 DEF BeginSend, clientVars, bufferVars, serverVars
  <2>5. CASE CopyBytes(c)
    BY <2>5 DEF CopyBytes, Taken, Room, clientVars, bufferVars, serverVars
  <2>6. CASE FailSend(c)
    BY <2>6 DEF FailSend, clientVars, bufferVars, serverVars
  <2>7. CASE BrokenPipe(c)
    BY <2>7 DEF BrokenPipe, clientVars, bufferVars, serverVars
  <2>8. CASE CloseClient(c)
    BY <2>8 DEF CloseClient, clientVars, bufferVars, serverVars
  <2>9. QED
    BY <1>1, <2>1, <2>2, <2>3, <2>4, <2>5, <2>6, <2>7, <2>8 DEF Client
<1>2. CASE Accept
  BY <1>2 DEF Accept, clientVars, bufferVars, serverVars
<1>3. CASE Recv
  <2>1. serving \in Clients
    BY <1>3, ServedIsClient DEF Recv
  <2>2. AckLen \in Nat
    BY SessionAssumption
  <2>3. QED
    BY <1>3, <2>1, <2>2 DEF Recv, clientVars, bufferVars, serverVars
<1>4. CASE SendAck
  <2>1. serving \in Clients
    BY <1>4, ServedIsClient DEF SendAck
  <2>2. AckLen \in Nat
    BY SessionAssumption
  <2>3. QED
    BY <1>4, <2>1, <2>2 DEF SendAck, clientVars, bufferVars, serverVars
<1>5. CASE SendLateAck
  <2>1. serving \in Clients
    BY <1>5, ServedIsClient DEF SendLateAck
  <2>2. AckLen \in Nat
    BY SessionAssumption
  <2>3. QED
    BY <1>5, <2>1, <2>2 DEF SendLateAck, clientVars, bufferVars, serverVars
<1>6. CASE ServerGone
  BY <1>6 DEF ServerGone, clientVars, bufferVars, serverVars
<1>7. CASE EndClient
  BY <1>7 DEF EndClient, clientVars, bufferVars, serverVars
<1>8. QED
  BY <1>1, <1>2, <1>3, <1>4, <1>5, <1>6, <1>7 DEF Next, Server, ServerBrokenPipe, StopServer

(* The server serves a client while it receives or answers.                *)
LEMMA ServerStep ==
  ASSUME TypeOK, QueueOK, Next
  PROVE  ServerOK'
<1> USE DEF ServerOK, TypeOK, QueueOK
<1>1. ASSUME NEW c \in Clients, Client(c) PROVE ServerOK'
  <2>1. CASE Connect(c)
    BY <2>1 DEF Connect, clientVars, bufferVars, serverVars
  <2>2. CASE RefusedConnect(c)
    BY <2>2 DEF RefusedConnect, clientVars, bufferVars, serverVars
  <2>3. CASE SendUnconnected(c)
    BY <2>3 DEF SendUnconnected, MorePackets, clientVars, bufferVars, serverVars
  <2>4. CASE BeginSend(c)
    BY <2>4 DEF BeginSend, MorePackets, clientVars, bufferVars, serverVars
  <2>5. CASE CopyBytes(c)
    BY <2>5 DEF CopyBytes, Taken, Room, clientVars, bufferVars, serverVars
  <2>6. CASE FailSend(c)
    BY <2>6 DEF FailSend, clientVars, bufferVars, serverVars
  <2>7. CASE BrokenPipe(c)
    BY <2>7 DEF BrokenPipe, clientVars, bufferVars, serverVars
  <2>8. CASE CloseClient(c)
    BY <2>8 DEF CloseClient, clientVars, bufferVars, serverVars
  <2>9. QED
    BY <1>1, <2>1, <2>2, <2>3, <2>4, <2>5, <2>6, <2>7, <2>8 DEF Client
<1>2. CASE Accept
  <2>1. Head(backlog) \in Clients
    BY <1>2 DEF Accept
  <2>2. QED
    BY <1>2, <2>1, SessionAssumption DEF Accept
<1>3. CASE Recv
  BY <1>3 DEF Recv, clientVars, bufferVars, serverVars
<1>4. CASE SendAck
  BY <1>4 DEF SendAck, clientVars, bufferVars, serverVars
<1>5. CASE SendLateAck
  BY <1>5 DEF SendLateAck, clientVars, bufferVars, serverVars
<1>6. CASE ServerGone
  BY <1>6 DEF ServerGone, clientVars, bufferVars, serverVars
<1>7. CASE EndClient
  BY <1>7 DEF EndClient, clientVars, bufferVars, serverVars
<1>8. QED
  BY <1>1, <1>2, <1>3, <1>4, <1>5, <1>6, <1>7 DEF Next, Server, ServerBrokenPipe, StopServer

(* Every step, the client's own or another's, keeps its bounds.            *)
LEMMA ClientStep ==
  ASSUME TypeOK, Functions, SendsAPacket, NEW d \in Clients, ClientOK(d), Next
  PROVE  ClientOK(d)'
<1> USE DEF Functions, ClientOK
<1>a. /\ Len(Payloads[d]) \in Nat
      /\ position[d] \in Nat /\ sent_count[d] \in Nat /\ unsent[d] \in Nat
      /\ in_flight[d] \in Nat /\ acks[d] \in Nat
      /\ sent_count[d] <= position[d] /\ in_flight[d] <= SendCap
      /\ SendCap \in Nat /\ AckCap \in Nat
  BY PayloadType, SessionAssumption
<1>1. ASSUME NEW c \in Clients, Client(c) PROVE ClientOK(d)'
  <2>1. CASE Connect(c)
    BY <2>1, <1>a DEF Connect, clientVars, bufferVars, serverVars
  <2>2. CASE RefusedConnect(c)
    BY <2>2, <1>a DEF RefusedConnect, clientVars, bufferVars, serverVars
  <2>3. CASE SendUnconnected(c)
    <3>1. CASE c = d
      BY <2>3, <1>a, <3>1 DEF SendUnconnected, MorePackets, clientVars, bufferVars, serverVars
    <3>2. CASE c # d
      BY <2>3, <1>a, <3>2 DEF SendUnconnected, MorePackets, clientVars, bufferVars, serverVars
    <3>3. QED
      BY <3>1, <3>2
  <2>4. CASE BeginSend(c)
    <3>1. position[c] \in Nat /\ position[c] < Len(Payloads[c])
      BY <2>4 DEF BeginSend, MorePackets
    <3>2. Payloads[c][position[c] + 1] \in Nat /\ Payloads[c][position[c] + 1] > 0
      BY <3>1, NextPayload
    <3>3. QED
      BY <2>4, <3>2 DEF BeginSend, clientVars, bufferVars, serverVars
  <2>5. CASE CopyBytes(c)
    <3>1. CASE c = d
      <4>1. PICK n \in 1 .. unsent[d] : n <= Room(d) /\ Taken(d, n, n = unsent[d])
        BY <2>5, <3>1 DEF CopyBytes
      <4>2. /\ phase[d] = "sending" /\ position[d] < Len(Payloads[d])
            /\ acks'[d] = acks[d]
        BY <2>5, <3>1 DEF CopyBytes, SendsAPacket, bufferVars
      <4>3. n \in Nat /\ n >= 1 /\ n <= unsent[d]
        BY <1>a
      <4>4. in_flight'[d] \in 0 .. SendCap
        <5>1. in_flight'[d] = in_flight[d] + (IF link[d] = "up" THEN n ELSE 0)
          BY <4>1 DEF Taken
        <5>2. in_flight[d] <= SendCap /\ (link[d] = "up" => n <= SendCap - in_flight[d])
          BY <1>a, <4>1 DEF Room
        <5> HIDE DEF Functions, ClientOK
        <5>3. QED
          BY <1>a, <4>3, <5>1, <5>2
      <4>5. /\ unsent'[d] = (IF n = unsent[d] THEN 0 ELSE unsent[d] - n)
            /\ position'[d] = position[d] + (IF n = unsent[d] THEN 1 ELSE 0)
            /\ sent_count'[d] = sent_count[d] + (IF n = unsent[d] THEN 1 ELSE 0)
            /\ phase'[d] = (IF n = unsent[d] THEN "idle" ELSE "sending")
        BY <4>1, <4>2 DEF Taken
      <4>6. CASE n = unsent[d]
        <5>1. /\ unsent'[d] = 0 /\ phase'[d] = "idle"
              /\ position'[d] = position[d] + 1 /\ sent_count'[d] = sent_count[d] + 1
          BY <4>5, <4>6
        <5> HIDE DEF Functions, ClientOK
        <5>2. position'[d] \in 0 .. Len(Payloads[d])
          BY <1>a, <4>2, <5>1
        <5>3. sent_count'[d] \in 0 .. position'[d]
          BY <1>a, <5>1
        <5> USE DEF ClientOK
        <5>4. QED
          BY <1>a, <4>2, <4>4, <5>1, <5>2, <5>3
      <4>7. CASE n # unsent[d]
        <5> HIDE DEF Functions, ClientOK
        <5>1. /\ unsent'[d] = unsent[d] - n /\ phase'[d] = "sending"
              /\ position'[d] = position[d] /\ sent_count'[d] = sent_count[d]
          BY <1>a, <4>5, <4>7
        <5>2. unsent'[d] > 0
          BY <1>a, <4>3, <4>7, <5>1
        <5> USE DEF ClientOK
        <5>3. QED
          BY <1>a, <4>2, <4>4, <5>1, <5>2
      <4>8. QED
        BY <4>6, <4>7
    <3>2. CASE c # d
      BY <2>5, <1>a, <3>2 DEF CopyBytes, Taken, clientVars, bufferVars, serverVars
    <3>3. QED
      BY <3>1, <3>2
  <2>6. CASE FailSend(c)
    <3>1. CASE c = d
      BY <2>6, <1>a, <3>1 DEF FailSend, SendsAPacket, clientVars, bufferVars, serverVars
    <3>2. CASE c # d
      BY <2>6, <1>a, <3>2 DEF FailSend, SendsAPacket, clientVars, bufferVars, serverVars
    <3>3. QED
      BY <3>1, <3>2
  <2>7. CASE BrokenPipe(c)
    BY <2>7, <1>a DEF BrokenPipe, clientVars, bufferVars, serverVars
  <2>8. CASE CloseClient(c)
    <3>1. CASE c = d
      BY <2>8, <1>a, <3>1 DEF CloseClient, clientVars, bufferVars, serverVars
    <3>2. CASE c # d
      BY <2>8, <1>a, <3>2 DEF CloseClient, clientVars, bufferVars, serverVars
    <3>3. QED
      BY <3>1, <3>2
  <2>9. QED
    BY <1>1, <2>1, <2>2, <2>3, <2>4, <2>5, <2>6, <2>7, <2>8 DEF Client
<1>2. CASE Accept
  BY <1>2, <1>a DEF Accept, clientVars, bufferVars, serverVars
<1>3. CASE Recv
  <2>a. serving \in Clients
    BY <1>3, ServedIsClient DEF Recv
  <2>b. AckLen \in Nat
    BY SessionAssumption
  <2>1. CASE serving = d
    BY <1>3, <1>a, <2>1, <2>a DEF Recv, clientVars, bufferVars, serverVars
  <2>2. CASE serving # d
    BY <1>3, <1>a, <2>2, <2>a DEF Recv, clientVars, bufferVars, serverVars
  <2>3. QED
    BY <2>1, <2>2
<1>4. CASE SendAck
  <2>a. serving \in Clients
    BY <1>4, ServedIsClient DEF SendAck
  <2>b. AckLen \in Nat
    BY SessionAssumption
  <2>1. CASE serving = d
    BY <1>4, <1>a, <2>1, <2>a, <2>b DEF SendAck, clientVars, bufferVars, serverVars
  <2>2. CASE serving # d
    BY <1>4, <1>a, <2>2, <2>a, <2>b DEF SendAck, clientVars, bufferVars, serverVars
  <2>3. QED
    BY <2>1, <2>2
<1>5. CASE SendLateAck
  <2>a. serving \in Clients
    BY <1>5, ServedIsClient DEF SendLateAck
  <2>b. AckLen \in Nat
    BY SessionAssumption
  <2>1. CASE serving = d
    BY <1>5, <1>a, <2>1, <2>a DEF SendLateAck, clientVars, bufferVars, serverVars
  <2>2. CASE serving # d
    BY <1>5, <1>a, <2>2, <2>a DEF SendLateAck, clientVars, bufferVars, serverVars
  <2>3. QED
    BY <2>1, <2>2
<1>6. CASE ServerGone
  <2>1. SendCap \in Nat /\ AckCap \in Nat
    BY SessionAssumption
  <2>2. QED
    BY <1>6, <2>1 DEF ServerGone
<1>7. CASE EndClient
  BY <1>7, <1>a DEF EndClient, clientVars, bufferVars, serverVars
<1>8. QED
  BY <1>1, <1>2, <1>3, <1>4, <1>5, <1>6, <1>7 DEF Next, Server, ServerBrokenPipe, StopServer

(* Nothing happens on a connection before its client connects.             *)
LEMMA UnstartedStep ==
  ASSUME TypeOK, Functions, Unstarted, QueueOK, Next
  PROVE  Unstarted'
<1> USE DEF Functions, Unstarted
<1> DEFINE Nothing(d) == /\ link'[d] = "none" /\ position'[d] = 0 /\ copied'[d] = 0
                         /\ in_flight'[d] = 0 /\ received'[d] = 0
<1> SUFFICES ASSUME NEW d \in Clients, phase'[d] = "start" PROVE Nothing(d)
  OBVIOUS
<1>s. server \in {"recv", "ack"} => serving \in Clients /\ phase[serving] # "start"
  BY ServedIsClient, SessionAssumption DEF QueueOK
<1>1. ASSUME NEW c \in Clients, Client(c) PROVE Nothing(d)
  <2>1. CASE Connect(c)
    BY <2>1 DEF Connect, clientVars, bufferVars, serverVars
  <2>2. CASE RefusedConnect(c)
    BY <2>2 DEF RefusedConnect, clientVars, bufferVars, serverVars
  <2>3. CASE SendUnconnected(c)
    BY <2>3 DEF SendUnconnected, MorePackets, clientVars, bufferVars, serverVars
  <2>4. CASE BeginSend(c)
    BY <2>4 DEF BeginSend, MorePackets, clientVars, bufferVars, serverVars
  <2>5. CASE CopyBytes(c)
    BY <2>5 DEF CopyBytes, Taken, Room, clientVars, bufferVars, serverVars
  <2>6. CASE FailSend(c)
    BY <2>6 DEF FailSend, clientVars, bufferVars, serverVars
  <2>7. CASE BrokenPipe(c)
    BY <2>7 DEF BrokenPipe, clientVars, bufferVars, serverVars
  <2>8. CASE CloseClient(c)
    BY <2>8 DEF CloseClient, clientVars, bufferVars, serverVars
  <2>9. QED
    BY <1>1, <2>1, <2>2, <2>3, <2>4, <2>5, <2>6, <2>7, <2>8 DEF Client
<1>2. CASE Accept
  BY <1>2 DEF Accept, clientVars, bufferVars, serverVars
<1>3. CASE Recv
  BY <1>3, <1>s DEF Recv, clientVars, bufferVars, serverVars
<1>4. CASE SendAck
  BY <1>4, <1>s DEF SendAck, clientVars, bufferVars, serverVars
<1>5. CASE SendLateAck
  BY <1>5, <1>s DEF SendLateAck, clientVars, bufferVars, serverVars
<1>6. CASE ServerGone
  BY <1>6 DEF ServerGone, clientVars, bufferVars, serverVars
<1>7. CASE EndClient
  BY <1>7 DEF EndClient, clientVars, bufferVars, serverVars
<1>8. QED
  BY <1>1, <1>2, <1>3, <1>4, <1>5, <1>6, <1>7 DEF Next, Server, ServerBrokenPipe, StopServer

(* While the server lives, no step resets a connection.                    *)
LEMMA UpStep ==
  ASSUME TypeOK, Functions, UpWithServer, Next
  PROVE  UpWithServer'
<1> USE DEF Functions, UpWithServer
<1>1. ASSUME NEW c \in Clients, Client(c) PROVE UpWithServer'
  <2>1. CASE Connect(c)
    BY <2>1 DEF Connect, clientVars, bufferVars, serverVars
  <2>2. CASE RefusedConnect(c)
    BY <2>2 DEF RefusedConnect, clientVars, bufferVars, serverVars
  <2>3. CASE SendUnconnected(c)
    BY <2>3 DEF SendUnconnected, MorePackets, clientVars, bufferVars, serverVars
  <2>4. CASE BeginSend(c)
    BY <2>4 DEF BeginSend, MorePackets, clientVars, bufferVars, serverVars
  <2>5. CASE CopyBytes(c)
    BY <2>5 DEF CopyBytes, Taken, Room, clientVars, bufferVars, serverVars
  <2>6. CASE FailSend(c)
    BY <2>6 DEF FailSend, clientVars, bufferVars, serverVars
  <2>7. CASE BrokenPipe(c)
    BY <2>7 DEF BrokenPipe, clientVars, bufferVars, serverVars
  <2>8. CASE CloseClient(c)
    BY <2>8 DEF CloseClient, clientVars, bufferVars, serverVars
  <2>9. QED
    BY <1>1, <2>1, <2>2, <2>3, <2>4, <2>5, <2>6, <2>7, <2>8 DEF Client
<1>2. CASE Accept
  BY <1>2 DEF Accept, clientVars, bufferVars, serverVars
<1>3. CASE Recv
  BY <1>3 DEF Recv, clientVars, bufferVars, serverVars
<1>4. CASE SendAck
  BY <1>4 DEF SendAck, clientVars, bufferVars, serverVars
<1>5. CASE SendLateAck
  BY <1>5 DEF SendLateAck, clientVars, bufferVars, serverVars
<1>6. CASE ServerGone
  BY <1>6 DEF ServerGone, clientVars, bufferVars, serverVars
<1>7. CASE EndClient
  BY <1>7 DEF EndClient, clientVars, bufferVars, serverVars
<1>8. QED
  BY <1>1, <1>2, <1>3, <1>4, <1>5, <1>6, <1>7 DEF Next, Server, ServerBrokenPipe, StopServer

(* A client begins to send only a packet it has.                           *)
LEMMA SendsStep ==
  ASSUME TypeOK, Functions, SendsAPacket, Next
  PROVE  SendsAPacket'
<1> USE DEF Functions, SendsAPacket
<1>1. ASSUME NEW c \in Clients, Client(c) PROVE SendsAPacket'
  <2>1. CASE Connect(c)
    BY <2>1 DEF Connect, clientVars, bufferVars, serverVars
  <2>2. CASE RefusedConnect(c)
    BY <2>2 DEF RefusedConnect, clientVars, bufferVars, serverVars
  <2>3. CASE SendUnconnected(c)
    BY <2>3 DEF SendUnconnected, MorePackets, clientVars, bufferVars, serverVars
  <2>4. CASE BeginSend(c)
    BY <2>4 DEF BeginSend, MorePackets, clientVars, bufferVars, serverVars
  <2>5. CASE CopyBytes(c)
    <3>1. /\ \A e \in Clients \ {c} : phase'[e] = phase[e] /\ position'[e] = position[e]
          /\ phase'[c] = "sending" => position'[c] = position[c] + 0
          /\ phase[c] = "sending"
      BY <2>5 DEF CopyBytes, Taken
    <3>2. position[c] + 0 = position[c]
      OBVIOUS
    <3>3. QED
      BY <3>1, <3>2
  <2>6. CASE FailSend(c)
    BY <2>6 DEF FailSend, clientVars, bufferVars, serverVars
  <2>7. CASE BrokenPipe(c)
    BY <2>7 DEF BrokenPipe, clientVars, bufferVars, serverVars
  <2>8. CASE CloseClient(c)
    BY <2>8 DEF CloseClient, clientVars, bufferVars, serverVars
  <2>9. QED
    BY <1>1, <2>1, <2>2, <2>3, <2>4, <2>5, <2>6, <2>7, <2>8 DEF Client
<1>2. CASE Accept
  BY <1>2 DEF Accept, clientVars, bufferVars, serverVars
<1>3. CASE Recv
  BY <1>3 DEF Recv, clientVars, bufferVars, serverVars
<1>4. CASE SendAck
  BY <1>4 DEF SendAck, clientVars, bufferVars, serverVars
<1>5. CASE SendLateAck
  BY <1>5 DEF SendLateAck, clientVars, bufferVars, serverVars
<1>6. CASE ServerGone
  BY <1>6 DEF ServerGone, clientVars, bufferVars, serverVars
<1>7. CASE EndClient
  BY <1>7 DEF EndClient, clientVars, bufferVars, serverVars
<1>8. QED
  BY <1>1, <1>2, <1>3, <1>4, <1>5, <1>6, <1>7 DEF Next, Server, ServerBrokenPipe, StopServer

(* A client joins the queue once and leaves it to be served.               *)
LEMMA QueueStep ==
  ASSUME TypeOK, Functions, Unstarted, QueueOK, Next
  PROVE  QueueOK'
<1> USE DEF Functions, QueueOK
<1> DEFINE n == Len(backlog)
<1>q. /\ None \notin Clients
      /\ n \in Nat /\ DOMAIN backlog = 1 .. n
      /\ \A i \in DOMAIN backlog : backlog[i] \in Clients
  <2>1. None \notin Clients
    BY SessionAssumption
  <2>2. backlog \in Seq(Clients)
    OBVIOUS
  <2> HIDE DEF QueueOK, Functions
  <2>3. n \in Nat /\ DOMAIN backlog = 1 .. n /\ \A i \in 1 .. n : backlog[i] \in Clients
    BY <2>2
  <2>4. QED
    BY <2>1, <2>3
<1>r. /\ \A i, j \in 1 .. n : backlog[i] = backlog[j] => i = j
      /\ \A i \in 1 .. n : /\ backlog[i] # serving
                           /\ phase[backlog[i]] # "start" /\ received[backlog[i]] = 0
  BY <1>q
<1>1. ASSUME NEW c \in Clients, Client(c) PROVE QueueOK'
  <2>1. CASE Connect(c)
    <3>1. /\ backlog' \in Seq(Clients)
          /\ DOMAIN backlog' = 1 .. n + 1
          /\ backlog'[n + 1] = c
          /\ \A i \in 1 .. n : backlog'[i] = backlog[i]
      BY <2>1, <1>q DEF Connect
    <3>2. /\ phase[c] = "start" /\ received[c] = 0 /\ c # serving
          /\ \A i \in DOMAIN backlog : backlog[i] # c
      BY <2>1, <1>q DEF Connect, Unstarted
    <3>3. /\ phase' = [phase EXCEPT ![c] = "idle"]
          /\ server # "down" /\ UNCHANGED <<server, serving, received>>
      BY <2>1 DEF Connect
    <3>4. /\ \A i, j \in 1 .. n + 1 : backlog'[i] = backlog'[j] => i = j
          /\ \A i \in 1 .. n + 1 : /\ backlog'[i] # serving
                                   /\ phase'[backlog'[i]] # "start" /\ received[backlog'[i]] = 0
      <4> HIDE DEF n, QueueOK
      <4>1. \A i \in 1 .. n + 1 : i \in 1 .. n \/ i = n + 1
        BY <1>q
      <4>2. \A i \in 1 .. n : backlog'[i] = backlog[i] /\ backlog[i] # c /\ backlog[i] \in Clients
        BY <3>1, <3>2, <1>q
      <4>3. ASSUME NEW i \in 1 .. n + 1, NEW j \in 1 .. n + 1, backlog'[i] = backlog'[j]
            PROVE  i = j
        BY <4>1, <4>2, <4>3, <3>1, <1>r
      <4>4. ASSUME NEW i \in 1 .. n
            PROVE  backlog'[i] # serving /\ phase'[backlog'[i]] # "start" /\ received[backlog'[i]] = 0
        BY <4>2, <3>3, <1>r
      <4>5. backlog'[n + 1] # serving /\ phase'[backlog'[n + 1]] # "start" /\ received[backlog'[n + 1]] = 0
        BY <3>1, <3>2, <3>3
      <4>6. QED
        BY <4>1, <4>3, <4>4, <4>5
    <3>6. serving # None => phase'[serving] # "start"
      BY <3>3
    <3>7. QED
      BY <3>1, <3>3, <3>4, <3>6
  <2>2. CASE RefusedConnect(c)
    BY <2>2, <1>q DEF RefusedConnect, clientVars, bufferVars, serverVars
  <2>3. CASE SendUnconnected(c)
    BY <2>3, <1>q DEF SendUnconnected, MorePackets, clientVars, bufferVars, serverVars
  <2>4. CASE BeginSend(c)
    <3>1. /\ phase' = [phase EXCEPT ![c] = "sending"]
          /\ UNCHANGED <<server, serving, backlog, received>>
      BY <2>4 DEF BeginSend, serverVars
    <3>2. QED
      BY <3>1, <1>q
  <2>5. CASE CopyBytes(c)
    BY <2>5, <1>q DEF CopyBytes, Taken, Room, clientVars, bufferVars, serverVars
  <2>6. CASE FailSend(c)
    BY <2>6, <1>q DEF FailSend, clientVars, bufferVars, serverVars
  <2>7. CASE BrokenPipe(c)
    BY <2>7, <1>q DEF BrokenPipe, clientVars, bufferVars, serverVars
  <2>8. CASE CloseClient(c)
    BY <2>8, <1>q DEF CloseClient, clientVars, bufferVars, serverVars
  <2>9. QED
    BY <1>1, <2>1, <2>2, <2>3, <2>4, <2>5, <2>6, <2>7, <2>8 DEF Client
<1>2. CASE Accept
  <2>1. /\ n > 0
        /\ backlog' \in Seq(Clients)
        /\ DOMAIN backlog' = 1 .. n - 1
        /\ \A i \in 1 .. n - 1 : backlog'[i] = backlog[i + 1]
        /\ serving' = backlog[1]
    BY <1>2 DEF Accept
  <2>2. /\ server # "down" /\ server' = "recv" /\ UNCHANGED <<phase, received>>
    BY <1>2 DEF Accept, clientVars
  <2>3. /\ \A i, j \in 1 .. n - 1 : backlog'[i] = backlog'[j] => i = j
        /\ \A i \in 1 .. n - 1 : /\ backlog'[i] # serving'
                                 /\ phase[backlog'[i]] # "start" /\ received[backlog'[i]] = 0
    <3> HIDE DEF n, QueueOK
    <3>1. /\ \A i \in 1 .. n - 1 : i + 1 \in 1 .. n /\ i + 1 # 1
          /\ \A i, j \in 1 .. n - 1 : i + 1 = j + 1 => i = j
          /\ 1 \in 1 .. n
      BY <2>1, <1>q
    <3>2. \A i \in 1 .. n - 1 : backlog'[i] = backlog[i + 1]
      BY <2>1
    <3>3. ASSUME NEW i \in 1 .. n - 1, NEW j \in 1 .. n - 1, backlog'[i] = backlog'[j]
          PROVE  i = j
      <4>1. backlog[i + 1] = backlog[j + 1] /\ i + 1 \in 1 .. n /\ j + 1 \in 1 .. n
        BY <3>1, <3>2, <3>3
      <4>2. i + 1 = j + 1
        BY <4>1, <1>r
      <4>3. QED
        BY <4>2
    <3>4. ASSUME NEW i \in 1 .. n - 1
          PROVE  backlog'[i] # serving' /\ phase[backlog'[i]] # "start" /\ received[backlog'[i]] = 0
      <4>1. backlog'[i] = backlog[i + 1] /\ i + 1 \in 1 .. n /\ i + 1 # 1 /\ 1 \in 1 .. n
        BY <3>1, <3>2
      <4>2. backlog[i + 1] # backlog[1]
        BY <4>1, <1>r
      <4>3. QED
        BY <4>1, <4>2, <2>1, <1>r
    <3>5. QED
      BY <3>3, <3>4
  <2>5. phase[serving'] # "start"
    <3>1. 1 \in 1 .. n
      BY <2>1, <1>q
    <3>2. QED
      BY <2>1, <3>1, <1>r
  <2>6. QED
    BY <2>1, <2>2, <2>3, <2>5
<1>3. CASE Recv
  <2>1. serving \in Clients
    BY <1>3, ServedIsClient DEF Recv
  <2>2. QED
    BY <1>3, <2>1, <1>q DEF Recv, clientVars, bufferVars, serverVars
<1>4. CASE SendAck
  <2>1. serving \in Clients
    BY <1>4, ServedIsClient DEF SendAck
  <2>2. QED
    BY <1>4, <2>1, <1>q DEF SendAck, clientVars, bufferVars, serverVars
<1>5. CASE SendLateAck
  <2>1. serving \in Clients
    BY <1>5, ServedIsClient DEF SendLateAck
  <2>2. QED
    BY <1>5, <2>1, <1>q DEF SendLateAck, clientVars, bufferVars, serverVars
<1>6. CASE ServerGone
  BY <1>6, <1>q DEF ServerGone, clientVars, bufferVars, serverVars
<1>7. CASE EndClient
  BY <1>7, <1>q DEF EndClient, clientVars, bufferVars, serverVars
<1>8. QED
  BY <1>1, <1>2, <1>3, <1>4, <1>5, <1>6, <1>7 DEF Next, Server, ServerBrokenPipe, StopServer

(* Every step leaves no more in hand than there was, or begins a packet.   *)
LEMMA UnsentStep ==
  ASSUME Functions, NEW d \in Clients, ClientOK(d), UnsentOK(d), Next
  PROVE  UnsentOK(d)'
<1> USE DEF UnsentOK
<1>a. /\ Len(Payloads[d]) \in Nat
      /\ position[d] \in Nat /\ unsent[d] \in Nat
  BY PayloadType DEF Functions
<1>1. ASSUME NEW c \in Clients, Client(c) PROVE UnsentOK(d)'
  <2>1. CASE UNCHANGED <<position, unsent>>
    BY <2>1
  <2>2. CASE SendUnconnected(c)
    <3>1. CASE c = d
      <4>1. phase[d] = "idle" /\ unsent' = unsent
        BY <2>2, <3>1 DEF SendUnconnected, MorePackets
      <4>2. unsent[d] = 0
        BY <1>a, <4>1 DEF ClientOK
      <4>3. QED
        BY <4>1, <4>2
    <3>2. CASE c # d
      BY <2>2, <3>2 DEF SendUnconnected, Functions
    <3>3. QED
      BY <3>1, <3>2
  <2>3. CASE BeginSend(c)
    <3>1. CASE c = d
      <4>1. /\ position[d] < Len(Payloads[d]) /\ position' = position
            /\ unsent'[d] = Payloads[d][position[d] + 1]
        BY <2>3, <3>1 DEF BeginSend, MorePackets, Functions
      <4>2. Payloads[d][position[d] + 1] \in Nat
        BY <1>a, <4>1, NextPayload
      <4>3. QED
        BY <4>1, <4>2
    <3>2. CASE c # d
      BY <2>3, <3>2 DEF BeginSend, Functions
    <3>3. QED
      BY <3>1, <3>2
  <2>4. CASE CopyBytes(c)
    <3>1. CASE c = d
      <4>1. PICK n \in 1 .. unsent[d] : Taken(d, n, n = unsent[d])
        BY <2>4, <3>1 DEF CopyBytes
      <4>2. CASE n = unsent[d]
        <5>1. unsent'[d] = 0
          BY <4>1, <4>2 DEF Taken, Functions
        <5>2. QED
          BY <5>1
      <4>3. CASE n # unsent[d]
        <5>1. unsent'[d] = unsent[d] - n /\ position'[d] = position[d]
          BY <1>a, <4>1, <4>3 DEF Taken, Functions
        <5>2. Payloads[d][position[d] + 1] \in Nat /\ unsent[d] > 0
          BY <1>a, <4>1, NextPayload
        <5>3. QED
          BY <1>a, <5>1, <5>2
      <4>4. QED
        BY <4>2, <4>3
    <3>2. CASE c # d
      BY <2>4, <3>2 DEF CopyBytes, Taken, Functions
    <3>3. QED
      BY <3>1, <3>2
  <2>5. CASE FailSend(c)
    <3>1. CASE c = d
      <4>1. unsent'[d] = 0
        BY <2>5, <3>1 DEF FailSend, Functions
      <4>2. QED
        BY <4>1
    <3>2. CASE c # d
      BY <2>5, <3>2 DEF FailSend, Functions
    <3>3. QED
      BY <3>1, <3>2
  <2>6. QED
    BY <1>1, <2>1, <2>2, <2>3, <2>4, <2>5
    DEF Client, Connect, RefusedConnect, BrokenPipe, CloseClient, clientVars
<1>2. CASE Server \/ StopServer
  <2>1. UNCHANGED <<position, unsent>>
    BY <1>2 DEF Server, StopServer, ServerBrokenPipe, ServerGone, Accept, Recv, SendAck,
       SendLateAck, EndClient, clientVars
  <2>2. QED
    BY <2>1
<1>3. QED
  BY <1>1, <1>2 DEF Next

(* Every step keeps the account of what the kernel has taken.              *)
LEMMA CountedStep ==
  ASSUME TypeOK, Functions, Unstarted, UpWithServer, NEW d \in Clients, ClientOK(d), UnsentOK(d),
         CountedOK(d), Next
  PROVE  CountedOK(d)'
<1> USE DEF Functions, CountedOK
<1>a. /\ Len(Payloads[d]) \in Nat
      /\ position[d] \in Nat /\ sent_count[d] \in Nat /\ unsent[d] \in Nat /\ copied[d] \in Nat
  BY PayloadType
<1>1. ASSUME NEW c \in Clients, Client(c) PROVE CountedOK(d)'
  <2>1. CASE Connect(c)
    <3>1. CASE c = d
      BY <2>1, <1>a, <3>1, TotalSteps DEF Connect, Unstarted, ClientOK, clientVars, bufferVars, serverVars
    <3>2. CASE c # d
      BY <2>1, <1>a, <3>2, TotalSteps DEF Connect, Unstarted, ClientOK, clientVars, bufferVars, serverVars
    <3>3. QED
      BY <3>1, <3>2
  <2>2. CASE RefusedConnect(c)
    BY <2>2, <1>a DEF RefusedConnect, clientVars, bufferVars, serverVars
  <2>3. CASE SendUnconnected(c)
    BY <2>3, <1>a DEF SendUnconnected, MorePackets, clientVars, bufferVars, serverVars
  <2>4. CASE BeginSend(c)
    <3>1. CASE c = d
      <4>1. /\ position[d] \in 0 .. Len(Payloads[d]) - 1
            /\ unsent[d] = 0 /\ phase[d] = "idle"
        BY <2>4, <1>a, <3>1 DEF BeginSend, MorePackets, ClientOK
      <4>2. /\ unsent'[d] = Payloads[d][position[d] + 1]
            /\ UNCHANGED <<link, position, sent_count, copied>>
        BY <2>4, <3>1 DEF BeginSend
      <4>3. Payloads[d][position[d] + 1] \in Nat /\ Payloads[d][position[d] + 1] > 0
        <5>1. position[d] < Len(Payloads[d])
          BY <4>1, <1>a
        <5>2. QED
          BY <5>1, <1>a, NextPayload
      <4>4. TotalOf(d, position[d] + 1) = TotalOf(d, position[d]) + Payloads[d][position[d] + 1]
        BY <4>1, TotalSteps
      <4>5. position[d] + 0 = position[d]
        BY <1>a
      <4> HIDE DEF Functions
      <4>6. QED
        BY <1>a, <4>1, <4>2, <4>3, <4>4, <4>5
    <3>2. CASE c # d
      BY <2>4, <3>2 DEF BeginSend
    <3>3. QED
      BY <3>1, <3>2
  <2>5. CASE CopyBytes(c)
    <3>1. CASE c = d
      <4>1. PICK n \in 1 .. unsent[d] : Taken(d, n, n = unsent[d])
        BY <2>5, <3>1 DEF CopyBytes
      <4>2. /\ n \in Nat /\ n >= 1 /\ n <= unsent[d]
            /\ link' = link /\ link[d] \in {"up", "reset"}
        BY <2>5, <3>1, <1>a DEF CopyBytes
      <4>3. copied'[d] = copied[d] + n
        BY <4>1 DEF Taken
      <4>4. CASE n = unsent[d]
        <5>1. /\ unsent'[d] = 0 /\ position'[d] = position[d] + 1
              /\ sent_count'[d] = sent_count[d] + 1
          BY <4>1, <4>4 DEF Taken
        <5>2. position[d] + 1 + 0 = position[d] + 1
          BY <1>a
        <5> HIDE DEF Functions
        <5>3. QED
          BY <1>a, <4>2, <4>3, <4>4, <5>1, <5>2
      <4>5. CASE n # unsent[d]
        <5>1. /\ unsent'[d] = unsent[d] - n /\ position'[d] = position[d]
              /\ sent_count'[d] = sent_count[d]
          BY <1>a, <4>1, <4>5 DEF Taken
        <5>2. unsent'[d] > 0 /\ unsent[d] > 0
          BY <1>a, <4>2, <4>5, <5>1
        <5> HIDE DEF Functions
        <5>3. QED
          BY <1>a, <4>2, <4>3, <5>1, <5>2
      <4>6. QED
        BY <4>4, <4>5
    <3>2. CASE c # d
      BY <2>5, <3>2 DEF CopyBytes, Taken
    <3>3. QED
      BY <3>1, <3>2
  <2>6. CASE FailSend(c)
    <3>1. CASE c = d
      <4>1. /\ link[d] = "reset" /\ link'[d] = "broken"
            /\ position'[d] = position[d] + 1
            /\ UNCHANGED <<sent_count, copied>>
        BY <2>6, <3>1 DEF FailSend
      <4>2. unsent[d] > 0
        BY <2>6, <3>1 DEF FailSend, ClientOK
      <4>3. position[d] \in 0 .. Len(Payloads[d]) - 1 /\ unsent[d] <= Payloads[d][position[d] + 1]
        BY <1>a, <4>2 DEF UnsentOK
      <4>4. sent_count[d] = position[d] /\ copied[d] + unsent[d] = TotalOf(d, position[d] + 1)
        BY <4>1, <4>2
      <4> HIDE DEF Functions, CountedOK
      <4>5. position[d] < Len(Payloads[d]) /\ position[d] \in 0 .. Len(Payloads[d])
        BY <1>a, <4>3
      <4>6. /\ TotalOf(d, position[d] + 1) = TotalOf(d, position[d]) + Payloads[d][position[d] + 1]
            /\ TotalOf(d, position[d]) \in Nat
            /\ Payloads[d][position[d] + 1] \in Nat
        BY <1>a, <4>3, <4>5, TotalSteps, NextPayload
      <4>7. copied[d] \in TotalOf(d, position[d]) .. TotalOf(d, position[d] + 1) - 1
        BY <1>a, <4>2, <4>3, <4>4, <4>6
      <4>8. QED
        BY <1>a, <4>1, <4>4, <4>7 DEF CountedOK
    <3>2. CASE c # d
      BY <2>6, <3>2 DEF FailSend
    <3>3. QED
      BY <3>1, <3>2
  <2>7. CASE BrokenPipe(c)
    BY <2>7, <1>a DEF BrokenPipe, clientVars, bufferVars, serverVars
  <2>8. CASE CloseClient(c)
    BY <2>8, <1>a DEF CloseClient, clientVars, bufferVars, serverVars
  <2>9. QED
    BY <1>1, <2>1, <2>2, <2>3, <2>4, <2>5, <2>6, <2>7, <2>8 DEF Client
<1>2. CASE Accept
  BY <1>2, <1>a DEF Accept, clientVars, bufferVars, serverVars
<1>3. CASE Recv
  BY <1>3, <1>a DEF Recv, clientVars, bufferVars, serverVars
<1>4. CASE SendAck
  BY <1>4, <1>a DEF SendAck, clientVars, bufferVars, serverVars
<1>5. CASE SendLateAck
  BY <1>5, <1>a DEF SendLateAck, clientVars, bufferVars, serverVars
<1>6. CASE ServerGone
  BY <1>6, <1>a DEF ServerGone, clientVars, bufferVars, serverVars
<1>7. CASE EndClient
  BY <1>7, <1>a DEF EndClient, clientVars, bufferVars, serverVars
<1>8. QED
  BY <1>1, <1>2, <1>3, <1>4, <1>5, <1>6, <1>7 DEF Next, Server, ServerBrokenPipe, StopServer

(* Every step keeps the account of what is in flight.                      *)
LEMMA LostStep ==
  ASSUME TypeOK, Functions, Unstarted, UpWithServer, NothingLostWhileOpen, Next
  PROVE  NothingLostWhileOpen'
<1> USE DEF Functions, NothingLostWhileOpen
<1> DEFINE Open(d) == link[d] # "none" /\ phase[d] # "closed" /\ server # "down"
           Kept(d) == copied[d] = received[d] + in_flight[d]
<1> SUFFICES ASSUME NEW d \in Clients, Open(d)' PROVE Kept(d)'
  OBVIOUS
<1>1. ASSUME NEW c \in Clients, Client(c) PROVE Kept(d)'
  <2>1. CASE Connect(c)
    BY <2>1 DEF Connect, Unstarted, bufferVars
  <2>2. CASE RefusedConnect(c)
    BY <2>2 DEF RefusedConnect, clientVars, bufferVars, serverVars
  <2>3. CASE SendUnconnected(c)
    BY <2>3 DEF SendUnconnected, MorePackets, clientVars, bufferVars, serverVars
  <2>4. CASE BeginSend(c)
    BY <2>4 DEF BeginSend, MorePackets, clientVars, bufferVars, serverVars
  <2>5. CASE CopyBytes(c)
    <3>1. CASE c = d
      <4>1. PICK n \in 1 .. unsent[d] : Taken(d, n, n = unsent[d])
        BY <2>5, <3>1 DEF CopyBytes
      <4>2. link[d] = "up" /\ Open(d) /\ received' = received
        BY <2>5, <3>1 DEF CopyBytes, UpWithServer, serverVars
      <4>3. copied'[d] = copied[d] + n /\ in_flight'[d] = in_flight[d] + n /\ n \in Nat
        BY <4>1, <4>2 DEF Taken
      <4>4. QED
        BY <4>2, <4>3
    <3>2. CASE c # d
      BY <2>5, <3>2 DEF CopyBytes, Taken, serverVars
    <3>3. QED
      BY <3>1, <3>2
  <2>6. CASE FailSend(c)
    BY <2>6 DEF FailSend, clientVars, bufferVars, serverVars
  <2>7. CASE BrokenPipe(c)
    BY <2>7 DEF BrokenPipe, clientVars, bufferVars, serverVars
  <2>8. CASE CloseClient(c)
    BY <2>8 DEF CloseClient, clientVars, bufferVars, serverVars
  <2>9. QED
    BY <1>1, <2>1, <2>2, <2>3, <2>4, <2>5, <2>6, <2>7, <2>8 DEF Client
<1>2. CASE Accept
  BY <1>2 DEF Accept, clientVars, bufferVars, serverVars
<1>3. CASE Recv
  BY <1>3 DEF Recv, clientVars, bufferVars, serverVars
<1>4. CASE SendAck
  BY <1>4 DEF SendAck, clientVars, bufferVars, serverVars
<1>5. CASE SendLateAck
  BY <1>5 DEF SendLateAck, clientVars, bufferVars, serverVars
<1>6. CASE ServerGone
  BY <1>6 DEF ServerGone, clientVars, bufferVars, serverVars
<1>7. CASE EndClient
  BY <1>7 DEF EndClient, clientVars, bufferVars, serverVars
<1>8. QED
  BY <1>1, <1>2, <1>3, <1>4, <1>5, <1>6, <1>7 DEF Next, Server, ServerBrokenPipe, StopServer

(* Every step leaves the clients served before without bytes to receive.   *)
LEMMA OneStep ==
  ASSUME TypeOK, Functions, Unstarted, QueueOK, OneClientAtATime, Next
  PROVE  OneClientAtATime'
<1> USE DEF Functions, OneClientAtATime
<1> DEFINE Done(d) == d = serving \/ (phase[d] = "closed" /\ in_flight[d] = 0)
<1> SUFFICES ASSUME NEW d \in Clients, received'[d] > 0, server' # "down" PROVE Done(d)'
  OBVIOUS
<1>1. ASSUME NEW c \in Clients, Client(c) PROVE Done(d)'
  <2>1. CASE Connect(c)
    BY <2>1 DEF Connect, clientVars, bufferVars, serverVars
  <2>2. CASE RefusedConnect(c)
    BY <2>2 DEF RefusedConnect, clientVars, bufferVars, serverVars
  <2>3. CASE SendUnconnected(c)
    BY <2>3 DEF SendUnconnected, MorePackets, clientVars, bufferVars, serverVars
  <2>4. CASE BeginSend(c)
    BY <2>4 DEF BeginSend, MorePackets, clientVars, bufferVars, serverVars
  <2>5. CASE CopyBytes(c)
    BY <2>5 DEF CopyBytes, Taken, Room, clientVars, bufferVars, serverVars
  <2>6. CASE FailSend(c)
    BY <2>6 DEF FailSend, clientVars, bufferVars, serverVars
  <2>7. CASE BrokenPipe(c)
    BY <2>7 DEF BrokenPipe, clientVars, bufferVars, serverVars
  <2>8. CASE CloseClient(c)
    BY <2>8 DEF CloseClient, clientVars, bufferVars, serverVars
  <2>9. QED
    BY <1>1, <2>1, <2>2, <2>3, <2>4, <2>5, <2>6, <2>7, <2>8 DEF Client
<1>2. CASE Accept
  BY <1>2, SessionAssumption DEF Accept, TypeOK, clientVars, bufferVars
<1>3. CASE Recv
  BY <1>3 DEF Recv, clientVars, bufferVars, serverVars
<1>4. CASE SendAck
  BY <1>4 DEF SendAck, clientVars, bufferVars, serverVars
<1>5. CASE SendLateAck
  BY <1>5 DEF SendLateAck, clientVars, bufferVars, serverVars
<1>6. CASE ServerGone
  BY <1>6 DEF ServerGone, clientVars, bufferVars, serverVars
<1>7. CASE EndClient
  BY <1>7 DEF EndClient, clientVars, bufferVars, serverVars
<1>8. QED
  BY <1>1, <1>2, <1>3, <1>4, <1>5, <1>6, <1>7 DEF Next, Server, ServerBrokenPipe, StopServer

(* The system starts in the invariant.                                     *)
LEMMA Initially ==
  ASSUME Init
  PROVE  IInv
<1>1. SendCap \in Nat /\ AckCap \in Nat /\ None \notin Clients
  BY SessionAssumption
<1>2. \A c \in Clients : Len(Payloads[c]) \in Nat /\ TotalOf(c, 0) = 0
  BY PayloadType, TotalSteps
<1>3. TypeOK /\ Functions
  BY <1>1, <1>2 DEF Init, TypeOK, Functions
<1>4. Unstarted /\ UpWithServer /\ SendsAPacket /\ UnsentFits /\ QueueOK
  BY DEF Init, Unstarted, UpWithServer, SendsAPacket, UnsentFits, UnsentOK, QueueOK
<1>5. CountedIsTaken /\ NothingLostWhileOpen /\ OneClientAtATime
  BY DEF Init, CountedIsTaken, NothingLostWhileOpen, OneClientAtATime
<1>6. QED
  BY <1>3, <1>4, <1>5 DEF IInv

(* Every step preserves the invariant.                                     *)
LEMMA Step ==
  ASSUME IInv, Next
  PROVE  IInv'
<1> USE DEF IInv
<1>1. Functions'
  BY FunctionsStep
<1>2. TypeOK'
  <2>1. \A d \in Clients : ClientOK(d)
    BY DEF TypeOK, ClientOK
  <2>2. \A d \in Clients : ClientOK(d)'
    BY <2>1, ClientStep
  <2>3. QED
    BY <1>1, <2>2, ServerStep DEF TypeOK, ServerOK, ClientOK, Functions
<1>3. Unstarted' /\ UpWithServer' /\ SendsAPacket' /\ QueueOK'
  BY UnstartedStep, UpStep, SendsStep, QueueStep
<1>u. UnsentFits'
  <2>1. \A d \in Clients : ClientOK(d) /\ UnsentOK(d)
    BY DEF TypeOK, ClientOK, UnsentFits
  <2>2. \A d \in Clients : UnsentOK(d)'
    BY <2>1, UnsentStep
  <2>3. QED
    BY <2>2 DEF UnsentFits
<1>4. CountedIsTaken'
  <2>1. \A d \in Clients : ClientOK(d) /\ UnsentOK(d) /\ CountedOK(d)
    BY DEF TypeOK, ClientOK, UnsentFits, CountedIsTaken, CountedOK
  <2>2. \A d \in Clients : CountedOK(d)'
    BY <2>1, CountedStep
  <2>3. QED
    BY <2>2 DEF CountedIsTaken, CountedOK
<1>5. NothingLostWhileOpen' /\ OneClientAtATime'
  BY LostStep, OneStep
<1>6. QED
  BY <1>1, <1>2, <1>3, <1>u, <1>4, <1>5

(* The invariant is about the variables only.                              *)
LEMMA Stutter ==
  ASSUME IInv, UNCHANGED vars
  PROVE  IInv'
<1> USE DEF vars, clientVars, bufferVars, serverVars
<1>1. TypeOK' /\ Functions'
  BY DEF IInv, TypeOK, Functions
<1>2. Unstarted' /\ UpWithServer' /\ SendsAPacket' /\ UnsentFits' /\ QueueOK'
  BY DEF IInv, Unstarted, UpWithServer, SendsAPacket, UnsentFits, UnsentOK, QueueOK
<1>3. CountedIsTaken' /\ NothingLostWhileOpen' /\ OneClientAtATime'
  BY DEF IInv, CountedIsTaken, NothingLostWhileOpen, OneClientAtATime
<1>4. QED
  BY <1>1, <1>2, <1>3 DEF IInv

(* The inductive invariant.                                                *)
THEOREM Invariance == Spec => []IInv
<1>1. IInv /\ [Next]_vars => IInv'
  BY Step, Stutter
<1>2. QED
  BY <1>1, Initially, PTL DEF Spec

-----------------------------------------------------------------------------
(* Every variable has its type, and neither direction of a connection      *)
(* holds more than its buffers.                                            *)
THEOREM TypeCorrect == Spec => []TypeOK
BY Invariance, PTL DEF IInv

(* A replay counts a packet when the kernel has taken all of it, and only  *)
(* then, also when the server goes away in the middle of it.               *)
THEOREM CountsWhatWasTaken == Spec => []CountedIsTaken
BY Invariance, PTL DEF IInv

(* No byte is lost between a client that is open and a server that lives.  *)
THEOREM NothingLost == Spec => []NothingLostWhileOpen
BY Invariance, PTL DEF IInv

(* The server takes the clients one by one.                                *)
THEOREM OneAtATime == Spec => []OneClientAtATime
BY Invariance, PTL DEF IInv

-----------------------------------------------------------------------------
(* A step of the system is, for each client, a step of a sequential replay *)
(* or none.                                                                *)
LEMMA StepRefines ==
  ASSUME IInv, Next, NEW d \in Clients
  PROVE  [Replay(d)!Next]_(Replay(d)!vars)
<1> DEFINE Running == {"idle", "sending"}
           Same == /\ phase'[d] \in (IF phase[d] \in Running THEN Running ELSE {phase[d]})
                   /\ position'[d] = position[d] /\ sent_count'[d] = sent_count[d]
<1>a. /\ ClientOK(d) /\ Functions /\ Unstarted /\ SendsAPacket
      /\ position[d] \in Nat /\ sent_count[d] \in Nat /\ Len(Payloads[d]) \in Nat
  BY PayloadType DEF IInv, TypeOK, ClientOK, Functions
<1>b. Same => UNCHANGED Replay(d)!vars
  BY <1>a DEF Replay!vars, Functions
<1>1. ASSUME NEW c \in Clients, Client(c), c # d PROVE Same
  BY <1>1, <1>a
     DEF Client, Connect, RefusedConnect, SendUnconnected, MorePackets, BeginSend, CopyBytes, Taken,
         FailSend, BrokenPipe, CloseClient, Functions
<1>2. CASE Connect(d) \/ RefusedConnect(d)
  BY <1>2, <1>a
     DEF Connect, RefusedConnect, Functions, Unstarted, ClientOK, Replay!Next, Replay!Begin
<1>3. CASE SendUnconnected(d)
  BY <1>3, <1>a DEF SendUnconnected, MorePackets, Functions, Replay!Next, Replay!Attempt
<1>4. CASE BeginSend(d)
  BY <1>4, <1>a, <1>b DEF BeginSend, MorePackets, Functions
<1>5. CASE CopyBytes(d)
  <2>1. PICK n \in 1 .. unsent[d] : Taken(d, n, n = unsent[d])
    BY <1>5 DEF CopyBytes
  <2>2. phase[d] = "sending" /\ position[d] < Len(Payloads[d])
    BY <1>5, <1>a DEF CopyBytes, SendsAPacket
  <2>3. CASE n = unsent[d]
    BY <2>1, <2>2, <2>3, <1>a DEF Taken, Functions, Replay!Next, Replay!Attempt
  <2>4. CASE n # unsent[d]
    BY <2>1, <2>2, <2>4, <1>a, <1>b DEF Taken, Functions
  <2>5. QED
    BY <2>3, <2>4
<1>6. CASE FailSend(d)
  BY <1>6, <1>a DEF FailSend, Functions, SendsAPacket, Replay!Next, Replay!Attempt
<1>7. CASE BrokenPipe(d)
  BY <1>7, <1>a DEF BrokenPipe, Functions, Replay!Next, Replay!Die
<1>8. CASE CloseClient(d)
  BY <1>8, <1>a DEF CloseClient, Functions, Replay!Next, Replay!Finish
<1>9. CASE Server \/ StopServer
  <2>1. UNCHANGED <<phase, position, sent_count>>
    BY <1>9
       DEF Server, StopServer, Accept, Recv, SendAck, SendLateAck, ServerBrokenPipe, ServerGone,
           EndClient, clientVars
  <2>2. QED
    BY <2>1, <1>a, <1>b DEF Functions
<1>10. QED
  BY <1>b, <1>1, <1>2, <1>3, <1>4, <1>5, <1>6, <1>7, <1>8, <1>9 DEF Next, Client

(* Each client implements a sequential replay, whatever the others and the *)
(* server do.                                                              *)
THEOREM Refinement == Spec => ImplementsSequentialReplay
<1>1. Init => \A c \in Clients : Replay(c)!Init
  BY DEF Init, Replay!Init
<1>2. IInv /\ [Next]_vars => [\A c \in Clients : [Replay(c)!Next]_(Replay(c)!vars)]_vars
  BY StepRefines
<1>3. QED
  BY <1>1, <1>2, Invariance, PTL DEF Spec, ImplementsSequentialReplay

=============================================================================
