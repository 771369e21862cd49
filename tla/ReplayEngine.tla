---------------------------- MODULE ReplayEngine ----------------------------
(***************************************************************************)
(* ReplayEngine::Run: the packets of a capture are sent one after another, *)
(* as far apart as they were captured, divided by the speed.  An engine    *)
(* may be run more than once; start_us is a static local and outlives it.  *)
(*                                                                         *)
(* Times are uint64_t microseconds; TimeSpace is 2^64 there and small      *)
(* here, and the arithmetic wraps as theirs does.  The speed is a double,  *)
(* here a whole number, and the quotient is cut off as by the cast.        *)
(*                                                                         *)
(* A packet is a record: timestamp_us, and has_buffer, FALSE when its      *)
(* payload is null.  The parser builds no packet whose payload is empty    *)
(* otherwise, and none that is neither TCP nor UDP.                        *)
(***************************************************************************)
EXTENDS Integers, Sequences, FiniteSets

CONSTANTS
  Captures,    \* sequences of packets that may be replayed
  Speed,       \* options_.speed
  TimeSpace,   \* number of distinct times
  MaxRuns,     \* bound: runs of one process
  MaxTime      \* bound: where the clock stops unless a sleeper waits for it

Time == 0 .. TimeSpace - 1

ASSUME EngineAssumption ==
  /\ Speed \in Nat \ {0}
  /\ TimeSpace \in Nat \ {0}
  /\ MaxTime \in Nat
  /\ MaxTime < TimeSpace
  /\ Captures \subseteq Seq([timestamp_us : Time, has_buffer : BOOLEAN])

(* Clocks and captures are in the first half of the times: 2^63            *)
(* microseconds are 292,000 years, and a capture counts seconds in 32 bits.*)
ASSUME TimesAssumption ==
  \A c \in Captures : \A i \in DOMAIN c : 2 * (MaxTime + c[i].timestamp_us) < TimeSpace

VARIABLES
  now,          \* Time::NowUs
  start_us,     \* the static local, Unset until a packet initialises it
  capture,      \* the file of this run
  position,     \* packets read in this run
  base_ts,
  wake_at,      \* when sleep_for returns
  pc,           \* "idle", "reading", "sleeping" or "crashed"
  runs,         \* runs started
  sent_count,
  sends         \* history: the calls of Send, in order

vars == <<now, start_us, capture, position, base_ts, wake_at, pc, runs, sent_count, sends>>

Unset == -1

Init ==
  /\ now = 0
  /\ start_us = Unset
  /\ capture = <<>>
  /\ position = 0
  /\ base_ts = 0
  /\ wake_at = 0
  /\ pc = "idle"
  /\ runs = 0
  /\ sent_count = 0
  /\ sends = <<>>

(* The file opens and the loop over its packets begins.  Run on a file     *)
(* that does not open returns and leaves everything as it is.              *)
StartRun ==
  /\ pc = "idle"
  /\ runs < MaxRuns
  /\ capture' \in Captures
  /\ runs' = runs + 1
  /\ position' = 0
  /\ base_ts' = 0
  /\ pc' = "reading"
  /\ UNCHANGED <<now, start_us, wake_at, sent_count, sends>>

(* The time base of the run: the first packet's, 0 standing for "none".    *)
Base(packet) == IF base_ts = 0 THEN packet.timestamp_us ELSE base_ts

(* Mutant: the gap is not divided by the speed.                            *)
WaitFor_RealTime(packet, base) == (packet.timestamp_us - base) % TimeSpace

WaitFor(packet, base) == ((packet.timestamp_us - base) % TimeSpace) \div Speed

Start == IF start_us = Unset THEN now ELSE start_us

(* Mutant: packets are not held back.                                      *)
Target_Now(packet) == now

Target(packet) == (Start + WaitFor(packet, Base(packet))) % TimeSpace

(* sleep_for takes a signed number of microseconds, and returns at once    *)
(* when it is negative.                                                    *)
WakeAt(packet) ==
  IF now < Target(packet) /\ 2 * (Target(packet) - now) < TimeSpace THEN Target(packet) ELSE now

(* The callback up to the call of Send.                                    *)
TakePacket ==
  /\ pc = "reading"
  /\ position < Len(capture)
  /\ LET packet == capture[position + 1]
     IN  /\ packet.has_buffer
         /\ base_ts' = Base(packet)
         /\ start_us' = Start
         /\ wake_at' = WakeAt(packet)
  /\ pc' = "sleeping"
  /\ UNCHANGED <<now, capture, position, runs, sent_count, sends>>

(* The callback asks a null payload for its size.                          *)
TakeBarePacket ==
  /\ pc = "reading"
  /\ position < Len(capture)
  /\ ~capture[position + 1].has_buffer
  /\ pc' = "crashed"
  /\ UNCHANGED <<now, start_us, capture, position, base_ts, wake_at, runs, sent_count, sends>>

(* Mutant: a packet whose Send fails is tried again.                       *)
SendPacket_Retries ==
  /\ pc = "sleeping"
  /\ now >= wake_at
  /\ \E ok \in BOOLEAN :
       /\ sent_count' = sent_count + (IF ok THEN 1 ELSE 0)
       /\ sends' = Append(sends, [run |-> runs, position |-> position + 1, time |-> now, ok |-> ok])
       /\ position' = position + (IF ok THEN 1 ELSE 0)
  /\ pc' = "reading"
  /\ UNCHANGED <<now, start_us, capture, base_ts, wake_at, runs>>

(* Mutant: sends that fail are counted.                                    *)
SendPacket_CountsAll ==
  /\ pc = "sleeping"
  /\ now >= wake_at
  /\ \E ok \in BOOLEAN :
       sends' = Append(sends, [run |-> runs, position |-> position + 1, time |-> now, ok |-> ok])
  /\ sent_count' = sent_count + 1
  /\ position' = position + 1
  /\ pc' = "reading"
  /\ UNCHANGED <<now, start_us, capture, base_ts, wake_at, runs>>

(* The sleep is over; Send succeeds or fails, the loop goes on.            *)
SendPacket ==
  /\ pc = "sleeping"
  /\ now >= wake_at
  /\ \E ok \in BOOLEAN :
       /\ sent_count' = sent_count + (IF ok THEN 1 ELSE 0)
       /\ sends' = Append(sends, [run |-> runs, position |-> position + 1, time |-> now, ok |-> ok])
  /\ position' = position + 1
  /\ pc' = "reading"
  /\ UNCHANGED <<now, start_us, capture, base_ts, wake_at, runs>>

(* Mutant: the loop waits for one packet more.                             *)
EndRun_OneMore ==
  /\ pc = "reading"
  /\ position > Len(capture)
  /\ pc' = "idle"
  /\ UNCHANGED <<now, start_us, capture, position, base_ts, wake_at, runs, sent_count, sends>>

(* Mutant: a Send that fails ends the run.                                 *)
EndRun_OnFailure ==
  /\ pc = "reading"
  /\ position = Len(capture) \/ (position > 0 /\ ~sends[Len(sends)].ok)
  /\ pc' = "idle"
  /\ UNCHANGED <<now, start_us, capture, position, base_ts, wake_at, runs, sent_count, sends>>

EndRun ==
  /\ pc = "reading"
  /\ position = Len(capture)
  /\ pc' = "idle"
  /\ UNCHANGED <<now, start_us, capture, position, base_ts, wake_at, runs, sent_count, sends>>

Loop == TakePacket \/ TakeBarePacket \/ EndRun

Tick ==
  /\ now < MaxTime \/ (pc = "sleeping" /\ now < wake_at)
  /\ now' = now + 1
  /\ UNCHANGED <<start_us, capture, position, base_ts, wake_at, pc, runs, sent_count, sends>>

Next == StartRun \/ Loop \/ SendPacket \/ Tick

(* The thread runs when it can, and time passes.  Nobody has to start a    *)
(* run, and a Send over a blocking socket need not return.                 *)
Spec == Init /\ [][Next]_vars /\ WF_vars(Loop) /\ WF_vars(Tick)

-----------------------------------------------------------------------------
(* Type correctness; the engine counts exactly the sends that succeeded.   *)
TypeOK ==
  /\ now \in Time
  /\ start_us \in Time \cup {Unset}
  /\ position \in 0 .. Len(capture)
  /\ base_ts \in Time
  /\ wake_at \in Time
  /\ pc \in {"idle", "reading", "sleeping", "crashed"}
  /\ sent_count = Cardinality({i \in DOMAIN sends : sends[i].ok})

(* No packet of the capture is older than the first, whose time is not 0;  *)
(* captures of several interfaces may mix the order of the others.         *)
FirstIsOldest(c) ==
  \A i \in DOMAIN c : c[1].timestamp_us # 0 /\ c[i].timestamp_us >= c[1].timestamp_us

Offset(c, i) == (c[i].timestamp_us - c[1].timestamp_us) \div Speed

(* Every packet is given to Send once, in the order of the capture,        *)
(* whether the sends before it succeeded or not.                           *)
SentOnceInOrder ==
  LET current == {i \in DOMAIN sends : sends[i].run = runs}
  IN  /\ \A i, j \in current : i < j => sends[i].position < sends[j].position
      /\ {sends[i].position : i \in current} = 1 .. position

(* No packet is sent before its time on the scale of the capture, counted  *)
(* from the moment the first run of the process reached its first packet,  *)
(* whatever the clock, the scheduler and the sends before it did.          *)
NeverEarly ==
  FirstIsOldest(capture) =>
    \A i \in DOMAIN sends :
      sends[i].run = runs => sends[i].time >= Start + Offset(capture, sends[i].position)

Span(c) ==
  LET times == {c[i].timestamp_us : i \in DOMAIN c}
  IN  (CHOOSE t \in times : \A u \in times : u <= t)
        - (CHOOSE t \in times : \A u \in times : t <= u)

WithinSpan == pc = "sleeping" => (wake_at <= now \/ wake_at <= Start + Span(capture) \div Speed)

(* While no packet is older than the first, no sleep reaches past the      *)
(* moment the youngest is due: a late packet is made up for, delays do not *)
(* add up.                                                                 *)
DelaysNeverAddUp == FirstIsOldest(capture) => WithinSpan

(* The engine implements a sequential replay, however it is held up: no    *)
(* packet is left out because it comes late or because the Send before it  *)
(* failed, none is counted twice, and a run is not over before its last.   *)
Replay ==
  INSTANCE SequentialReplay WITH
    state     <- CASE pc = "idle" -> "idle" [] pc = "crashed" -> "dead" [] OTHER -> "running",
    total     <- Len(capture),
    attempted <- position,
    counted   <- sent_count

ImplementsSequentialReplay == Replay!Spec

(* A Send has begun and has not returned.                                  *)
Sending == pc = "sleeping" /\ now >= wake_at

(* A run that was started ends, unless the process dies, provided that     *)
(* every Send returns: no sleep, however the times of the capture and the  *)
(* clock of an earlier run lie, goes on for ever.                          *)
RunsEnd == []<>~Sending => (pc # "idle" ~> pc \in {"idle", "crashed"})

=============================================================================
