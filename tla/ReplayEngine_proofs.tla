------------------------- MODULE ReplayEngine_proofs -------------------------
(***************************************************************************)
(* Proofs about ReplayEngine, for every capture, every speed, any number   *)
(* of runs and all times the clock may reach.                              *)
(***************************************************************************)
EXTENDS ReplayEngine, SharedLemmas, FiniteSetTheorems

(* What the history records of a call of Send.                             *)
Call == [run : Nat, position : Nat, time : Nat, ok : BOOLEAN]

HistoryOK ==
  /\ capture \in Captures \cup {<<>>}
  /\ runs \in Nat
  /\ sends \in Seq(Call)
  /\ \A i \in DOMAIN sends : sends[i].run <= runs

(* start_us is set before the first packet is waited for, and the clock    *)
(* waits for nobody before.                                                *)
StartIsEarly ==
  /\ start_us = Unset => sends = <<>> /\ now <= MaxTime
  /\ start_us <= MaxTime
  /\ pc = "sleeping" => start_us # Unset /\ position < Len(capture)

(* The time base is the first packet's, once that has been taken.          *)
BaseIsFirst ==
  FirstIsOldest(capture) =>
    base_ts = IF position = 0 /\ pc # "sleeping" THEN 0 ELSE capture[1].timestamp_us

Due(i) == start_us + Offset(capture, i)

(* The sleep for a packet ends when it is due, or now.                     *)
WakesWhenDue ==
  (pc = "sleeping" /\ FirstIsOldest(capture)) =>
    /\ wake_at >= Due(position + 1)
    /\ wake_at <= now \/ wake_at = Due(position + 1)

IInv ==
  /\ TypeOK /\ HistoryOK
  /\ SentOnceInOrder
  /\ StartIsEarly /\ BaseIsFirst /\ WakesWhenDue /\ NeverEarly

-----------------------------------------------------------------------------
(* The packets of a capture have times.                                    *)
LEMMA CaptureType ==
  ASSUME HistoryOK
  PROVE  /\ capture \in Seq([timestamp_us : Time, has_buffer : BOOLEAN])
         /\ Len(capture) \in Nat /\ DOMAIN capture = 1 .. Len(capture)
         /\ \A i \in 1 .. Len(capture) :
              /\ capture[i].timestamp_us \in Time
              /\ capture[i].timestamp_us \in Nat
              /\ 2 * (MaxTime + capture[i].timestamp_us) < TimeSpace
<1> DEFINE Packet == [timestamp_us : Time, has_buffer : BOOLEAN]
<1>1. capture \in Seq(Packet)
  <2>1. Captures \subseteq Seq(Packet)
    BY EngineAssumption
  <2> HIDE DEF Packet
  <2>2. <<>> \in Seq(Packet)
    OBVIOUS
  <2>3. QED
    BY <2>1, <2>2 DEF HistoryOK
<1>2. Len(capture) \in Nat /\ DOMAIN capture = 1 .. Len(capture)
  BY <1>1
<1>3. \A i \in 1 .. Len(capture) : capture[i].timestamp_us \in Time
  <2>1. \A i \in 1 .. Len(capture) : capture[i] \in Packet
    <3> HIDE DEF Packet
    <3>1. QED
      BY <1>1
  <2>2. QED
    BY <2>1
<1>4. \A i \in 1 .. Len(capture) : 2 * (MaxTime + capture[i].timestamp_us) < TimeSpace
  BY <1>2, TimesAssumption DEF HistoryOK
<1>5. QED
  BY <1>1, <1>2, <1>3, <1>4, EngineAssumption DEF Time

(* The history is a sequence of calls.                                     *)
LEMMA SendsType ==
  ASSUME HistoryOK
  PROVE  /\ Len(sends) \in Nat /\ DOMAIN sends = 1 .. Len(sends)
         /\ runs \in Nat
         /\ \A i \in DOMAIN sends : /\ sends[i].run \in Nat /\ sends[i].run <= runs
                                   /\ sends[i].position \in Nat
                                   /\ sends[i].time \in Nat
<1>1. Len(sends) \in Nat /\ DOMAIN sends = 1 .. Len(sends)
  BY DEF HistoryOK
<1>2. \A i \in DOMAIN sends : sends[i] \in Call
  BY DEF HistoryOK
<1>3. QED
  BY <1>1, <1>2 DEF HistoryOK, Call

(* The offset of a packet is the time since the first, or less.            *)
LEMMA OffsetBound ==
  ASSUME HistoryOK, FirstIsOldest(capture), NEW i \in 1 .. Len(capture)
  PROVE  /\ capture[i].timestamp_us - capture[1].timestamp_us \in Nat
         /\ Offset(capture, i) \in 0 .. capture[i].timestamp_us
<1>1. 1 \in 1 .. Len(capture)
  BY CaptureType
<1> DEFINE gap == capture[i].timestamp_us - capture[1].timestamp_us
<1>2. gap \in Nat /\ gap <= capture[i].timestamp_us
  BY <1>1, CaptureType DEF FirstIsOldest
<1>3. gap \div Speed \in 0 .. gap
  BY <1>2, QuotientBound, EngineAssumption
<1>4. QED
  BY <1>2, <1>3, CaptureType DEF Offset

(* A packet is slept for until it is due, or not at all when that is past: *)
(* nothing wraps while no packet is older than the first.                  *)
LEMMA WakeAtDue ==
  ASSUME IInv, FirstIsOldest(capture), pc = "reading", position < Len(capture)
  PROVE  LET due == Start + Offset(capture, position + 1)
         IN  /\ Base(capture[position + 1]) = capture[1].timestamp_us
             /\ WakeAt(capture[position + 1]) >= due
             /\ \/ WakeAt(capture[position + 1]) <= now
                \/ WakeAt(capture[position + 1]) = due
<1> DEFINE packet == capture[position + 1]
           first == capture[1].timestamp_us
           gap == packet.timestamp_us - first
           due == Start + Offset(capture, position + 1)
<1>1. position + 1 \in 1 .. Len(capture) /\ 1 \in 1 .. Len(capture)
  BY CaptureType DEF IInv, TypeOK
<1>2. Base(packet) = first
  <2>1. first # 0
    BY <1>1, CaptureType DEF IInv, FirstIsOldest
  <2>2. CASE position = 0
    BY <2>2 DEF IInv, BaseIsFirst, Base
  <2>3. CASE position # 0
    BY <2>1, <2>3 DEF IInv, BaseIsFirst, Base
  <2>4. QED
    BY <2>2, <2>3
<1>3. gap \in 0 .. TimeSpace - 1 /\ Offset(capture, position + 1) \in 0 .. packet.timestamp_us
  <2>1. gap \in Nat /\ Offset(capture, position + 1) \in 0 .. packet.timestamp_us
    BY <1>1, OffsetBound DEF IInv
  <2>2. /\ first \in 0 .. TimeSpace - 1
        /\ packet.timestamp_us \in 0 .. TimeSpace - 1
    BY <1>1, CaptureType DEF IInv, Time
  <2>3. QED
    BY <2>1, <2>2, EngineAssumption
<1>4. WaitFor(packet, first) = Offset(capture, position + 1)
  BY <1>3, SmallRemainder, EngineAssumption DEF WaitFor, Offset
<1>5. Start \in 0 .. MaxTime
  BY EngineAssumption DEF IInv, TypeOK, StartIsEarly, Start, Time, Unset
<1>6. due \in 0 .. TimeSpace - 1 /\ 2 * due < TimeSpace
  <2>1. packet.timestamp_us \in Nat /\ 2 * (MaxTime + packet.timestamp_us) < TimeSpace
    BY <1>1, CaptureType DEF IInv
  <2>2. MaxTime \in Nat /\ TimeSpace \in Nat
    BY EngineAssumption
  <2> HIDE DEF packet
  <2>3. due \in Nat /\ due <= MaxTime + packet.timestamp_us
    BY <1>3, <1>5, <2>1, <2>2
  <2> HIDE DEF due
  <2>4. QED
    BY <2>1, <2>2, <2>3
<1>7. Target(packet) = due
  <2>1. Target(packet) = due % TimeSpace
    BY <1>2, <1>4 DEF Target
  <2>2. QED
    BY <1>6, <2>1, SmallRemainder, EngineAssumption
<1>8. now \in Nat
  BY EngineAssumption DEF IInv, TypeOK, Time
<1> HIDE DEF due, packet
<1>9. CASE now < due
  <2>1. 2 * (due - now) < TimeSpace
    BY <1>6, <1>8, EngineAssumption
  <2>2. WakeAt(packet) = due
    BY <1>7, <1>9, <2>1 DEF WakeAt
  <2>3. QED
    BY <1>2, <1>6, <2>2 DEF due, packet
<1>10. CASE ~(now < due)
  <2>1. WakeAt(packet) = now /\ now >= due
    BY <1>6, <1>7, <1>8, <1>10 DEF WakeAt
  <2>2. QED
    BY <1>2, <1>8, <2>1 DEF due, packet
<1>11. QED
  BY <1>9, <1>10

-----------------------------------------------------------------------------
(* One more call of Send is one more success or none.                      *)
LEMMA CountCall ==
  ASSUME NEW s \in Seq(Call), NEW e \in Call
  PROVE  LET Successes(q) == Cardinality({i \in DOMAIN q : q[i].ok})
         IN  /\ Successes(s) \in Nat
             /\ Successes(Append(s, e)) = Successes(s) + (IF e.ok THEN 1 ELSE 0)
<1> DEFINE S == {i \in DOMAIN s : s[i].ok}
           T == {i \in DOMAIN Append(s, e) : Append(s, e)[i].ok}
<1>1. Len(s) \in Nat /\ DOMAIN s = 1 .. Len(s)
  OBVIOUS
<1>2. IsFiniteSet(S)
  <2>1. S \in SUBSET (1 .. Len(s)) /\ IsFiniteSet(1 .. Len(s))
    BY <1>1, FS_Interval
  <2>2. QED
    BY <2>1, FS_Subset
<1>3. Cardinality(S) \in Nat
  BY <1>2, FS_CardinalityType
<1>4. /\ DOMAIN Append(s, e) = 1 .. Len(s) + 1
      /\ Append(s, e)[Len(s) + 1] = e
      /\ \A i \in 1 .. Len(s) : Append(s, e)[i] = s[i]
  BY <1>1
<1>5. T = IF e.ok THEN S \cup {Len(s) + 1} ELSE S
  BY <1>1, <1>4
<1>6. Len(s) + 1 \notin S
  BY <1>1
<1>7. Cardinality(T) = Cardinality(S) + (IF e.ok THEN 1 ELSE 0)
  <2> HIDE DEF S, T
  <2>1. CASE e.ok
    BY <1>2, <1>5, <1>6, <2>1, FS_AddElement
  <2>2. CASE ~e.ok
    BY <1>3, <1>5, <2>2
  <2>3. QED
    BY <2>1, <2>2
<1>8. QED
  BY <1>3, <1>7

(* The history after a call of Send.                                       *)
LEMMA SendRecorded ==
  ASSUME IInv, SendPacket
  PROVE  \E e \in Call :
           /\ e.run = runs /\ e.position = position + 1 /\ e.time = now
           /\ sends' = Append(sends, e)
           /\ sent_count' = sent_count + (IF e.ok THEN 1 ELSE 0)
           /\ DOMAIN sends' = 1 .. Len(sends) + 1 /\ Len(sends) \in Nat
           /\ sends'[Len(sends) + 1] = e
           /\ \A i \in 1 .. Len(sends) : sends'[i] = sends[i]
<1>1. PICK ok \in BOOLEAN :
        /\ sent_count' = sent_count + (IF ok THEN 1 ELSE 0)
        /\ sends' = Append(sends, [run |-> runs, position |-> position + 1, time |-> now, ok |-> ok])
  BY DEF SendPacket
<1> DEFINE e == [run |-> runs, position |-> position + 1, time |-> now, ok |-> ok]
<1>2. e \in Call
  BY CaptureType, EngineAssumption DEF IInv, TypeOK, HistoryOK, Call, Time
<1>3. /\ e.run = runs /\ e.position = position + 1 /\ e.time = now /\ e.ok = ok
      /\ sends' = Append(sends, e)
  BY <1>1
<1> HIDE DEF e
<1>4. sends \in Seq(Call)
  BY DEF IInv, HistoryOK
<1>5. /\ DOMAIN sends' = 1 .. Len(sends) + 1 /\ Len(sends) \in Nat
      /\ sends'[Len(sends) + 1] = e
      /\ \A i \in 1 .. Len(sends) : sends'[i] = sends[i]
  BY <1>2, <1>3, <1>4
<1>6. QED
  BY <1>1, <1>2, <1>3, <1>5

LEMMA TypeStep ==
  ASSUME IInv, Next
  PROVE  TypeOK' /\ HistoryOK'
<1> USE DEF IInv, TypeOK, HistoryOK
<1>1. CASE StartRun
  <2>1. capture' \in Captures /\ Len(capture') \in Nat
    BY <1>1, EngineAssumption DEF StartRun
  <2>2. TypeOK'
    BY <1>1, <2>1, EngineAssumption DEF StartRun, Time
  <2>3. \A i \in DOMAIN sends : sends[i].run <= runs + 1
    BY SendsType
  <2>4. QED
    BY <1>1, <2>1, <2>2, <2>3 DEF StartRun
<1>2. CASE TakePacket
  <2>1. position + 1 \in 1 .. Len(capture)
    BY <1>2, CaptureType DEF TakePacket
  <2> DEFINE packet == capture[position + 1]
  <2>2. packet.timestamp_us \in Time
    BY <2>1, CaptureType
  <2>3. Base(packet) \in Time
    BY <2>2 DEF Base
  <2>4. Start \in Time
    BY DEF Start
  <2>5. WakeAt(packet) \in Time
    <3>1. WaitFor(packet, Base(packet)) \in Nat
      <4>1. packet.timestamp_us - Base(packet) \in Int
        BY <2>2, <2>3, EngineAssumption DEF Time
      <4> DEFINE gap == (packet.timestamp_us - Base(packet)) % TimeSpace
      <4>2. gap \in Nat
        BY <4>1, EngineAssumption
      <4>3. WaitFor(packet, Base(packet)) = gap \div Speed
        BY DEF WaitFor
      <4> HIDE DEF gap
      <4>4. QED
        BY <4>2, <4>3, QuotientBound, EngineAssumption
    <3>2. Start + WaitFor(packet, Base(packet)) \in Nat
      BY <2>4, <3>1, EngineAssumption DEF Time
    <3>3. Target(packet) \in Time
      BY <3>2, Division, EngineAssumption DEF Target, Time
    <3>4. QED
      BY <3>3 DEF WakeAt
  <2>6. QED
    BY <1>2, <2>3, <2>4, <2>5 DEF TakePacket
<1>3. CASE TakeBarePacket
  BY <1>3 DEF TakeBarePacket
<1>4. CASE SendPacket
  <2>1. PICK e \in Call :
          /\ e.run = runs
          /\ sends' = Append(sends, e)
          /\ sent_count' = sent_count + (IF e.ok THEN 1 ELSE 0)
          /\ DOMAIN sends' = 1 .. Len(sends) + 1 /\ Len(sends) \in Nat
          /\ sends'[Len(sends) + 1] = e
          /\ \A i \in 1 .. Len(sends) : sends'[i] = sends[i]
    BY <1>4, SendRecorded
  <2>2. sends' \in Seq(Call)
    BY <2>1
  <2>3. \A i \in DOMAIN sends' : sends'[i].run <= runs
    BY <2>1
  <2>4. sent_count' = Cardinality({i \in DOMAIN sends' : sends'[i].ok})
    BY <2>1, CountCall
  <2>5. position + 1 \in 0 .. Len(capture)
    BY <1>4, CaptureType DEF SendPacket, StartIsEarly
  <2>6. QED
    BY <1>4, <2>2, <2>3, <2>4, <2>5 DEF SendPacket
<1>5. CASE EndRun
  BY <1>5 DEF EndRun
<1>6. CASE Tick
  <2>1. now + 1 \in Time
    BY <1>6, EngineAssumption DEF Tick, Time
  <2>2. QED
    BY <1>6, <2>1 DEF Tick
<1>7. QED
  BY <1>1, <1>2, <1>3, <1>4, <1>5, <1>6 DEF Next, Loop

LEMMA StartStep ==
  ASSUME IInv, Next
  PROVE  StartIsEarly'
<1> USE DEF IInv, StartIsEarly
<1>1. CASE StartRun
  BY <1>1 DEF StartRun
<1>2. CASE TakePacket
  BY <1>2, EngineAssumption DEF TakePacket, Start, TypeOK, Time, Unset
<1>3. CASE TakeBarePacket
  BY <1>3 DEF TakeBarePacket
<1>4. CASE SendPacket
  BY <1>4 DEF SendPacket
<1>5. CASE EndRun
  BY <1>5 DEF EndRun
<1>6. CASE Tick
  BY <1>6, EngineAssumption DEF Tick, TypeOK, Time
<1>7. QED
  BY <1>1, <1>2, <1>3, <1>4, <1>5, <1>6 DEF Next, Loop

LEMMA BaseStep ==
  ASSUME IInv, Next
  PROVE  BaseIsFirst'
<1> USE DEF BaseIsFirst, FirstIsOldest
<1>1. CASE StartRun
  BY <1>1 DEF StartRun
<1>2. CASE TakePacket
  <2>1. SUFFICES ASSUME FirstIsOldest(capture) PROVE base_ts' = capture[1].timestamp_us
    BY <1>2 DEF TakePacket
  <2>2. Base(capture[position + 1]) = capture[1].timestamp_us
    BY <1>2, <2>1, WakeAtDue DEF TakePacket
  <2>3. QED
    BY <1>2, <2>2 DEF TakePacket
<1>3. CASE TakeBarePacket
  BY <1>3 DEF TakeBarePacket, IInv
<1>4. CASE SendPacket
  BY <1>4, CaptureType DEF SendPacket, IInv, TypeOK
<1>5. CASE EndRun
  BY <1>5 DEF EndRun, IInv
<1>6. CASE Tick
  BY <1>6 DEF Tick, IInv
<1>7. QED
  BY <1>1, <1>2, <1>3, <1>4, <1>5, <1>6 DEF Next, Loop

(* What has started stays started.                                         *)
LEMMA StartStays ==
  ASSUME IInv, Next
  PROVE  /\ start_us # Unset => start_us' = start_us /\ Start' = Start
         /\ TakePacket => start_us' = Start /\ Start' = Start /\ start_us' # Unset
BY EngineAssumption
   DEF Next, Loop, StartRun, TakePacket, TakeBarePacket, SendPacket, EndRun, Tick, Start,
       IInv, TypeOK, Time, Unset

LEMMA WakeStep ==
  ASSUME IInv, Next
  PROVE  WakesWhenDue'
<1>1. CASE TakePacket
  <2>1. SUFFICES ASSUME FirstIsOldest(capture)
                 PROVE  /\ wake_at' >= Due(position + 1)'
                        /\ wake_at' <= now \/ wake_at' = Due(position + 1)'
    BY <1>1 DEF TakePacket, WakesWhenDue, FirstIsOldest
  <2>2. Due(position + 1)' = Start + Offset(capture, position + 1)
    BY <1>1, StartStays DEF TakePacket, Due, Offset
  <2>3. wake_at' = WakeAt(capture[position + 1])
    BY <1>1 DEF TakePacket
  <2>4. QED
    BY <1>1, <2>1, <2>2, <2>3, WakeAtDue DEF TakePacket
<1>2. CASE Tick
  BY <1>2, EngineAssumption
     DEF Tick, WakesWhenDue, FirstIsOldest, Due, Offset, IInv, TypeOK, Time
<1>3. CASE StartRun \/ TakeBarePacket \/ SendPacket \/ EndRun
  BY <1>3 DEF StartRun, TakeBarePacket, SendPacket, EndRun, WakesWhenDue
<1>4. QED
  BY <1>1, <1>2, <1>3 DEF Next, Loop

LEMMA OrderStep ==
  ASSUME IInv, Next
  PROVE  SentOnceInOrder'
<1>1. CASE StartRun
  <2>1. \A i \in DOMAIN sends : sends[i].run # runs + 1
    BY SendsType DEF IInv
  <2>2. QED
    BY <1>1, <2>1 DEF StartRun, SentOnceInOrder
<1>2. CASE SendPacket
  <2>1. PICK e \in Call :
          /\ e.run = runs /\ e.position = position + 1
          /\ DOMAIN sends' = 1 .. Len(sends) + 1 /\ Len(sends) \in Nat
          /\ sends'[Len(sends) + 1] = e
          /\ \A i \in 1 .. Len(sends) : sends'[i] = sends[i]
    BY <1>2, SendRecorded
  <2> DEFINE current == {i \in DOMAIN sends : sends[i].run = runs}
             last == Len(sends) + 1
  <2>2. DOMAIN sends = 1 .. Len(sends)
    BY SendsType DEF IInv
  <2>3. {i \in DOMAIN sends' : sends'[i].run = runs'} = current \cup {last}
    BY <1>2, <2>1, <2>2 DEF SendPacket
  <2>4. \A i \in current : sends'[i].position = sends[i].position
    BY <2>1, <2>2
  <2>5. position \in Nat /\ position' = position + 1
    BY <1>2, CaptureType DEF IInv, TypeOK, SendPacket
  <2>6. {sends[i].position : i \in current} = 1 .. position
    BY DEF IInv, SentOnceInOrder
  <2>7. \A i, j \in current : i < j => sends[i].position < sends[j].position
    BY DEF IInv, SentOnceInOrder
  <2>8. \A i \in current : sends[i].position \in 1 .. position /\ i < last /\ i \in Nat
    BY <2>2, <2>6, <2>1
  <2> HIDE DEF current
  <2>9. sends'[last].position = position + 1 /\ last \in Nat
    BY <2>1
  <2> HIDE DEF last
  <2>10. \A i, j \in current \cup {last} : i < j => sends'[i].position < sends'[j].position
    BY <2>4, <2>5, <2>7, <2>8, <2>9
  <2>11. {sends'[i].position : i \in current \cup {last}} = 1 .. position + 1
    BY <2>4, <2>5, <2>6, <2>9
  <2>12. QED
    BY <2>3, <2>5, <2>10, <2>11 DEF SentOnceInOrder
<1>3. CASE TakePacket \/ TakeBarePacket \/ EndRun \/ Tick
  BY <1>3 DEF TakePacket, TakeBarePacket, EndRun, Tick, IInv, SentOnceInOrder
<1>4. QED
  BY <1>1, <1>2, <1>3 DEF Next, Loop

LEMMA EarlyStep ==
  ASSUME IInv, Next
  PROVE  NeverEarly'
<1> SUFFICES ASSUME FirstIsOldest(capture)', NEW i \in DOMAIN sends', sends'[i].run = runs'
             PROVE  sends'[i].time >= Start' + Offset(capture, sends[i].position)'
  BY DEF NeverEarly
<1>1. CASE StartRun
  BY <1>1, SendsType DEF StartRun, IInv
<1>2. CASE SendPacket
  <2>1. PICK e \in Call :
          /\ e.position = position + 1 /\ e.time = now
          /\ DOMAIN sends' = 1 .. Len(sends) + 1 /\ Len(sends) \in Nat
          /\ sends'[Len(sends) + 1] = e
          /\ \A j \in 1 .. Len(sends) : sends'[j] = sends[j]
    BY <1>2, SendRecorded
  <2>2. FirstIsOldest(capture) /\ runs' = runs /\ capture' = capture /\ Start' = Start
    BY <1>2, StartStays DEF SendPacket, FirstIsOldest, IInv, StartIsEarly
  <2>3. CASE i = Len(sends) + 1
    <3>1. Due(position + 1) <= now
      <4>1. Due(position + 1) \in Nat
        <5>1. position + 1 \in 1 .. Len(capture) /\ start_us \in Nat
          BY <1>2, CaptureType, EngineAssumption
             DEF SendPacket, IInv, StartIsEarly, TypeOK, Time, Unset
        <5>2. Offset(capture, position + 1) \in 0 .. capture[position + 1].timestamp_us
          BY <2>2, <5>1, OffsetBound DEF IInv
        <5>3. capture[position + 1].timestamp_us \in Nat
          BY <5>1, CaptureType DEF IInv
        <5>4. QED
          BY <5>1, <5>2, <5>3 DEF Due
      <4>2. QED
        BY <1>2, <2>2, <4>1, EngineAssumption DEF SendPacket, WakesWhenDue, IInv, TypeOK, Time
    <3>2. Start = start_us
      BY <1>2 DEF SendPacket, Start, IInv, StartIsEarly
    <3>3. QED
      BY <2>1, <2>2, <2>3, <3>1, <3>2 DEF Due, Offset
  <2>4. CASE i # Len(sends) + 1
    <3>1. i \in DOMAIN sends /\ sends'[i] = sends[i] /\ sends[i].run = runs
      BY <2>1, <2>2, <2>4, SendsType DEF IInv
    <3>2. sends[i].time >= Start + Offset(capture, sends[i].position)
      BY <2>2, <3>1 DEF IInv, NeverEarly
    <3>3. QED
      BY <2>2, <3>1, <3>2 DEF Offset
  <2>5. QED
    BY <2>3, <2>4
<1>3. CASE TakePacket \/ TakeBarePacket \/ EndRun \/ Tick
  <2>1. sends' = sends /\ runs' = runs /\ capture' = capture
    BY <1>3 DEF TakePacket, TakeBarePacket, EndRun, Tick
  <2>2. start_us # Unset
    BY <2>1, SendsType DEF IInv, StartIsEarly
  <2>3. Start' = Start
    BY <2>2, StartStays
  <2>4. sends[i].time >= Start + Offset(capture, sends[i].position)
    BY <2>1 DEF IInv, NeverEarly, FirstIsOldest
  <2>5. QED
    BY <2>1, <2>3, <2>4 DEF Offset
<1>4. QED
  BY <1>1, <1>2, <1>3 DEF Next, Loop

LEMMA Initially ==
  ASSUME Init
  PROVE  IInv
<1>1. Cardinality({i \in DOMAIN sends : sends[i].ok}) = 0
  <2>1. {i \in DOMAIN sends : sends[i].ok} = {}
    BY DEF Init
  <2>2. QED
    BY <2>1, FS_EmptySet
<1>2. TypeOK /\ HistoryOK
  BY <1>1, EngineAssumption DEF Init, TypeOK, HistoryOK, Time, Unset
<1>3. StartIsEarly /\ BaseIsFirst /\ WakesWhenDue
  BY EngineAssumption DEF Init, StartIsEarly, BaseIsFirst, WakesWhenDue, Unset
<1>4. SentOnceInOrder /\ NeverEarly
  BY DEF Init, SentOnceInOrder, NeverEarly
<1>5. QED
  BY <1>2, <1>3, <1>4 DEF IInv

LEMMA Stutter ==
  ASSUME IInv, UNCHANGED vars
  PROVE  IInv'
<1>1. TypeOK' /\ HistoryOK'
  BY DEF vars, IInv, TypeOK, HistoryOK
<1>2. StartIsEarly' /\ BaseIsFirst' /\ WakesWhenDue'
  BY DEF vars, IInv, StartIsEarly, BaseIsFirst, WakesWhenDue, FirstIsOldest, Due, Offset
<1>3. SentOnceInOrder' /\ NeverEarly'
  BY DEF vars, IInv, SentOnceInOrder, NeverEarly, FirstIsOldest, Start, Offset
<1>4. QED
  BY <1>1, <1>2, <1>3 DEF IInv

THEOREM Invariance == Spec => []IInv
<1>1. IInv /\ [Next]_vars => IInv'
  <2> SUFFICES ASSUME IInv, [Next]_vars PROVE IInv'
    OBVIOUS
  <2>1. CASE Next
    BY <2>1, TypeStep, StartStep, BaseStep, WakeStep, OrderStep, EarlyStep DEF IInv
  <2>2. CASE UNCHANGED vars
    BY <2>2, Stutter
  <2>3. QED
    BY <2>1, <2>2
<1>2. QED
  BY <1>1, Initially, PTL DEF Spec

-----------------------------------------------------------------------------
(* Every variable has its type, and the engine counts exactly the sends    *)
(* that succeeded, in however many runs.                                   *)
THEOREM TypeCorrect == Spec => []TypeOK
BY Invariance, PTL DEF IInv

(* Every packet of a capture is given to Send once, in the capture's order.*)
THEOREM SentInOrder == Spec => []SentOnceInOrder
BY Invariance, PTL DEF IInv

(* No packet is sent before it is due.                                     *)
THEOREM NotEarly == Spec => []NeverEarly
BY Invariance, PTL DEF IInv

-----------------------------------------------------------------------------
(* A set of captured times has a latest and an earliest.                   *)
LEMMA SpanIsReached ==
  ASSUME HistoryOK, NEW i \in 1 .. Len(capture)
  PROVE  /\ Span(capture) \in Nat
         /\ capture[i].timestamp_us - capture[1].timestamp_us <= Span(capture)
<1> DEFINE times == {capture[j].timestamp_us : j \in DOMAIN capture}
           latest == CHOOSE t \in times : \A u \in times : u <= t
           earliest == CHOOSE t \in times : \A u \in times : t <= u
<1>1. /\ \A t \in times : t \in Nat /\ t <= TimeSpace - 1
      /\ capture[i].timestamp_us \in times
      /\ capture[1].timestamp_us \in times
  <2>1. i \in DOMAIN capture /\ 1 \in DOMAIN capture
    BY CaptureType
  <2>2. \A j \in DOMAIN capture : capture[j].timestamp_us \in 0 .. TimeSpace - 1
    BY CaptureType DEF Time
  <2>3. QED
    BY <2>1, <2>2, EngineAssumption
<1>2. Span(capture) = latest - earliest
  BY DEF Span
<1> HIDE DEF times
<1>3. latest \in times /\ \A u \in times : u <= latest
  <2>1. \E t \in times : \A u \in times : u <= t
    <3>1. TimeSpace - 1 \in Nat /\ times \subseteq Nat /\ times # {}
      BY <1>1, EngineAssumption
    <3>2. QED
      BY <1>1, <3>1, GreatestElement
  <2>2. QED
    BY <2>1
<1>4. earliest \in times /\ \A u \in times : earliest <= u
  <2>1. \E t \in times : \A u \in times : t <= u
    BY <1>1, LeastElement
  <2>2. QED
    BY <2>1
<1> HIDE DEF latest, earliest
<1>5. QED
  BY <1>1, <1>2, <1>3, <1>4

(* No sleep reaches past the moment the youngest packet is due.            *)
THEOREM NoDelayAddsUp == Spec => []DelaysNeverAddUp
<1>1. IInv => DelaysNeverAddUp
  <2> SUFFICES ASSUME IInv, FirstIsOldest(capture), pc = "sleeping", ~(wake_at <= now)
               PROVE  wake_at <= Start + Span(capture) \div Speed
    BY DEF DelaysNeverAddUp, WithinSpan
  <2>1. position + 1 \in 1 .. Len(capture) /\ start_us \in Nat /\ Start = start_us
    BY CaptureType, EngineAssumption DEF IInv, StartIsEarly, TypeOK, Time, Unset, Start
  <2>2. wake_at = start_us + Offset(capture, position + 1)
    BY DEF IInv, WakesWhenDue, Due
  <2> DEFINE gap == capture[position + 1].timestamp_us - capture[1].timestamp_us
  <2>3. gap \in Nat
    BY <2>1, OffsetBound DEF IInv
  <2>4. Span(capture) \in Nat /\ gap <= Span(capture)
    BY <2>1, SpanIsReached DEF IInv
  <2>5. Offset(capture, position + 1) = gap \div Speed
    BY DEF Offset
  <2> HIDE DEF gap
  <2>6. gap \div Speed <= Span(capture) \div Speed
    BY <2>3, <2>4, QuotientMonotone, EngineAssumption
  <2>7. gap \div Speed \in Nat /\ Span(capture) \div Speed \in Nat
    BY <2>3, <2>4, Division, EngineAssumption
  <2>8. QED
    BY <2>1, <2>2, <2>5, <2>6, <2>7
<1>2. QED
  BY <1>1, Invariance, PTL

-----------------------------------------------------------------------------
(* A step of the engine is a step of a sequential replay, or none.         *)
LEMMA StepRefines ==
  ASSUME IInv, Next
  PROVE  [Replay!Next]_(Replay!vars)
<1> USE DEF Replay!Next, Replay!vars
<1>1. CASE StartRun
  <2>1. Len(capture') \in Nat
    BY <1>1, EngineAssumption DEF StartRun
  <2>2. QED
    BY <1>1, <2>1 DEF StartRun, Replay!Begin
<1>2. CASE TakePacket
  BY <1>2 DEF TakePacket
<1>3. CASE TakeBarePacket
  BY <1>3 DEF TakeBarePacket, Replay!Die
<1>4. CASE SendPacket
  <2>1. sent_count' \in {sent_count, sent_count + 1}
    <3>1. PICK e \in Call : sent_count' = sent_count + (IF e.ok THEN 1 ELSE 0)
      BY <1>4, SendRecorded
    <3>2. sent_count \in Nat
      BY <3>1, CountCall DEF IInv, TypeOK, HistoryOK
    <3>3. QED
      BY <3>1, <3>2
  <2>2. QED
    BY <1>4, <2>1 DEF SendPacket, Replay!Attempt, IInv, StartIsEarly
<1>5. CASE EndRun
  BY <1>5 DEF EndRun, Replay!Finish
<1>6. CASE Tick
  BY <1>6 DEF Tick
<1>7. QED
  BY <1>1, <1>2, <1>3, <1>4, <1>5, <1>6 DEF Next, Loop

(* The engine implements a sequential replay, whatever holds it up.        *)
THEOREM Refinement == Spec => ImplementsSequentialReplay
<1>1. Init => Replay!Init
  BY DEF Init, Replay!Init
<1>2. IInv /\ [Next]_vars => [Replay!Next]_(Replay!vars)
  <2> SUFFICES ASSUME IInv, [Next]_vars PROVE [Replay!Next]_(Replay!vars)
    OBVIOUS
  <2>1. CASE Next
    BY <2>1, StepRefines
  <2>2. CASE UNCHANGED vars
    BY <2>2 DEF vars, Replay!vars
  <2>3. QED
    BY <2>1, <2>2
<1>3. QED
  BY <1>1, <1>2, Invariance, PTL DEF Spec, ImplementsSequentialReplay, Replay!Spec

=============================================================================
