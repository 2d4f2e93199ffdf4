-------------------------- MODULE SyncControlProofs --------------------------
(***************************************************************************)
(* Theorems about SyncControl, for every set of devices, every interval,   *)
(* every limit of the policy and every bound.                              *)
(***************************************************************************)
EXTENDS SyncControl, TLAPS

-----------------------------------------------------------------------------
(* What the operators return. *)

LEMMA SentType ==
  ASSUME NEW S, NEW line \in Seq(S), NEW message \in S
  PROVE  Sent(line, message) \subseteq Seq(S)
  BY DEF Sent

LEMMA MeasurementType ==
  ASSUME NEW sent \in Nat, NEW at \in Nat, NEW offset \in Int, NEW received \in Nat
  PROVE  Measurement(sent, at, offset, received) \in Samples
  BY DEF Measurement, Samples

LEMMA HalfType == \A t \in Int : HalfTruncated(t) \in Int
  BY DEF HalfTruncated

LEMMA NothingType ==
  /\ NewSession \in Sessions
  /\ Unscheduled \in Schedules
  /\ NoSample \in Samples
  BY DEF NewSession, Sessions, SyncStates, Unscheduled, Schedules, NoSample, Samples

LEMMA RequestType ==
  ASSUME TypeOK, NEW d \in Devices, NEW o \in RequestSync(d)
  PROVE  /\ o.now \in Nat
         /\ o.sample \in Samples
         /\ o.toDevice \in Seq(Requests)
<1>1. CASE o \in Unanswered(d)
  <2>1. [device |-> d, sent |-> now] \in Requests
    BY DEF TypeOK, Requests
  <2>2. Sent(toDevice, [device |-> d, sent |-> now]) \subseteq Seq(Requests)
    BY <2>1, SentType DEF TypeOK
  <2> QED
    BY <1>1, <2>2 DEF Unanswered, TypeOK
<1>2. CASE o \in Echoed(d)
  <2>1. PICK there \in 0 .. MaxDelay, back \in 0 .. MaxDelay :
          o = [now |-> now + there + back,
               sample |-> Measurement(now, now + there, VirtualOffset(d), now + there + back),
               toDevice |-> toDevice]
    BY <1>2 DEF Echoed
  <2>2. VirtualOffset(d) \in Int
    BY HalfType DEF VirtualOffset, TypeOK, Samples
  <2>3. now \in Nat /\ now + there \in Nat /\ now + there + back \in Nat
    BY BoundsAssumption DEF TypeOK
  <2> QED
    BY <2>1, <2>2, <2>3, MeasurementType DEF TypeOK
<1> QED
  BY <1>1, <1>2 DEF RequestSync

LEMMA MeasuringType == \A state \in SyncStates : Measuring(state) \in SyncStates
  BY DEF Measuring, SyncStates

LEMMA StateType ==
  ASSUME NEW s \in Sessions, NEW state \in SyncStates
  PROVE  [s EXCEPT !.state = state] \in Sessions
  BY DEF Sessions

LEMMA StatesNamed ==
  "UNKNOWN" \in SyncStates /\ "MEASURING" \in SyncStates /\ "CALIBRATED" \in SyncStates
  /\ "MONITORING" \in SyncStates /\ "FAILED" \in SyncStates
  BY DEF SyncStates

LEMMA EvaluatedType ==
  ASSUME TypeOK, NEW d \in Devices, NEW s \in Samples, NEW decision
  PROVE  Evaluated(d, s, decision) \in Sessions
<1>1. Measuring(session[d].state) \in SyncStates
  BY MeasuringType DEF TypeOK, Sessions
<1>2. \A state \in SyncStates : EvaluatePolicy(state, decision) \in SyncStates
  BY DEF EvaluatePolicy, SyncStates
<1> QED
  BY <1>1, <1>2 DEF Evaluated, Sessions, Samples

LEMMA ScheduleTypes ==
  ASSUME NEW entry \in Schedules, NEW t \in Nat
  PROVE  /\ \A adaptive \in BOOLEAN : Scheduled(entry, t, adaptive) \in Schedules
         /\ MarkSynced(entry, t) \in Schedules
         /\ \A i \in Nat : Planned(entry, t, i) \in Schedules
         /\ NextIntervals(entry) \subseteq Nat
<1> USE IntervalsAssumption DEF Schedules
<1>1. \A adaptive \in BOOLEAN : Scheduled(entry, t, adaptive) \in Schedules
  BY DEF Scheduled
<1>2. MarkSynced(entry, t) \in Schedules
  <2>1. t + entry.interval \in Nat
    OBVIOUS
  <2>2. \A n \in Nat : [entry EXCEPT !.last = t, !.next = n] \in Schedules
    OBVIOUS
  <2> QED
    BY <2>1, <2>2, Zenon DEF MarkSynced
<1>3. ASSUME NEW i \in Nat PROVE Planned(entry, t, i) \in Schedules
  <2> DEFINE from == IF entry.adaptive /\ entry.last > 0 THEN entry.last ELSE t
  <2>1. from \in Nat
    <3>1. entry.last \in Nat
      OBVIOUS
    <3> QED
      BY <3>1, Zenon
  <2>2. \A n \in Nat : [entry EXCEPT !.interval = i, !.last = t, !.next = n] \in Schedules
    OBVIOUS
  <2>3. i + from \in Nat
    BY <2>1
  <2> QED
    BY <2>2, <2>3, Zenon DEF Planned
<1>4. NextIntervals(entry) \subseteq Nat
  BY DEF NextIntervals
<1> QED
  BY <1>1, <1>2, <1>3, <1>4

-----------------------------------------------------------------------------
(* Types *)

LEMMA NothingInMemoryType ==
  NothingInMemory => /\ up' \in BOOLEAN /\ due' \in SUBSET Devices
                     /\ session' \in [Devices -> Sessions]
                     /\ schedule' \in [Devices -> Schedules]
                     /\ sample' \in [Devices -> Samples]
  BY NothingType DEF NothingInMemory

LEMMA SnapshotType ==
  ASSUME TypeOK, NEW sessions \in [Devices -> Sessions]
  PROVE  Snapshot(sessions) \in Files
  BY DEF Snapshot, TypeOK, Files

LEMMA FileTypes ==
  ASSUME NEW file \in Files, NEW d \in Devices, NEW s \in Sessions
  PROVE  /\ [file EXCEPT !.session[d] = s] \in Files
         /\ \A entry \in Schedules :
              [file EXCEPT !.session[d] = s, !.schedule[d] = entry] \in Files
  BY DEF Files

LEMMA StateChanged ==
  ASSUME TypeOK, NEW d \in Devices, NEW state \in SyncStates
  PROVE  [session EXCEPT ![d].state = state] \in [Devices -> Sessions]
<1>1. [session[d] EXCEPT !.state = state] \in Sessions
  BY StateType DEF TypeOK
<1> QED
  BY <1>1 DEF TypeOK

LEMMA TypeInit == Init => TypeOK
<1> SUFFICES ASSUME Init PROVE TypeOK
  OBVIOUS
<1>1. /\ session \in [Devices -> Sessions] /\ schedule \in [Devices -> Schedules]
      /\ sample \in [Devices -> Samples]
  BY NothingType DEF Init
<1>2. disk \in Files
  BY <1>1 DEF Init, Snapshot, Files
<1>3. toDevice \in Seq(Requests) /\ toHost \in Seq(Responses)
  BY DEF Init
<1> QED
  BY <1>1, <1>2, <1>3 DEF Init, TypeOK

LEMMA TypeTrigger ==
  ASSUME TypeOK, NEW d \in Devices, Trigger(d) \/ CrashInTrigger(d)
  PROVE  TypeOK'
<1>1. CASE TriggerUnmeasured(d)
  <2>1. PICK o \in RequestSync(d) : now' = o.now /\ toDevice' = o.toDevice
    BY <1>1 DEF TriggerUnmeasured
  <2>2. now' \in Nat /\ toDevice' \in Seq(Requests)
    BY <2>1, RequestType
  <2>3. schedule' \in [Devices -> Schedules]
    BY <1>1, <2>2, ScheduleTypes DEF TriggerUnmeasured, TypeOK
  <2>4. session' \in [Devices -> Sessions]
    BY <1>1, MeasuringType DEF TriggerUnmeasured, TypeOK, Sessions
  <2> QED
    BY <1>1, <2>2, <2>3, <2>4 DEF TriggerUnmeasured, TypeOK
<1>2. CASE TriggerMeasured(d)
  <2>1. PICK o \in RequestSync(d), interval \in NextIntervals(schedule[d]) :
          /\ \E decision \in Decisions(o.sample) :
               session' = [session EXCEPT ![d] = Evaluated(d, o.sample, decision)]
          /\ now' = o.now
          /\ sample' = [sample EXCEPT ![d] = o.sample]
          /\ toDevice' = o.toDevice
          /\ disk' = [disk EXCEPT !.session[d] = session'[d],
                                  !.schedule[d] = Planned(schedule[d], o.now, interval)]
          /\ schedule' = [schedule EXCEPT
               ![d] = MarkSynced(Planned(schedule[d], o.now, interval), o.now)]
    BY <1>2 DEF TriggerMeasured
  <2>2. o.now \in Nat /\ o.sample \in Samples /\ o.toDevice \in Seq(Requests)
    BY RequestType
  <2>3. schedule[d] \in Schedules
    BY DEF TypeOK
  <2>4. interval \in Nat
    BY <2>2, <2>3, ScheduleTypes
  <2>5. Planned(schedule[d], o.now, interval) \in Schedules
    BY <2>2, <2>3, <2>4, ScheduleTypes
  <2>6. MarkSynced(Planned(schedule[d], o.now, interval), o.now) \in Schedules
    BY <2>2, <2>5, ScheduleTypes
  <2>7. session' \in [Devices -> Sessions]
    BY <2>1, <2>2, EvaluatedType DEF TypeOK
  <2>8. disk' \in Files
    BY <2>1, <2>5, <2>7, FileTypes DEF TypeOK
  <2>9. schedule' \in [Devices -> Schedules] /\ sample' \in [Devices -> Samples]
    BY <2>1, <2>2, <2>6 DEF TypeOK
  <2> QED
    BY <1>2, <2>1, <2>2, <2>7, <2>8, <2>9 DEF TriggerMeasured, TypeOK
<1>3. CASE TriggerRaises(d)
  <2>1. PICK o \in RequestSync(d) :
          /\ \E decision \in Decisions(o.sample) :
               disk' = Snapshot([session EXCEPT ![d] = Evaluated(d, o.sample, decision)])
          /\ now' = o.now
          /\ toDevice' = o.toDevice
    BY <1>3 DEF TriggerRaises
  <2>2. o.now \in Nat /\ o.sample \in Samples /\ o.toDevice \in Seq(Requests)
    BY RequestType
  <2>3. \A decision : [session EXCEPT ![d] = Evaluated(d, o.sample, decision)]
                        \in [Devices -> Sessions]
    BY <2>2, EvaluatedType DEF TypeOK
  <2>4. disk' \in Files
    BY <2>1, <2>3, SnapshotType
  <2> QED
    BY <1>3, <2>1, <2>2, <2>4, NothingInMemoryType DEF TriggerRaises, TypeOK
<1>4. CASE CrashInTrigger(d)
  <2>1. PICK o \in RequestSync(d) :
          /\ \E decision \in Decisions(o.sample) :
               disk' = [disk EXCEPT !.session[d] = Evaluated(d, o.sample, decision)]
          /\ now' = o.now
          /\ toDevice' = o.toDevice
    BY <1>4 DEF CrashInTrigger
  <2>2. o.now \in Nat /\ o.sample \in Samples /\ o.toDevice \in Seq(Requests)
    BY RequestType
  <2>3. \A decision : [disk EXCEPT !.session[d] = Evaluated(d, o.sample, decision)] \in Files
    <3> SUFFICES ASSUME NEW decision
                 PROVE  [disk EXCEPT !.session[d] = Evaluated(d, o.sample, decision)] \in Files
      OBVIOUS
    <3>1. Evaluated(d, o.sample, decision) \in Sessions
      BY <2>2, EvaluatedType
    <3>2. disk \in Files
      BY DEF TypeOK
    <3> QED
      BY <3>1, <3>2, FileTypes
  <2>4. disk' \in Files
    BY <2>1, <2>3
  <2>5. crashes' \in Nat
    BY <1>4 DEF CrashInTrigger, TypeOK
  <2> QED
    BY <1>4, <2>1, <2>2, <2>4, <2>5, NothingInMemoryType DEF CrashInTrigger, TypeOK
<1> QED
  BY <1>1, <1>2, <1>3, <1>4 DEF Trigger

\* The calls from outside.
Calls(d) ==
  \/ \E adaptive \in BOOLEAN : ScheduleDevice(d, adaptive)
  \/ Cancel(d) \/ Remove(d)
  \/ RecordCalibration(d) \/ EnterMonitoring(d) \/ Recover(d) \/ AttemptCorrection(d)

LEMMA TypeCall ==
  ASSUME TypeOK, NEW d \in Devices, Calls(d)
  PROVE  TypeOK'
<1>1. /\ schedule[d] \in Schedules /\ now \in Nat
      /\ session[d] \in Sessions /\ session[d].state \in SyncStates
  BY DEF TypeOK, Sessions
<1>2. calls' \in Nat /\ UNCHANGED <<now, up, due, sample, wire, crashes>>
  BY DEF Calls, ScheduleDevice, Cancel, Remove, RecordCalibration, EnterMonitoring, Recover,
         AttemptCorrection, Call, TypeOK
<1>3. ASSUME /\ session' \in [Devices -> Sessions]
             /\ schedule' \in [Devices -> Schedules]
             /\ disk' \in Files
      PROVE  TypeOK'
  BY <1>2, <1>3 DEF TypeOK, wire
<1>4. ASSUME NEW state \in SyncStates, session' = [session EXCEPT ![d].state = state],
             UNCHANGED <<schedule, disk>>
      PROVE  TypeOK'
  BY <1>3, <1>4, StateChanged DEF TypeOK
<1>5. ASSUME NEW adaptive \in BOOLEAN, ScheduleDevice(d, adaptive) PROVE TypeOK'
  <2>1. Scheduled(schedule[d], now, adaptive) \in Schedules
    BY <1>1, ScheduleTypes
  <2>2. schedule' \in [Devices -> Schedules]
    BY <1>5, <2>1 DEF ScheduleDevice, TypeOK
  <2>3. session' = [session EXCEPT ![d].state =
                      IF session[d].state = "UNKNOWN" THEN "MEASURING" ELSE session[d].state]
    BY <1>5 DEF ScheduleDevice
  <2>4. session' \in [Devices -> Sessions]
    BY <1>1, <2>3, StateChanged, StatesNamed
  <2> QED
    BY <1>3, <1>5, <2>2, <2>4 DEF ScheduleDevice, TypeOK
<1>6. CASE Cancel(d) \/ Remove(d)
  <2>1. [schedule[d] EXCEPT !.enabled = FALSE] \in Schedules
    BY <1>1 DEF Schedules
  <2>2. schedule' \in [Devices -> Schedules]
    BY <1>6, <2>1, NothingType DEF Cancel, Remove, TypeOK
  <2> QED
    BY <1>3, <1>6, <2>2 DEF Cancel, Remove, TypeOK
<1>7. CASE RecordCalibration(d) \/ EnterMonitoring(d) \/ Recover(d)
  BY <1>4, <1>7, StatesNamed DEF RecordCalibration, EnterMonitoring, Recover
<1>8. CASE AttemptCorrection(d)
  <2>1. PICK state \in SyncStates : session' = [session EXCEPT ![d].state = state]
    BY <1>1, <1>8, StatesNamed DEF AttemptCorrection
  <2>2. session' \in [Devices -> Sessions]
    BY <2>1, StateChanged
  <2>3. disk' \in Files
    BY <1>8, <2>2, FileTypes DEF AttemptCorrection, TypeOK
  <2> QED
    BY <1>3, <1>8, <2>2, <2>3 DEF AttemptCorrection, TypeOK
<1> QED
  BY <1>5, <1>6, <1>7, <1>8 DEF Calls

LEMMA TypeStep == TypeOK /\ [Next]_vars => TypeOK'
<1> SUFFICES ASSUME TypeOK, [Next]_vars PROVE TypeOK'
  OBVIOUS
<1>1. CASE Startup
  <2>1. schedule' \in [Devices -> Schedules]
    BY <1>1, ScheduleTypes DEF Startup, TypeOK, Files
  <2>2. \A s \in Sessions : [s EXCEPT !.state = "MEASURING"] \in Sessions
                          /\ [s EXCEPT !.state = s.state] \in Sessions
    BY StateType, StatesNamed DEF Sessions
  <2>3. disk.session \in [Devices -> Sessions]
    BY DEF TypeOK, Files
  <2>4. ASSUME NEW d \in Devices
        PROVE  [disk.session[d] EXCEPT !.state =
                  IF d \notin Physical /\ disk.session[d].state = "UNKNOWN"
                  THEN "MEASURING" ELSE disk.session[d].state] \in Sessions
    BY <2>2, <2>3
  <2>5. session' \in [Devices -> Sessions]
    BY <1>1, <2>4 DEF Startup
  <2> QED
    BY <1>1, <2>1, <2>5 DEF Startup, TypeOK, wire
<1>2. CASE Poll
  BY <1>2 DEF Poll, DueDevices, TypeOK, wire
<1>3. CASE ReceiveResponse
  <2>1. Head(toHost) \in Responses /\ Tail(toHost) \in Seq(Responses)
    BY <1>3 DEF ReceiveResponse, TypeOK
  <2>2. Measurement(Head(toHost).sent, Head(toHost).at, Head(toHost).offset, now) \in Samples
    BY <2>1, MeasurementType DEF Responses, TypeOK
  <2> QED
    BY <1>3, <2>1, <2>2 DEF ReceiveResponse, DueDevices, TypeOK
<1>4. CASE Crash
  <2>1. disk' \in Files
    BY <1>4 DEF Crash, CutOff, TypeOK, Files
  <2> QED
    BY <1>4, <2>1, NothingInMemoryType DEF Crash, TypeOK, wire
<1>5. CASE Shutdown
  <2>1. disk' \in Files
    BY <1>5, SnapshotType DEF Shutdown, TypeOK
  <2> QED
    BY <1>5, <2>1, NothingInMemoryType DEF Shutdown, TypeOK, wire
<1>6. CASE HandleSyncRequest
  <2>1. Head(toDevice) \in Requests /\ Tail(toDevice) \in Seq(Requests)
    BY <1>6 DEF HandleSyncRequest, TypeOK
  <2>2. PICK sent \in Nat, offset \in Offsets :
          toHost' \in Sent(toHost, [device |-> Head(toDevice).device, sent |-> sent,
                                    at |-> now, offset |-> offset])
    BY <1>6, <2>1 DEF HandleSyncRequest, Requests
  <2>3. [device |-> Head(toDevice).device, sent |-> sent, at |-> now, offset |-> offset]
          \in Responses
    BY <2>1, OffsetsAssumption DEF Requests, Responses, TypeOK
  <2>4. toHost' \in Seq(Responses)
    BY <2>2, <2>3, SentType DEF TypeOK
  <2> QED
    BY <1>6, <2>1, <2>4 DEF HandleSyncRequest, TypeOK
<1>7. CASE Tick
  BY <1>7 DEF Tick, TypeOK, wire
<1>8. CASE UNCHANGED vars
  BY <1>8 DEF vars, TypeOK
<1> QED
  BY <1>1, <1>2, <1>3, <1>4, <1>5, <1>6, <1>7, <1>8, TypeTrigger, TypeCall
  DEF Next, Trigger, Calls

\* Every state the engine, its file and the wire reach is of its type.
THEOREM TypeCorrect == Spec => []TypeOK
  BY TypeInit, TypeStep, PTL DEF Spec

-----------------------------------------------------------------------------
(* Accuracy: a device read its clock after the request was sent and before  *)
(* the answer arrived, whatever was lost or late in between.                *)

Accurate(s) == LET error == s.twice - 2 * s.offset
               IN  error <= s.trip /\ -error <= s.trip

SentInThePast(line) == \A i \in 1 .. Len(line) : line[i].sent <= now
ReadInBetween(line) ==
  \A i \in 1 .. Len(line) : line[i].sent <= line[i].at /\ line[i].at <= now

AccuracyInv ==
  /\ SentInThePast(toDevice)
  /\ ReadInBetween(toHost)
  /\ \A d \in Devices : Accurate(sample[d])

\* The midpoint rule: a clock read between two times is off by at most half of what lies
\* between them.
LEMMA MidpointRule ==
  ASSUME NEW sent \in Nat, NEW at \in Nat, NEW offset \in Int, NEW received \in Nat,
         sent <= at, at <= received
  PROVE  Accurate(Measurement(sent, at, offset, received))
<1> DEFINE m == Measurement(sent, at, offset, received)
<1>1. m.trip = received - sent /\ m.offset = offset
  BY DEF Measurement
<1>2. m.twice = 2 * (at + offset) - (2 * sent + (received - sent))
  BY DEF Measurement
<1> QED
  BY <1>1, <1>2 DEF Accurate

\* What is on a line has its type.
LEMMA LineTypes ==
  /\ \A line \in Seq(Requests) : \A i \in 1 .. Len(line) : line[i].sent \in Nat
  /\ \A line \in Seq(Responses) : \A i \in 1 .. Len(line) :
       line[i].sent \in Nat /\ line[i].at \in Nat
<1>1. ASSUME NEW line \in Seq(Requests), NEW i \in 1 .. Len(line) PROVE line[i].sent \in Nat
  <2>1. line[i] \in Requests
    OBVIOUS
  <2> QED
    BY <2>1 DEF Requests
<1>2. ASSUME NEW line \in Seq(Responses), NEW i \in 1 .. Len(line)
      PROVE  line[i].sent \in Nat /\ line[i].at \in Nat
  <2>1. line[i] \in Responses
    OBVIOUS
  <2> QED
    BY <2>1 DEF Responses
<1> QED
  BY <1>1, <1>2

LEMMA RequestAccurate ==
  ASSUME TypeOK, AccuracyInv, NEW d \in Devices, NEW o \in RequestSync(d)
  PROVE  /\ now <= o.now
         /\ Accurate(o.sample)
         /\ \A i \in 1 .. Len(o.toDevice) : o.toDevice[i].sent <= now
<1>1. CASE o \in Unanswered(d)
  <2> DEFINE message == [device |-> d, sent |-> now]
  <2>1. now \in Nat /\ toDevice \in Seq(Requests) /\ message \in Requests
    BY DEF TypeOK, Requests
  <2>2. /\ o.now = now /\ o.sample = sample[d]
        /\ o.toDevice = toDevice \/ o.toDevice = Append(toDevice, message)
    BY <1>1 DEF Unanswered, Sent
  <2>3. \A i \in 1 .. Len(Append(toDevice, message)) : Append(toDevice, message)[i].sent <= now
    BY <2>1 DEF AccuracyInv, SentInThePast
  <2>4. \A i \in 1 .. Len(toDevice) : toDevice[i].sent <= now
    BY DEF AccuracyInv, SentInThePast
  <2> HIDE DEF message
  <2>5. \A i \in 1 .. Len(o.toDevice) : o.toDevice[i].sent <= now
    BY <2>2, <2>3, <2>4
  <2> QED
    BY <2>1, <2>2, <2>5 DEF AccuracyInv
<1>2. CASE o \in Echoed(d)
  <2>1. PICK there \in 0 .. MaxDelay, back \in 0 .. MaxDelay :
          o = [now |-> now + there + back,
               sample |-> Measurement(now, now + there, VirtualOffset(d), now + there + back),
               toDevice |-> toDevice]
    BY <1>2 DEF Echoed
  <2>2. VirtualOffset(d) \in Int
    BY HalfType DEF VirtualOffset, TypeOK, Samples
  <2>3. /\ now \in Nat /\ now + there \in Nat /\ now + there + back \in Nat
        /\ now <= now + there /\ now + there <= now + there + back
    BY BoundsAssumption DEF TypeOK
  <2>4. Accurate(o.sample)
    BY <2>1, <2>2, <2>3, MidpointRule
  <2> QED
    BY <2>1, <2>3, <2>4 DEF AccuracyInv, SentInThePast
<1> QED
  BY <1>1, <1>2 DEF RequestSync

LEMMA NoSampleAccurate == Accurate(NoSample)
  BY DEF Accurate, NoSample

LEMMA AccuracyInit == Init => AccuracyInv
  BY NoSampleAccurate DEF Init, AccuracyInv, SentInThePast, ReadInBetween

\* Time goes on, and what is on the wire stays as it is.
LEMMA LinesAge ==
  ASSUME TypeOK, AccuracyInv, now' \in Nat, now <= now'
  PROVE  /\ UNCHANGED toDevice => SentInThePast(toDevice)'
         /\ UNCHANGED toHost => ReadInBetween(toHost)'
<1>1. ASSUME UNCHANGED toDevice, NEW i \in 1 .. Len(toDevice) PROVE toDevice[i].sent <= now'
  <2>1. toDevice[i].sent \in Nat /\ now \in Nat
    BY LineTypes DEF TypeOK
  <2> QED
    BY <2>1 DEF AccuracyInv, SentInThePast
<1>2. ASSUME UNCHANGED toHost, NEW i \in 1 .. Len(toHost)
      PROVE  toHost[i].sent <= toHost[i].at /\ toHost[i].at <= now'
  <2>1. toHost[i].at \in Nat /\ now \in Nat
    BY LineTypes DEF TypeOK
  <2> QED
    BY <2>1 DEF AccuracyInv, ReadInBetween
<1> QED
  BY <1>1, <1>2 DEF SentInThePast, ReadInBetween

LEMMA AccuracyStep == TypeOK /\ TypeOK' /\ AccuracyInv /\ [Next]_vars => AccuracyInv'
<1> SUFFICES ASSUME TypeOK, TypeOK', AccuracyInv, [Next]_vars PROVE AccuracyInv'
  OBVIOUS
<1> USE DEF wire
<1>1. now \in Nat /\ now' \in Nat
  BY DEF TypeOK
<1>2. ASSUME NEW d \in Devices, Trigger(d) \/ CrashInTrigger(d) PROVE AccuracyInv'
  <2>1. PICK o \in RequestSync(d) :
          /\ now' = o.now /\ toDevice' = o.toDevice
          /\ \/ sample' \in {sample, [sample EXCEPT ![d] = o.sample]}
             \/ NothingInMemory
    BY <1>2 DEF Trigger, TriggerUnmeasured, TriggerMeasured, TriggerRaises, CrashInTrigger
  <2>2. /\ now <= now' /\ Accurate(o.sample)
        /\ \A i \in 1 .. Len(o.toDevice) : o.toDevice[i].sent <= now
    BY <2>1, RequestAccurate
  <2>3. UNCHANGED toHost
    BY <1>2 DEF Trigger, TriggerUnmeasured, TriggerMeasured, TriggerRaises, CrashInTrigger
  <2>4. ReadInBetween(toHost)'
    BY <1>1, <2>2, <2>3, LinesAge
  <2>5. SentInThePast(toDevice)'
    <3>1. \A i \in 1 .. Len(toDevice') : toDevice'[i].sent \in Nat
      BY LineTypes DEF TypeOK
    <3> QED
      BY <1>1, <2>1, <2>2, <3>1 DEF SentInThePast
  <2>6. ASSUME NEW e \in Devices PROVE Accurate(sample'[e])
    BY <2>1, <2>2, NoSampleAccurate DEF NothingInMemory, AccuracyInv, TypeOK
  <2> QED
    BY <2>4, <2>5, <2>6 DEF AccuracyInv, Accurate
<1>3. ASSUME NEW d \in Devices, Calls(d) PROVE AccuracyInv'
  <2>1. UNCHANGED <<now, sample, wire>>
    BY <1>3 DEF Calls, ScheduleDevice, Cancel, Remove, RecordCalibration, EnterMonitoring,
                Recover, AttemptCorrection, Call
  <2> QED
    BY <2>1 DEF AccuracyInv, SentInThePast, ReadInBetween, Accurate
<1>4. CASE Startup \/ Poll \/ UNCHANGED vars
  <2>1. UNCHANGED <<now, sample, wire>>
    BY <1>4 DEF Startup, Poll, vars
  <2> QED
    BY <2>1 DEF AccuracyInv, SentInThePast, ReadInBetween, Accurate
<1>5. CASE Crash \/ Shutdown
  <2>1. UNCHANGED <<now, wire>> /\ sample' = [d \in Devices |-> NoSample]
    BY <1>5 DEF Crash, Shutdown, NothingInMemory
  <2>2. \A d \in Devices : sample'[d] = NoSample
    BY <2>1
  <2> QED
    BY <2>1, <2>2, NoSampleAccurate DEF AccuracyInv, SentInThePast, ReadInBetween, Accurate
<1>6. CASE ReceiveResponse
  <2> DEFINE r == Head(toHost)
  <2>1. r \in Responses /\ r.sent <= r.at /\ r.at <= now
    BY <1>6 DEF ReceiveResponse, TypeOK, AccuracyInv, ReadInBetween
  <2>2. Accurate(Measurement(r.sent, r.at, r.offset, now))
    BY <1>1, <2>1, MidpointRule DEF Responses
  <2>3. \A d \in Devices : sample'[d] \in {sample[d], Measurement(r.sent, r.at, r.offset, now)}
    BY <1>6 DEF ReceiveResponse, TypeOK
  <2>4. \A i \in 1 .. Len(Tail(toHost)) : i + 1 \in 1 .. Len(toHost)
                                       /\ Tail(toHost)[i] = toHost[i + 1]
    BY <1>6 DEF ReceiveResponse, TypeOK
  <2>5. ReadInBetween(toHost)'
    BY <1>6, <2>4 DEF ReceiveResponse, AccuracyInv, ReadInBetween
  <2>6. \A d \in Devices : Accurate(sample'[d])
    BY <2>2, <2>3 DEF AccuracyInv
  <2>7. SentInThePast(toDevice)'
    BY <1>6 DEF ReceiveResponse, AccuracyInv, SentInThePast
  <2> QED
    BY <2>5, <2>6, <2>7 DEF AccuracyInv, Accurate
<1>7. CASE HandleSyncRequest
  <2>1. Head(toDevice) \in Requests /\ Head(toDevice).sent <= now
    BY <1>7 DEF HandleSyncRequest, TypeOK, AccuracyInv, SentInThePast
  <2>2. PICK echo \in Nat, offset \in Offsets :
          /\ echo <= now
          /\ toHost' \in Sent(toHost, [device |-> Head(toDevice).device, sent |-> echo,
                                       at |-> now, offset |-> offset])
    BY <1>1, <1>7, <2>1 DEF HandleSyncRequest, Requests
  <2> DEFINE message == [device |-> Head(toDevice).device, sent |-> echo,
                         at |-> now, offset |-> offset]
  <2>3. toHost \in Seq(Responses) /\ message \in Responses
    BY <1>1, <2>1, OffsetsAssumption DEF TypeOK, Requests, Responses
  <2>4. \A i \in 1 .. Len(Append(toHost, message)) :
          LET line == Append(toHost, message) IN line[i].sent <= line[i].at /\ line[i].at <= now
    BY <1>1, <2>2, <2>3 DEF AccuracyInv, ReadInBetween
  <2>5. ReadInBetween(toHost)'
    BY <1>7, <2>2, <2>4 DEF HandleSyncRequest, Sent, AccuracyInv, ReadInBetween
  <2>6. \A i \in 1 .. Len(Tail(toDevice)) : i + 1 \in 1 .. Len(toDevice)
                                         /\ Tail(toDevice)[i] = toDevice[i + 1]
    BY <1>7 DEF HandleSyncRequest, TypeOK
  <2>7. SentInThePast(toDevice)'
    BY <1>7, <2>6 DEF HandleSyncRequest, AccuracyInv, SentInThePast
  <2> QED
    BY <1>7, <2>5, <2>7 DEF HandleSyncRequest, AccuracyInv, Accurate
<1>8. CASE Tick
  <2>1. now <= now' /\ UNCHANGED <<sample, wire>>
    BY <1>1, <1>8 DEF Tick
  <2>2. SentInThePast(toDevice)' /\ ReadInBetween(toHost)'
    BY <1>1, <2>1, LinesAge
  <2> QED
    BY <2>1, <2>2 DEF AccuracyInv, Accurate
<1> QED
  BY <1>2, <1>3, <1>4, <1>5, <1>6, <1>7, <1>8 DEF Next, Trigger, Calls

\* Every estimate is within half of its round trip of the offset there was.
THEOREM EstimatesAreAccurate == Spec => []OffByHalfTheTripAtMost
<1>1. TypeOK /\ AccuracyInv => OffByHalfTheTripAtMost
  BY DEF AccuracyInv, Accurate, OffByHalfTheTripAtMost
<1> QED
  BY <1>1, TypeCorrect, AccuracyInit, AccuracyStep, PTL DEF Spec

-----------------------------------------------------------------------------
(* Sessions: what is known of a device in memory and in the file.           *)

\* A trigger measures in MEASURING or where it was, and never in MONITORING.
LEMMA MeasuringStates ==
  ASSUME NEW state \in SyncStates \ {"CORRECTION_READY"}
  PROVE  /\ Measuring(state) \in {"MEASURING", "FAILED"}
         /\ Measuring(state) = "FAILED" <=> state = "FAILED"
  BY DEF Measuring, SyncStates

\* Only a session that has failed cannot fail.
LEMMA OnlyFailedRaises ==
  ASSUME NEW state \in {"MEASURING", "FAILED"}, NEW decision
  PROVE  Raises(state, decision) <=> decision = "reject" /\ state = "FAILED"
  BY DEF Raises, ValidTransitions

LEMMA EvaluatedStates ==
  ASSUME TypeOK, NeverReadyForCorrection, NEW d \in Devices, NEW s, NEW decision
  PROVE  /\ Evaluated(d, s, decision).syncTime = s.time
         /\ Evaluated(d, s, decision).state \in {"MEASURING", "FAILED"}
         /\ session[d].state = "FAILED" => Evaluated(d, s, decision).state = "FAILED"
         /\ Raises(Measuring(session[d].state), decision) => session[d].state = "FAILED"
<1>1. session[d].state \in SyncStates \ {"CORRECTION_READY"}
  BY DEF TypeOK, Sessions, NeverReadyForCorrection
<1>2. /\ Measuring(session[d].state) \in {"MEASURING", "FAILED"}
      /\ Measuring(session[d].state) = "FAILED" <=> session[d].state = "FAILED"
  BY <1>1, MeasuringStates
<1>3. Raises(Measuring(session[d].state), decision) <=>
        decision = "reject" /\ Measuring(session[d].state) = "FAILED"
  BY <1>2, OnlyFailedRaises
<1> QED
  BY <1>2, <1>3 DEF Evaluated, EvaluatePolicy

\* The file has what the engine would have to remember, and no sample is older than the
\* one that counted last.
KnownInv ==
  /\ NeverReadyForCorrection
  /\ ~up => due = {}
  /\ up => \A d \in Devices :
       /\ session[d].syncTime = disk.session[d].syncTime
       /\ session[d].state = "FAILED" => disk.session[d].state = "FAILED"
  /\ \A d \in Devices :
       /\ Known(d).syncTime <= now
       /\ sample[d] # NoSample =>
            up /\ Known(d).syncTime <= sample[d].time /\ sample[d].time <= now

LEMMA RequestTimes ==
  ASSUME TypeOK, NEW d \in Devices, NEW o \in RequestSync(d)
  PROVE  now <= o.now /\ (o.sample = sample[d] \/ (now <= o.sample.time /\ o.sample.time <= o.now))
<1>1. CASE o \in Unanswered(d)
  BY <1>1 DEF Unanswered, TypeOK
<1>2. CASE o \in Echoed(d)
  <2>1. PICK there \in 0 .. MaxDelay, back \in 0 .. MaxDelay :
          o = [now |-> now + there + back,
               sample |-> Measurement(now, now + there, VirtualOffset(d), now + there + back),
               toDevice |-> toDevice]
    BY <1>2 DEF Echoed
  <2>2. now \in Nat /\ now <= now + there + back
    BY BoundsAssumption DEF TypeOK
  <2> QED
    BY <2>1, <2>2 DEF Measurement
<1> QED
  BY <1>1, <1>2 DEF RequestSync

\* What a trigger does to what is known: nothing, or it counts a sample for d.
TriggerResult(d, o) ==
  /\ now' = o.now
  /\ \/ TriggerUnmeasured(d) /\ o.sample = NoSample
     \/ /\ o.sample # NoSample
        /\ \E decision \in Decisions(o.sample) :
             LET result == Evaluated(d, o.sample, decision) IN
               \/ /\ ~Raises(Measuring(session[d].state), decision)
                  /\ TriggerMeasured(d)
                  /\ session' = [session EXCEPT ![d] = result]
                  /\ sample' = [sample EXCEPT ![d] = o.sample]
                  /\ disk'.session = [disk.session EXCEPT ![d] = result]
               \/ /\ ~Raises(Measuring(session[d].state), decision)
                  /\ CrashInTrigger(d)
                  /\ disk'.session = [disk.session EXCEPT ![d] = result]
               \/ /\ Raises(Measuring(session[d].state), decision)
                  /\ TriggerRaises(d)
                  /\ disk'.session = [session EXCEPT ![d] = result]

LEMMA TriggerCases ==
  ASSUME TypeOK, NEW d \in Devices, Trigger(d) \/ CrashInTrigger(d)
  PROVE  \E o \in RequestSync(d) : TriggerResult(d, o)
<1>1. CASE TriggerUnmeasured(d)
  BY <1>1 DEF TriggerUnmeasured, TriggerResult
<1>2. CASE TriggerMeasured(d)
  <2>1. PICK o \in RequestSync(d), interval \in NextIntervals(schedule[d]) :
          /\ o.sample # NoSample
          /\ \E decision \in Decisions(o.sample) :
               /\ ~Raises(Measuring(session[d].state), decision)
               /\ session' = [session EXCEPT ![d] = Evaluated(d, o.sample, decision)]
          /\ now' = o.now
          /\ sample' = [sample EXCEPT ![d] = o.sample]
          /\ disk' = [disk EXCEPT !.session[d] = session'[d],
                                  !.schedule[d] = Planned(schedule[d], o.now, interval)]
    BY <1>2 DEF TriggerMeasured
  <2>2. PICK decision \in Decisions(o.sample) :
          /\ ~Raises(Measuring(session[d].state), decision)
          /\ session' = [session EXCEPT ![d] = Evaluated(d, o.sample, decision)]
    BY <2>1
  <2>3. session'[d] = Evaluated(d, o.sample, decision)
    BY <2>2 DEF TypeOK
  <2>4. disk'.session = [disk.session EXCEPT ![d] = session'[d]]
    BY <2>1 DEF TypeOK, Files
  <2>5. disk'.session = [disk.session EXCEPT ![d] = Evaluated(d, o.sample, decision)]
    BY <2>3, <2>4
  <2>6. o.sample # NoSample /\ now' = o.now /\ sample' = [sample EXCEPT ![d] = o.sample]
    BY <2>1
  <2> QED
    BY <1>2, <2>2, <2>5, <2>6, Zenon DEF TriggerResult
<1>3. CASE TriggerRaises(d)
  <2>1. PICK o \in RequestSync(d) :
          /\ o.sample # NoSample
          /\ now' = o.now
          /\ \E decision \in Decisions(o.sample) :
               /\ Raises(Measuring(session[d].state), decision)
               /\ disk' = Snapshot([session EXCEPT ![d] = Evaluated(d, o.sample, decision)])
    BY <1>3 DEF TriggerRaises
  <2>2. PICK decision \in Decisions(o.sample) :
          /\ Raises(Measuring(session[d].state), decision)
          /\ disk' = Snapshot([session EXCEPT ![d] = Evaluated(d, o.sample, decision)])
    BY <2>1
  <2>3. disk'.session = [session EXCEPT ![d] = Evaluated(d, o.sample, decision)]
    BY <2>2 DEF Snapshot
  <2> QED
    BY <1>3, <2>1, <2>2, <2>3, Zenon DEF TriggerResult
<1>4. CASE CrashInTrigger(d)
  <2>1. PICK o \in RequestSync(d) :
          /\ o.sample # NoSample
          /\ now' = o.now
          /\ \E decision \in Decisions(o.sample) :
               /\ ~Raises(Measuring(session[d].state), decision)
               /\ disk' = [disk EXCEPT !.session[d] = Evaluated(d, o.sample, decision)]
    BY <1>4 DEF CrashInTrigger
  <2>2. PICK decision \in Decisions(o.sample) :
          /\ ~Raises(Measuring(session[d].state), decision)
          /\ disk' = [disk EXCEPT !.session[d] = Evaluated(d, o.sample, decision)]
    BY <2>1
  <2>3. disk'.session = [disk.session EXCEPT ![d] = Evaluated(d, o.sample, decision)]
    BY <2>2 DEF TypeOK, Files
  <2> QED
    BY <1>4, <2>1, <2>2, <2>3 DEF TriggerResult
<1> QED
  BY <1>1, <1>2, <1>3, <1>4 DEF Trigger

\* What a step may not do to what is known, apart from Recover.
KeepsFailed(d) == Known(d).state = "FAILED" => Known(d)'.state = "FAILED"
KeepsTime(d) == Known(d).syncTime <= Known(d)'.syncTime

\* A step that keeps every session, its copy in the file and every sample.
LEMMA NothingLearned ==
  ASSUME TypeOK, KnownInv, UNCHANGED <<up, session, sample>>, disk'.session = disk.session,
         up \/ due' = {}, now' \in Nat, now <= now'
  PROVE  KnownInv' /\ \A d \in Devices : KeepsFailed(d) /\ KeepsTime(d)
<1>1. ASSUME NEW d \in Devices
      PROVE  /\ Known(d)' = Known(d) /\ Known(d).syncTime \in Nat /\ now \in Nat
             /\ sample[d].time \in Nat
  BY DEF Known, TypeOK, Files, Sessions, Samples
<1> QED
  BY <1>1 DEF KnownInv, NeverReadyForCorrection, KeepsFailed, KeepsTime

\* A step after which the engine is gone, and the file knows what the engine knew.
LEMMA Forgotten ==
  ASSUME TypeOK, KnownInv, NothingInMemory, now' \in Nat, now <= now',
         \A d \in Devices :
           /\ disk'.session[d].state # "CORRECTION_READY"
           /\ disk'.session[d].syncTime <= now'
           /\ Known(d).state = "FAILED" => disk'.session[d].state = "FAILED"
           /\ Known(d).syncTime <= disk'.session[d].syncTime
  PROVE  KnownInv' /\ \A d \in Devices : KeepsFailed(d) /\ KeepsTime(d)
<1>1. ASSUME NEW d \in Devices
      PROVE  /\ Known(d)' = disk'.session[d]
             /\ session'[d].state = "UNKNOWN" /\ sample'[d] = NoSample
  BY DEF Known, NothingInMemory, NewSession
<1>2. ~up' /\ due' = {}
  BY DEF NothingInMemory
<1> QED
  BY <1>1, <1>2 DEF KnownInv, NeverReadyForCorrection, KeepsFailed, KeepsTime

LEMMA TriggerLearns ==
  ASSUME TypeOK, TypeOK', KnownInv, NEW d \in Devices, Trigger(d) \/ CrashInTrigger(d)
  PROVE  KnownInv' /\ \A e \in Devices : KeepsFailed(e) /\ KeepsTime(e)
<1>1. PICK o \in RequestSync(d) : TriggerResult(d, o)
  BY TriggerCases
<1>2. /\ now \in Nat /\ now' \in Nat /\ now <= now'
      /\ o.sample = sample[d] \/ (now <= o.sample.time /\ o.sample.time <= now')
      /\ o.sample.time \in Nat
  BY <1>1, RequestTimes, RequestType DEF TriggerResult, TypeOK, Samples
<1>3. up
  BY <1>1 DEF TriggerResult, TriggerUnmeasured, TriggerMeasured, CrashInTrigger, TriggerRaises,
              KnownInv
<1>4. ASSUME NEW e \in Devices
      PROVE  /\ Known(e) = session[e] /\ session[e].syncTime = disk.session[e].syncTime
             /\ session[e].state = "FAILED" => disk.session[e].state = "FAILED"
             /\ session[e].state # "CORRECTION_READY"
             /\ disk.session[e].state # "CORRECTION_READY"
             /\ session[e].syncTime \in Nat /\ session[e].syncTime <= now
             /\ sample[e].time \in Nat
             /\ sample[e] # NoSample =>
                  session[e].syncTime <= sample[e].time /\ sample[e].time <= now
  BY <1>3 DEF Known, KnownInv, NeverReadyForCorrection, TypeOK, Sessions, Samples
<1>5. /\ session \in [Devices -> Sessions] /\ disk.session \in [Devices -> Sessions]
      /\ sample \in [Devices -> Samples]
  BY DEF TypeOK, Files
<1>6. CASE TriggerUnmeasured(d)
  <2>1. up' /\ disk' = disk /\ sample' = sample
        /\ session' = [session EXCEPT ![d].state = Measuring(session[d].state)]
    BY <1>3, <1>6 DEF TriggerUnmeasured
  <2>2. /\ Measuring(session[d].state) \in {"MEASURING", "FAILED"}
        /\ Measuring(session[d].state) = "FAILED" <=> session[d].state = "FAILED"
    BY <1>4, <1>5, MeasuringStates DEF Sessions
  <2>3. ASSUME NEW e \in Devices
        PROVE  /\ session'[e].syncTime = session[e].syncTime
               /\ session'[e].state = "FAILED" <=> session[e].state = "FAILED"
               /\ session'[e].state # "CORRECTION_READY"
               /\ Known(e)' = session'[e]
    BY <1>4, <1>5, <2>1, <2>2 DEF Known, Sessions
  <2>4. \A e \in Devices : KeepsFailed(e) /\ KeepsTime(e)
    BY <1>4, <2>3 DEF KeepsFailed, KeepsTime
  <2>5. \A e \in Devices : session'[e].syncTime <= now'
                         /\ (sample[e] # NoSample => sample[e].time <= now')
    BY <1>2, <1>4, <2>3
  <2> QED
    BY <1>4, <2>1, <2>3, <2>4, <2>5 DEF KnownInv, NeverReadyForCorrection
<1>7. CASE o.sample # NoSample
  <2>1. PICK decision \in Decisions(o.sample) :
          LET result == Evaluated(d, o.sample, decision) IN
            \/ TriggerUnmeasured(d)
            \/ /\ TriggerMeasured(d)
               /\ session' = [session EXCEPT ![d] = result]
               /\ sample' = [sample EXCEPT ![d] = o.sample]
               /\ disk'.session = [disk.session EXCEPT ![d] = result]
            \/ /\ CrashInTrigger(d)
               /\ disk'.session = [disk.session EXCEPT ![d] = result]
            \/ /\ TriggerRaises(d)
               /\ disk'.session = [session EXCEPT ![d] = result]
    BY <1>1, <1>7 DEF TriggerResult
  <2> DEFINE result == Evaluated(d, o.sample, decision)
  <2>2. /\ result.syncTime = o.sample.time
        /\ result.state \in {"MEASURING", "FAILED"}
        /\ session[d].state = "FAILED" => result.state = "FAILED"
    BY EvaluatedStates DEF KnownInv
  <2>3. session[d].syncTime <= o.sample.time /\ o.sample.time <= now'
    BY <1>2, <1>4, <1>7
  <2>r. \/ TriggerUnmeasured(d)
        \/ /\ TriggerMeasured(d)
           /\ session' = [session EXCEPT ![d] = result]
           /\ sample' = [sample EXCEPT ![d] = o.sample]
           /\ disk'.session = [disk.session EXCEPT ![d] = result]
        \/ /\ CrashInTrigger(d)
           /\ disk'.session = [disk.session EXCEPT ![d] = result]
        \/ /\ TriggerRaises(d)
           /\ disk'.session = [session EXCEPT ![d] = result]
    BY <2>1
  <2> HIDE DEF result
  <2>4. CASE /\ TriggerMeasured(d)
             /\ session' = [session EXCEPT ![d] = result]
             /\ sample' = [sample EXCEPT ![d] = o.sample]
             /\ disk'.session = [disk.session EXCEPT ![d] = result]
    <3>1. up'
      BY <1>3, <2>4 DEF TriggerMeasured
    <3>2. ASSUME NEW e \in Devices
          PROVE  /\ Known(e)' = session'[e]
                 /\ \/ e = d /\ session'[e] = result /\ disk'.session[e] = result
                       /\ sample'[e] = o.sample
                    \/ session'[e] = session[e] /\ disk'.session[e] = disk.session[e]
                       /\ sample'[e] = sample[e]
      BY <1>5, <2>4, <3>1 DEF Known
    <3> QED
      BY <1>2, <1>4, <2>2, <2>3, <3>1, <3>2
      DEF KnownInv, NeverReadyForCorrection, KeepsFailed, KeepsTime
  <2>5. CASE /\ CrashInTrigger(d) \/ TriggerRaises(d)
             /\ \/ disk'.session = [disk.session EXCEPT ![d] = result]
                \/ disk'.session = [session EXCEPT ![d] = result]
    <3>1. NothingInMemory
      BY <2>5 DEF CrashInTrigger, TriggerRaises
    <3>2. ASSUME NEW e \in Devices
          PROVE  \/ e = d /\ disk'.session[e] = result
                 \/ disk'.session[e] \in {session[e], disk.session[e]}
      BY <1>5, <2>5
    <3> QED
      BY <1>2, <1>4, <2>2, <2>3, <3>1, <3>2, Forgotten
  <2> QED
    BY <1>6, <2>r, <2>4, <2>5
<1> QED
  BY <1>1, <1>6, <1>7 DEF TriggerResult

LEMMA CallLearns ==
  ASSUME TypeOK, KnownInv, NEW d \in Devices, Calls(d)
  PROVE  KnownInv' /\ \A e \in Devices : (KeepsFailed(e) \/ Recover(e)) /\ KeepsTime(e)
<1>1. up /\ UNCHANGED <<now, up, due, sample>>
  BY DEF Calls, ScheduleDevice, Cancel, Remove, RecordCalibration, EnterMonitoring, Recover,
         AttemptCorrection, Call
<1>2. session[d].state # "CORRECTION_READY" /\ session \in [Devices -> Sessions]
      /\ disk.session \in [Devices -> Sessions]
  BY DEF KnownInv, NeverReadyForCorrection, TypeOK, Files
<1>3. PICK state \in SyncStates :
        /\ session' = [session EXCEPT ![d].state = state]
        /\ state # "CORRECTION_READY"
        /\ state = "FAILED" => session[d].state = "FAILED"
        /\ session[d].state = "FAILED" => state = "FAILED" \/ Recover(d)
  <2>1. session' = [session EXCEPT ![d].state = session'[d].state]
    BY <1>2
    DEF Calls, ScheduleDevice, Cancel, Remove, RecordCalibration, EnterMonitoring, Recover,
        AttemptCorrection, Sessions
  <2> QED
    BY <1>2, <2>1, StatesNamed
    DEF Calls, ScheduleDevice, Cancel, Remove, RecordCalibration, EnterMonitoring, Recover,
        AttemptCorrection, Sessions
<1>4. disk' = disk \/ (disk' = [disk EXCEPT !.session[d] = session'[d]]
                       /\ session'[d] = session[d])
  BY <1>2 DEF Calls, ScheduleDevice, Cancel, Remove, RecordCalibration, EnterMonitoring, Recover,
         AttemptCorrection, Sessions
<1>5. ASSUME NEW e \in Devices
      PROVE  /\ session'[e].syncTime = session[e].syncTime
             /\ session'[e].state # "CORRECTION_READY"
             /\ session'[e].state = "FAILED" => session[e].state = "FAILED"
             /\ session[e].state = "FAILED" => session'[e].state = "FAILED" \/ Recover(e)
             /\ Known(e) = session[e] /\ Known(e)' = session'[e]
             /\ session[e].syncTime \in Nat
  <2>1. /\ session[e] \in Sessions /\ session[e].state # "CORRECTION_READY"
        /\ Known(e) = session[e] /\ Known(e)' = session'[e]
    BY <1>1, <1>2 DEF Known, KnownInv, NeverReadyForCorrection
  <2>2. CASE e = d
    <3>1. session'[d] = [session[d] EXCEPT !.state = state]
      BY <1>2, <1>3
    <3>2. session'[d].state = state /\ session'[d].syncTime = session[d].syncTime
      BY <2>1, <2>2, <3>1 DEF Sessions
    <3> QED
      BY <1>3, <2>1, <2>2, <3>2 DEF Sessions
  <2>3. CASE e # d
    BY <1>2, <1>3, <2>1, <2>3 DEF Sessions
  <2> QED
    BY <2>2, <2>3
<1>6. ASSUME NEW e \in Devices
      PROVE  disk'.session[e] = disk.session[e] \/ disk'.session[e] = session[e]
  BY <1>2, <1>4 DEF TypeOK, Files
<1>7. KnownInv'
  BY <1>1, <1>5, <1>6 DEF KnownInv, NeverReadyForCorrection
<1> QED
  BY <1>5, <1>7 DEF KeepsFailed, KeepsTime

LEMMA StepLearns ==
  ASSUME TypeOK, TypeOK', KnownInv, [Next]_vars
  PROVE  KnownInv' /\ \A e \in Devices : (KeepsFailed(e) \/ Recover(e)) /\ KeepsTime(e)
<1> USE DEF wire
<1>1. now \in Nat /\ now' \in Nat
  BY DEF TypeOK
<1>2. /\ session \in [Devices -> Sessions] /\ disk.session \in [Devices -> Sessions]
      /\ sample \in [Devices -> Samples]
  BY DEF TypeOK, Files
<1>3. CASE Startup
  <2>1. ~up /\ up' /\ UNCHANGED <<now, due, sample, disk>>
    BY <1>3 DEF Startup
  <2>2. ASSUME NEW e \in Devices
        PROVE  /\ session'[e].syncTime = disk.session[e].syncTime
               /\ session'[e].state # "CORRECTION_READY"
               /\ session'[e].state = "FAILED" <=> disk.session[e].state = "FAILED"
               /\ Known(e) = disk.session[e] /\ Known(e)' = session'[e]
               /\ disk.session[e].syncTime \in Nat
               /\ disk.session[e].syncTime <= now /\ sample[e] = NoSample
    BY <1>2, <1>3, <2>1 DEF Startup, Known, Sessions, KnownInv, NeverReadyForCorrection
  <2> QED
    BY <2>1, <2>2 DEF KnownInv, NeverReadyForCorrection, KeepsFailed, KeepsTime
<1>4. CASE Poll \/ HandleSyncRequest \/ Tick \/ UNCHANGED vars
  <2>1. /\ UNCHANGED <<up, session, sample, disk>> /\ (up \/ due' = {})
        /\ now <= now'
    BY <1>1, <1>4 DEF Poll, HandleSyncRequest, Tick, vars, KnownInv
  <2> QED
    BY <1>1, <2>1, NothingLearned
<1>5. CASE ReceiveResponse
  <2>1. up /\ UNCHANGED <<now, up, session, disk>>
    BY <1>5 DEF ReceiveResponse
  <2>2. ASSUME NEW e \in Devices PROVE sample'[e] = sample[e] \/ sample'[e].time = now
    BY <1>2, <1>5 DEF ReceiveResponse, Measurement
  <2>3. ASSUME NEW e \in Devices
        PROVE  Known(e)' = Known(e) /\ Known(e).syncTime \in Nat
    BY <1>2, <2>1 DEF Known, Sessions
  <2> QED
    BY <1>1, <2>1, <2>2, <2>3 DEF KnownInv, NeverReadyForCorrection, KeepsFailed, KeepsTime
<1>6. CASE Crash \/ Shutdown
  <2>1. /\ up /\ NothingInMemory /\ now' = now
        /\ disk'.session = disk.session \/ disk'.session = session
    BY <1>6 DEF Crash, Shutdown, CutOff, Snapshot, TypeOK, Files
  <2>2. ASSUME NEW e \in Devices
        PROVE  /\ disk'.session[e].state # "CORRECTION_READY"
               /\ disk'.session[e].syncTime <= now'
               /\ Known(e).state = "FAILED" => disk'.session[e].state = "FAILED"
               /\ Known(e).syncTime <= disk'.session[e].syncTime
    BY <1>1, <1>2, <2>1 DEF Known, KnownInv, NeverReadyForCorrection, Sessions
  <2> QED
    BY <1>1, <2>1, <2>2, Forgotten
<1> QED
  BY <1>3, <1>4, <1>5, <1>6, TriggerLearns, CallLearns DEF Next, Trigger, Calls

LEMMA KnownInit == Init => KnownInv
  BY DEF Init, KnownInv, NeverReadyForCorrection, Known, NewSession, Snapshot

\* The inductive invariant: the file holds what a restart would have to know, and no
\* sample is older than the last one that counted.
THEOREM KnownInvariant == Spec => [](TypeOK /\ KnownInv)
<1>1. TypeOK /\ KnownInv /\ [Next]_vars => (TypeOK /\ KnownInv)'
  BY TypeStep, StepLearns
<1> QED
  BY <1>1, TypeInit, KnownInit, PTL DEF Spec

\* No session ever becomes ready for a correction.
THEOREM NeverReady == Spec => []NeverReadyForCorrection
  BY KnownInvariant, PTL DEF KnownInv

\* A failure outlives restarts and kills, and only recover ends it.
THEOREM FailureLasts == Spec => FailedUntilRecovered
<1>1. TypeOK /\ KnownInv /\ [Next]_vars =>
        [\A d \in Devices :
           Known(d).state = "FAILED" => Known(d).state' = "FAILED" \/ Recover(d)]_vars
  BY TypeStep, StepLearns DEF KeepsFailed
<1> QED
  BY <1>1, KnownInvariant, PTL DEF Spec, FailedUntilRecovered

\* The time of the last measurement that counted never goes back.
THEOREM SyncTimeIsMonotone == Spec => SyncTimeNeverGoesBack
<1>1. TypeOK /\ KnownInv /\ [Next]_vars =>
        [\A d \in Devices : Known(d).syncTime <= Known(d).syncTime']_vars
  BY TypeStep, StepLearns DEF KeepsTime
<1> QED
  BY <1>1, KnownInvariant, PTL DEF Spec, SyncTimeNeverGoesBack

\* The engine ends by itself only on the second rejection of a device.
THEOREM EndsOnlyOnReject == Spec => EndsOnlyOnSecondReject
<1>1. ASSUME TypeOK, KnownInv, Next, up, ~up', crashes' = crashes
      PROVE  Shutdown \/ \E d \in due : session[d].state = "FAILED"
  <2>1. crashes \in Nat /\ crashes + 1 # crashes
    BY <1>1 DEF TypeOK
  <2>2. Shutdown \/ \E d \in Devices : TriggerRaises(d)
    BY <1>1, <2>1
    DEF Next, Startup, Poll, ReceiveResponse, Crash, HandleSyncRequest, Tick, TriggerUnmeasured,
        TriggerMeasured, CrashInTrigger, ScheduleDevice, Cancel, Remove, RecordCalibration,
        EnterMonitoring, Recover, AttemptCorrection, Call
  <2>3. ASSUME NEW d \in Devices, TriggerRaises(d)
        PROVE  d \in due /\ session[d].state = "FAILED"
    BY <1>1, <2>3, EvaluatedStates DEF TriggerRaises, KnownInv
  <2> QED
    BY <2>2, <2>3
<1>2. TypeOK /\ KnownInv /\ [Next]_vars =>
        [up /\ ~up' /\ crashes' = crashes
           => Shutdown \/ \E d \in due : session[d].state = "FAILED"]_vars
  BY <1>1
<1> QED
  BY <1>2, KnownInvariant, PTL DEF Spec, EndsOnlyOnSecondReject
=============================================================================
