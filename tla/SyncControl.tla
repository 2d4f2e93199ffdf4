----------------------------- MODULE SyncControl -----------------------------
(***************************************************************************)
(* Periodic measurement of clocks: the engine's loop (engine/main.py), the *)
(* coordinator with its scheduler, sessions and state.json, and the        *)
(* exchange that measures an offset (engine/synchronization/manager.py).   *)
(*                                                                         *)
(* The host has one thread, so a trigger is one step, and the triggers of  *)
(* a round follow one another until due is empty.  A virtual device        *)
(* answers within the trigger.  A physical one answers on the wire, which  *)
(* is external, as is the sketch that answers (firmware/esp32): its line   *)
(* may be lost or come in a later round.                                   *)
(*                                                                         *)
(* A measurement's float is kept as twice its value.  The policy's drift,  *)
(* confidence and uncertainty are any: only the offset is compared.  Host  *)
(* time does not step back.                                                *)
(***************************************************************************)
EXTENDS Integers, Sequences

CONSTANTS
  Devices,            \* device ids
  Physical,           \* those that answer on the wire
  Offsets,            \* by how much a physical device's clock may be ahead
  MaximumOffset,      \* SynchronizationSafetyConfig.maximum_offset
  Interval,           \* sync_interval_ms, and the fixed strategy's interval
  AdaptiveIntervals,  \* what AdaptiveIntervalStrategy may recommend
  SketchMax,          \* the largest integer the sketch reads from a line
  MaxDelay,           \* bound: time on the way to a virtual device, and back
  MaxTime,            \* bound: the host's clock
  MaxInFlight,        \* bound: lines on the wire in each direction
  MaxCalls,           \* bound: calls from outside the loop
  MaxCrashes          \* bound: kills of the engine

ASSUME PhysicalAssumption == Physical \subseteq Devices
ASSUME OffsetsAssumption == Offsets \subseteq Int /\ MaximumOffset \in Nat
ASSUME IntervalsAssumption ==
  Interval \in Nat \ {0} /\ AdaptiveIntervals \subseteq Nat \ {0}
ASSUME BoundsAssumption ==
  /\ SketchMax \in Nat /\ MaxDelay \in Nat /\ MaxTime \in Nat \ {0}
  /\ MaxInFlight \in Nat /\ MaxCalls \in Nat /\ MaxCrashes \in Nat

VARIABLES
  now,                \* the host's clock
  up,                 \* the engine is in run()
  due,                \* devices that this round has still to trigger
  session,            \* SynchronizationCoordinator.sessions
  schedule,           \* SynchronizationScheduler._schedules
  sample,             \* the newest entry of SynchronizationManager._history
  toDevice, toHost,   \* lines on the wire
  disk,               \* state.json
  calls, crashes      \* how many there were

vars == <<now, up, due, session, schedule, sample, toDevice, toHost, disk,
          calls, crashes>>

wire == <<toDevice, toHost>>

SyncStates == {"UNKNOWN", "MEASURING", "CALIBRATED", "MONITORING",
               "CORRECTION_READY", "FAILED"}

\* Mutant: a measurement cannot fail.
ValidTransitionsUnfailing ==
  [UNKNOWN          |-> {"MEASURING", "FAILED"},
   MEASURING        |-> {"CALIBRATED", "MONITORING"},
   CALIBRATED       |-> {"MONITORING", "MEASURING", "FAILED"},
   MONITORING       |-> {"MEASURING", "CORRECTION_READY", "CALIBRATED", "FAILED"},
   CORRECTION_READY |-> {"MONITORING", "MEASURING", "FAILED"},
   FAILED           |-> {"MEASURING", "UNKNOWN"}]
ValidTransitions ==
  [UNKNOWN          |-> {"MEASURING", "FAILED"},
   MEASURING        |-> {"CALIBRATED", "MONITORING", "FAILED"},
   CALIBRATED       |-> {"MONITORING", "MEASURING", "FAILED"},
   MONITORING       |-> {"MEASURING", "CORRECTION_READY", "CALIBRATED", "FAILED"},
   CORRECTION_READY |-> {"MONITORING", "MEASURING", "FAILED"},
   FAILED           |-> {"MEASURING", "UNKNOWN"}]

\* A session, and that of a device nobody has asked for.
Sessions == [state : SyncStates, syncTime : Nat]
NewSession == [state |-> "UNKNOWN", syncTime |-> 0]

\* A schedule has an interval of at least 1; Unscheduled is no entry at all.
Schedules == [interval : Nat, last : Nat, next : Nat, adaptive : BOOLEAN, enabled : BOOLEAN]
Unscheduled ==
  [interval |-> 0, last |-> 0, next |-> 0, adaptive |-> FALSE, enabled |-> FALSE]

\* A measurement: when it arrived, twice the estimate, the round trip, and (for
\* the properties) the offset there really was when the device read its clock.
Samples == [time : Nat, twice : Int, trip : Nat, offset : Int]
NoSample == [time |-> 0, twice |-> 0, trip |-> 0, offset |-> 0]

\* state.json: the sessions and the schedules, if it can be read.
Files == [intact : BOOLEAN, session : [Devices -> Sessions],
          schedule : [Devices -> Schedules]]

Requests  == [device : Devices, sent : Nat]
Responses == [device : Devices, sent : Nat, at : Nat, offset : Int]

-----------------------------------------------------------------------------
(* The exchange.                                                            *)

\* SYNC_RESPONSE processed at time `received`: it was `sent`, and a device that is
\* `offset` ahead read its clock `at`.  The estimate is the midpoint rule.  Mutants:
\* the device is taken to answer at the end; the sample has the time of its request.
MeasurementAtTheEnd(sent, at, offset, received) ==
  LET trip == IF received >= sent THEN received - sent ELSE 0
  IN  [time |-> received, trip |-> trip, offset |-> offset,
       twice |-> 2 * (at + offset) - 2 * (sent + trip)]
MeasurementOfTheRequest(sent, at, offset, received) ==
  LET trip == IF received >= sent THEN received - sent ELSE 0
  IN  [time |-> sent, trip |-> trip, offset |-> offset,
       twice |-> 2 * (at + offset) - (2 * sent + trip)]
Measurement(sent, at, offset, received) ==
  LET trip == IF received >= sent THEN received - sent ELSE 0
  IN  [time |-> received, trip |-> trip, offset |-> offset,
       twice |-> 2 * (at + offset) - (2 * sent + trip)]

\* int() of half of t: Python drops the fraction, toward zero.
HalfTruncated(t) == IF t >= 0 THEN t \div 2 ELSE -((-t) \div 2)

\* The clock of a virtual device is the host's, ahead by the estimate that the last
\* measurement wrote into its metadata.
VirtualOffset(d) == HalfTruncated(sample[d].twice)

\* A line that is sent is on the wire or lost; one that is garbled does not parse,
\* which is the same.
Sent(line, message) ==
  {line} \cup (IF Len(line) < MaxInFlight THEN {Append(line, message)} ELSE {})

\* What a request may lead to before request_sync returns.
Unanswered(d) ==
  {[now |-> now, sample |-> sample[d], toDevice |-> line] :
     line \in IF d \in Physical
              THEN Sent(toDevice, [device |-> d, sent |-> now]) ELSE {toDevice}}

Echoed(d) ==
  {[now |-> now + there + back,
    sample |-> Measurement(now, now + there, VirtualOffset(d), now + there + back),
    toDevice |-> toDevice] : there \in 0 .. MaxDelay, back \in 0 .. MaxDelay}

RequestSync(d) ==
  Unanswered(d) \cup (IF d \in Physical THEN {} ELSE {o \in Echoed(d) : o.now <= MaxTime})

-----------------------------------------------------------------------------
(* Sessions and the policy.                                                 *)

\* The state in which a trigger measures.  Mutant: one that has failed is measured again.
MeasuringAgain(state) ==
  IF state \in {"UNKNOWN", "CALIBRATED", "MONITORING", "FAILED"} THEN "MEASURING" ELSE state
Measuring(state) ==
  IF state \in {"UNKNOWN", "CALIBRATED", "MONITORING"} THEN "MEASURING" ELSE state

Decisions(s) ==
  IF s.twice > 2 * MaximumOffset \/ s.twice < -(2 * MaximumOffset)
  THEN {"reject"}
  ELSE {"reject", "defer", "ready"}

EvaluatePolicy(state, decision) ==
  CASE decision = "reject" -> "FAILED"
    [] decision = "ready" /\ state = "MONITORING" -> "CORRECTION_READY"
    [] OTHER -> state

\* transition_to raises InvalidSyncTransition.
Raises(state, decision) ==
  decision = "reject" /\ "FAILED" \notin ValidTransitions[state]

\* A session after a trigger that got as far as the policy; when that raises, the
\* result has been recorded and the state has not.
Evaluated(d, s, decision) ==
  LET state == Measuring(session[d].state)
  IN  [state |-> IF Raises(state, decision) THEN state ELSE EvaluatePolicy(state, decision),
       syncTime |-> s.time]

-----------------------------------------------------------------------------
(* Schedules.                                                               *)

IsScheduled(entry) == entry.interval # 0

IsDue(entry, t) == entry.enabled /\ entry.next <= t

DueDevices(t) == {d \in Devices : IsDue(schedule[d], t)}

\* SynchronizationScheduler.schedule at time t.
Scheduled(entry, t, adaptive) ==
  [interval |-> Interval, last |-> entry.last, adaptive |-> adaptive, enabled |-> TRUE,
   next |-> IF entry.enabled /\ entry.next > t THEN entry.next ELSE t + Interval]

\* Mutant: the next time stays as it was.
MarkSyncedOnly(entry, t) == IF entry.enabled THEN [entry EXCEPT !.last = t] ELSE entry
MarkSynced(entry, t) ==
  IF entry.enabled THEN [entry EXCEPT !.last = t, !.next = t + entry.interval] ELSE entry

\* What the coordinator plans after a measurement, and saves.  Under an adaptive
\* interval the next time is counted from the measurement before.
Planned(entry, t, interval) ==
  [entry EXCEPT !.interval = interval,
                !.last = t,
                !.next = interval + (IF entry.adaptive /\ entry.last > 0
                                     THEN entry.last ELSE t)]

NextIntervals(entry) == IF entry.adaptive THEN AdaptiveIntervals ELSE {Interval}

-----------------------------------------------------------------------------
(* The engine.                                                              *)

NothingInMemory ==
  /\ up' = FALSE
  /\ due' = {}
  /\ session' = [d \in Devices |-> NewSession]
  /\ schedule' = [d \in Devices |-> Unscheduled]
  /\ sample' = [d \in Devices |-> NoSample]

\* save_all: what is there is written, what is not is gone.
Snapshot(sessions) == [intact |-> TRUE, session |-> sessions, schedule |-> schedule]

\* The file is truncated when it is opened and its text comes after that.
CutOff == [disk EXCEPT !.intact = FALSE]

\* sync_startup.  The registry of physical devices is filled by the messages of
\* run(), so only virtual devices are scheduled here.  A file that does not parse
\* keeps the engine down.
Startup ==
  /\ ~up
  /\ disk.intact
  /\ up' = TRUE
  /\ schedule' = [d \in Devices |-> IF d \in Physical THEN disk.schedule[d]
                                    ELSE Scheduled(disk.schedule[d], now, FALSE)]
  /\ session' = [d \in Devices |->
       [disk.session[d] EXCEPT !.state =
          IF d \notin Physical /\ @ = "UNKNOWN" THEN "MEASURING" ELSE @]]
  /\ UNCHANGED <<now, due, sample, wire, disk, calls, crashes>>

\* run() reads nothing for a while and polls; a round begins if somebody is due.
Poll ==
  /\ up
  /\ due = {}
  /\ due' = DueDevices(now)
  /\ due' # {}
  /\ UNCHANGED <<now, up, session, schedule, sample, wire, disk, calls, crashes>>

\* A SYNC_RESPONSE is handled, and run() polls.
ReceiveResponse ==
  /\ up
  /\ due = {}
  /\ toHost # <<>>
  /\ LET r == Head(toHost) IN
       sample' = [sample EXCEPT ![r.device] = Measurement(r.sent, r.at, r.offset, now)]
  /\ toHost' = Tail(toHost)
  /\ due' = DueDevices(now)
  /\ UNCHANGED <<now, up, session, schedule, toDevice, disk, calls, crashes>>

\* A trigger after which there is no measurement at all: the coordinator returns
\* early, saves nothing, and the scheduler marks the device as synced.
TriggerUnmeasured(d) ==
  /\ d \in due
  /\ \E o \in RequestSync(d) :
       /\ o.sample = NoSample
       /\ now' = o.now
       /\ toDevice' = o.toDevice
  /\ session' = [session EXCEPT ![d].state = Measuring(@)]
  /\ schedule' = [schedule EXCEPT ![d] = MarkSynced(@, now')]
  /\ due' = due \ {d}
  /\ UNCHANGED <<up, sample, toHost, disk, calls, crashes>>

\* A trigger that has a measurement, which may be one of an earlier round.
TriggerMeasured(d) ==
  /\ d \in due
  /\ \E o \in RequestSync(d), interval \in NextIntervals(schedule[d]) :
       /\ o.sample # NoSample
       /\ \E decision \in Decisions(o.sample) :
            /\ ~Raises(Measuring(session[d].state), decision)
            /\ session' = [session EXCEPT ![d] = Evaluated(d, o.sample, decision)]
       /\ now' = o.now
       /\ sample' = [sample EXCEPT ![d] = o.sample]
       /\ toDevice' = o.toDevice
       /\ LET planned == Planned(schedule[d], o.now, interval) IN
            /\ disk' = [disk EXCEPT !.session[d] = session'[d], !.schedule[d] = planned]
            /\ schedule' = [schedule EXCEPT ![d] = MarkSynced(planned, o.now)]
  /\ due' = due \ {d}
  /\ UNCHANGED <<up, toHost, calls, crashes>>

\* The policy rejects a device that has failed before.  The exception leaves the
\* round and run(), which saves what there is and ends.
TriggerRaises(d) ==
  /\ d \in due
  /\ \E o \in RequestSync(d) :
       /\ o.sample # NoSample
       /\ \E decision \in Decisions(o.sample) :
            /\ Raises(Measuring(session[d].state), decision)
            /\ disk' = Snapshot([session EXCEPT ![d] = Evaluated(d, o.sample, decision)])
       /\ now' = o.now
       /\ toDevice' = o.toDevice
  /\ NothingInMemory
  /\ UNCHANGED <<toHost, calls, crashes>>

\* The engine is killed within a trigger, after the session was saved and before the
\* schedule was.
CrashInTrigger(d) ==
  /\ d \in due
  /\ crashes < MaxCrashes
  /\ crashes' = crashes + 1
  /\ \E o \in RequestSync(d) :
       /\ o.sample # NoSample
       /\ \E decision \in Decisions(o.sample) :
            /\ ~Raises(Measuring(session[d].state), decision)
            /\ disk' = [disk EXCEPT !.session[d] = Evaluated(d, o.sample, decision)]
       /\ now' = o.now
       /\ toDevice' = o.toDevice
  /\ NothingInMemory
  /\ UNCHANGED <<toHost, calls>>

\* The engine is killed between two handlers, or while it writes the file: in a
\* trigger, or after an interrupt.
Crash ==
  /\ up
  /\ crashes < MaxCrashes
  /\ crashes' = crashes + 1
  /\ disk' \in {disk, CutOff}
  /\ NothingInMemory
  /\ UNCHANGED <<now, wire, calls>>

\* KeyboardInterrupt, also between two triggers of a round, and sync_shutdown.
Shutdown ==
  /\ up
  /\ disk' = Snapshot(session)
  /\ NothingInMemory
  /\ UNCHANGED <<now, wire, calls, crashes>>

-----------------------------------------------------------------------------
(* Calls from outside the loop, between two rounds.                         *)

Call ==
  /\ up
  /\ due = {}
  /\ calls < MaxCalls
  /\ calls' = calls + 1
  /\ UNCHANGED <<now, up, due, sample, wire, crashes>>

ScheduleDevice(d, adaptive) ==
  /\ Call
  /\ schedule' = [schedule EXCEPT ![d] = Scheduled(@, now, adaptive)]
  /\ session' = [session EXCEPT ![d].state = IF @ = "UNKNOWN" THEN "MEASURING" ELSE @]
  /\ UNCHANGED disk

Cancel(d) ==
  /\ Call
  /\ IsScheduled(schedule[d])
  /\ schedule' = [schedule EXCEPT ![d].enabled = FALSE]
  /\ UNCHANGED <<session, disk>>

Remove(d) ==
  /\ Call
  /\ IsScheduled(schedule[d])
  /\ schedule' = [schedule EXCEPT ![d] = Unscheduled]
  /\ UNCHANGED <<session, disk>>

RecordCalibration(d) ==
  /\ Call
  /\ session[d].state \in {"MEASURING", "MONITORING"}
  /\ session' = [session EXCEPT ![d].state = "CALIBRATED"]
  /\ UNCHANGED <<schedule, disk>>

EnterMonitoring(d) ==
  /\ Call
  /\ session[d].state \in {"CALIBRATED", "CORRECTION_READY"}
  /\ session' = [session EXCEPT ![d].state = "MONITORING"]
  /\ UNCHANGED <<schedule, disk>>

Recover(d) ==
  /\ Call
  /\ session[d].state = "FAILED"
  /\ session' = [session EXCEPT ![d].state = "MEASURING"]
  /\ UNCHANGED <<schedule, disk>>

\* The adjuster's gate passes only a session that is CORRECTION_READY, and the step is
\* then applied unless it is a dry run.  The session is saved in any case.
AttemptCorrection(d) ==
  /\ Call
  /\ \E state \in {session[d].state} \cup
                  (IF session[d].state = "CORRECTION_READY" THEN {"MONITORING"} ELSE {}) :
       session' = [session EXCEPT ![d].state = state]
  /\ disk' = [disk EXCEPT !.session[d] = session'[d]]
  /\ UNCHANGED schedule

-----------------------------------------------------------------------------
(* The device and time.                                                     *)

\* The sketch reads its clock and sends back when the request was sent.  A number
\* that does not fit the type it reads into becomes 0.
HandleSyncRequest ==
  /\ toDevice # <<>>
  /\ toDevice' = Tail(toDevice)
  /\ LET r == Head(toDevice)
         echo == IF r.sent <= SketchMax THEN r.sent ELSE 0
     IN  \E offset \in Offsets :
           toHost' \in Sent(toHost, [device |-> r.device, sent |-> echo,
                                     at |-> now, offset |-> offset])
  /\ UNCHANGED <<now, up, due, session, schedule, sample, disk, calls, crashes>>

Tick ==
  /\ now < MaxTime
  /\ now' = now + 1
  /\ UNCHANGED <<up, due, session, schedule, sample, wire, disk, calls, crashes>>

-----------------------------------------------------------------------------

Init ==
  /\ now = 1
  /\ up = FALSE
  /\ due = {}
  /\ session = [d \in Devices |-> NewSession]
  /\ schedule = [d \in Devices |-> Unscheduled]
  /\ sample = [d \in Devices |-> NoSample]
  /\ toDevice = <<>> /\ toHost = <<>>
  /\ disk = Snapshot(session)
  /\ calls = 0 /\ crashes = 0

Trigger(d) == TriggerUnmeasured(d) \/ TriggerMeasured(d) \/ TriggerRaises(d)

Next ==
  \/ Startup \/ Poll \/ ReceiveResponse \/ Crash \/ Shutdown
  \/ HandleSyncRequest \/ Tick
  \/ \E d \in Devices :
       \/ TriggerUnmeasured(d) \/ TriggerMeasured(d) \/ TriggerRaises(d)
       \/ CrashInTrigger(d)
       \/ \E adaptive \in BOOLEAN : ScheduleDevice(d, adaptive)
       \/ Cancel(d) \/ Remove(d)
       \/ RecordCalibration(d) \/ EnterMonitoring(d) \/ Recover(d) \/ AttemptCorrection(d)

Spec == Init /\ [][Next]_vars

\* The loop of run() goes on: it polls, and a round that has begun triggers the next.
LiveSpec ==
  /\ Spec
  /\ WF_vars(Poll)
  /\ WF_vars(\E d \in Devices : Trigger(d))

-----------------------------------------------------------------------------
(* Properties.                                                              *)

TypeOK ==
  /\ now \in Nat /\ up \in BOOLEAN /\ due \in SUBSET Devices
  /\ session \in [Devices -> Sessions]
  /\ schedule \in [Devices -> Schedules]
  /\ sample \in [Devices -> Samples]
  /\ toDevice \in Seq(Requests) /\ toHost \in Seq(Responses)
  /\ disk \in Files
  /\ calls \in Nat /\ crashes \in Nat

\* What is known of a device: by the engine, or by the file that the next one reads.
Known(d) == IF up THEN session[d] ELSE disk.session[d]

\* An estimate is off by at most half of the round trip, however late the answer is,
\* and also when the device sent back 0 for the time of the request.
OffByHalfTheTripAtMost ==
  \A d \in Devices :
    LET error == sample[d].twice - 2 * sample[d].offset
    IN  error <= sample[d].trip /\ -error <= sample[d].trip

\* A session that has failed remains so until somebody calls recover, over restarts
\* and kills too ("remain failed until explicit recovery", sync_session.py).
FailedUntilRecovered ==
  [][\A d \in Devices :
       Known(d).state = "FAILED" => Known(d).state' = "FAILED" \/ Recover(d)]_vars

\* The time of the last measurement that counted never goes back, in memory, in the
\* file, or from the one to the other.
SyncTimeNeverGoesBack ==
  [][\A d \in Devices : Known(d).syncTime <= Known(d).syncTime']_vars

\* The engine ends by itself only when it rejects a device that had failed before.
EndsOnlyOnSecondReject ==
  [][up /\ ~up' /\ crashes' = crashes
       => Shutdown \/ \E d \in due : session[d].state = "FAILED"]_vars

\* No session becomes ready for a correction: a trigger leaves MONITORING before it
\* asks the policy, and only in MONITORING does "ready" count.
NeverReadyForCorrection ==
  \A d \in Devices :
    "CORRECTION_READY" \notin {session[d].state, disk.session[d].state}

\* A device that is due is asked and scheduled anew, unless the engine ends first.
DueIsServed ==
  \A d \in Devices : (up /\ IsDue(schedule[d], now)) ~> (~up \/ ~IsDue(schedule[d], now))
=============================================================================
