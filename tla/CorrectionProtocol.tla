------------------------ MODULE CorrectionProtocol ------------------------
(***************************************************************************)
(* Physical clock corrections: the host's transaction manager and bridge,  *)
(* the JSON journal they write, the serial wire, and the ESP32 sync agent. *)
(*                                                                         *)
(*   host     engine/synchronization/physical_bridge.py,                   *)
(*            engine/synchronization/transactions/*.py,                    *)
(*            engine/synchronization/physical_verification.py,             *)
(*            engine/main.py (run, handle_message, sync_poll, sync_startup)*)
(*   device   firmware/esp32/sync_agent/sync_agent.ino                     *)
(*                                                                         *)
(* The host is one thread: each of its handlers is an action, and a crash  *)
(* inside a handler is an action of its own that leaves on disk what the   *)
(* handler had written so far.  Devices, the wire and the clock run        *)
(* between the host's handlers.                                            *)
(*                                                                         *)
(* Abstractions.  A correction step is its magnitude in ms: the sign only  *)
(* selects the direction the device clock moves.  A timestamp is kept as   *)
(* the time elapsed since it was taken, saturating at the only bound it is *)
(* compared with (Timeout, Cooldown): both clocks are epoch milliseconds,  *)
(* so elapsed time goes on while the host is down.  Offsets measured after *)
(* a correction are whatever the device, the network and drift make them:  *)
(* the verdict of a comparison is a nondeterministic choice.  That the     *)
(* session is CORRECTION_READY is left to the environment.                 *)
(***************************************************************************)
EXTENDS Integers, Sequences, FiniteSets

CONSTANTS
  Devices,          \* corrected devices, one serial line each
  Txns,             \* transaction ids (uuids: never reused)
  Offsets,          \* magnitudes of the clock offsets corrections start from
  MaxStep,          \* PhysicalCorrectionLimits.max_step_ms
  MaxAccumulated,   \* PhysicalCorrectionLimits.max_accumulated_correction_ms
  Cooldown,         \* PhysicalCorrectionLimits.cooldown_period_ms, in ticks
  Timeout,          \* WireReliabilityConfig.timeout_ms, in ticks
  MaxRetries,       \* WireReliabilityConfig.max_retries
  HasTransport,     \* the bridge has a send callback: the devices are on the wire
  MaxCrashes,       \* bound: host crashes
  MaxLosses,        \* bound: lines lost or garbled on the wire
  MaxReboots,       \* bound: device resets
  TornWrites        \* a crash may fall inside json.dump and leave a cut-off file

ASSUME DevicesAssumption == "none" \notin Devices
ASSUME NumbersAssumption ==
  /\ Offsets \subseteq Nat
  /\ {MaxStep, MaxAccumulated, MaxRetries, MaxCrashes, MaxLosses, MaxReboots}
       \subseteq Nat
  /\ {Cooldown, Timeout} \subseteq Nat \ {0}
ASSUME SwitchesAssumption == {HasTransport, TornWrites} \subseteq BOOLEAN

VARIABLES
  \* Host memory, lost when the process ends.
  mode,               \* what the engine's one thread is doing
  todo,               \* transactions the current poll or recovery has still to visit
  txn,                \* CorrectionTransactionManager._transactions
  accumulated,        \* CorrectionTransactionManager._accumulated
  sinceCorrection,    \* now - CorrectionTransactionManager._last_correction_time
  health,             \* CorrectionHealthMonitor counters
  measured,           \* SynchronizationManager has a sample of the device
  \* The journal correction_transactions.json.
  disk,
  \* The serial lines and the devices.
  toDevice, toHost,   \* lines in flight, per device, oldest first
  deviceAccumulated,  \* sync_agent.ino accumulatedCorrectionMs
  executed,           \* history: the sends of each transaction a device acted on
  \* How many faults have happened.
  crashes, losses, reboots

hostVars  == <<mode, todo, txn, accumulated, sinceCorrection, health, measured>>
wireVars  == <<toDevice, toHost, deviceAccumulated, executed>>
faultVars == <<crashes, losses, reboots>>
vars      == <<hostVars, disk, wireVars, faultVars>>

-----------------------------------------------------------------------------
(* Transactions *)

States == {"NONE", "CREATED", "SENT", "APPLIED", "VERIFYING",
           "COMPLETED", "FAILED", "ROLLED_BACK"}
Reasons == {"none", "neverSent", "noTransport", "wireTimeout", "notVerified"}

\* VALID_TRANSACTION_TRANSITIONS, and the registration of a new transaction.
ValidTransitions ==
  {<<"NONE", "CREATED">>}
    \cup ({"CREATED"}   \X {"SENT", "FAILED"})
    \cup ({"SENT"}      \X {"APPLIED", "FAILED", "ROLLED_BACK"})
    \cup ({"APPLIED"}   \X {"VERIFYING", "FAILED", "ROLLED_BACK"})
    \cup ({"VERIFYING"} \X {"COMPLETED", "FAILED", "ROLLED_BACK"})
    \cup ({"FAILED"}    \X {"ROLLED_BACK", "CREATED"})

\* Mutant: recovery overlooks a request that never left.
UnfinishedOnceSent == {"SENT", "APPLIED", "VERIFYING"}
Unfinished == {"CREATED", "SENT", "APPLIED", "VERIFYING"}

Records == [state : States, device : Devices \cup {"none"}, step : Nat,
            retries : Nat, age : 0 .. Timeout, reason : Reasons]

NoRecord == [state |-> "NONE", device |-> "none", step |-> 0, retries |-> 0,
             age |-> 0, reason |-> "none"]

NewRecord(d, step) == [NoRecord EXCEPT !.state = "CREATED", !.device = d,
                                       !.step = step]

\* Every change of state goes through _transition, which raises on a move
\* that the table does not list: CanMove is its guard, Moved its effect.
\* Mutant: a late answer revives a transaction given up on.
CanRevive(r, s) == <<r.state, s>> \in ValidTransitions \cup {<<"FAILED", "APPLIED">>}
CanMove(r, s)   == <<r.state, s>> \in ValidTransitions
Moved(r, s)     == [r EXCEPT !.state = s]
Failed(r, why)  == [r EXCEPT !.state = "FAILED", !.reason = why]
RolledBack(r)   == [r EXCEPT !.state = "ROLLED_BACK", !.reason = "notVerified"]

InState(s) == {t \in Txns : txn[t].state = s}

-----------------------------------------------------------------------------
(* Limits and retry policy *)

Smaller(a, b) == IF a < b THEN a ELSE b

\* The bounded step SafeClockAdjuster proposes for an offset.
StepFor(offset) == Smaller(offset, MaxStep)

MayCorrect(d, step) ==
  /\ step <= MaxStep
  /\ sinceCorrection[d] = Cooldown
  /\ accumulated[d] + step <= MaxAccumulated

\* rollback: max(0, accumulated - |step|).  Mutant: without the floor.
TakenBackBelowZero(acc, step) == acc - step
TakenBack(acc, step) == IF step <= acc THEN acc - step ELSE 0

\* mark_applied: the device's absolute total replaces the host's.
\* Mutant: it is added to the host's.
TotalSummed(old, reported) == old + reported
NewTotal(old, reported) == reported

\* Mutant: > for >=.
IsTimedOutLater(r) == r.age > Timeout
IsTimedOut(r) == r.age >= Timeout

\* attempt is 0-based.  Mutant: one retry too many.
ShouldRetryOnceMore(attempt) == attempt <= MaxRetries
ShouldRetry(attempt) == attempt < MaxRetries

-----------------------------------------------------------------------------
(* The journal *)

NoTxns       == [t \in Txns |-> NoRecord]
NothingDone  == [d \in Devices |-> 0]
LongAgo      == [d \in Devices |-> Cooldown]
NoHealth     == [ok |-> 0, failed |-> 0, rolledBack |-> 0]
NoSamples    == [d \in Devices |-> FALSE]

EmptyJournal == [txn |-> NoTxns, accumulated |-> NothingDone,
                 sinceCorrection |-> LongAgo, readable |-> TRUE]

\* save_all: the whole snapshot.  save_transaction: one transaction beside the
\* bookkeeping the file already has; _persist writes this one first.
Snapshot(tx, acc, since) == [txn |-> tx, accumulated |-> acc,
                             sinceCorrection |-> since, readable |-> TRUE]
WithTxn(image, t, r) == [image EXCEPT !.txn[t] = r]
\* _write truncates the file, then writes: a crash in between leaves no JSON.
CutOff == IF TornWrites THEN {[disk EXCEPT !.readable = FALSE]} ELSE {}

\* Mutant: the change is not written down.
PersistNothing(tx, acc, since) ==
  /\ txn' = tx
  /\ accumulated' = acc
  /\ sinceCorrection' = since
  /\ disk' = disk

\* A handler that ran to its end: memory and journal say the same.
Persist(tx, acc, since) ==
  /\ txn' = tx
  /\ accumulated' = acc
  /\ sinceCorrection' = since
  /\ disk' = Snapshot(tx, acc, since)

SaveTxnOnly(t, r) ==
  Persist([txn EXCEPT ![t] = r], accumulated, sinceCorrection)

\* The process ends: memory is lost, the journal is left as image.
ProcessEnds(how, image) ==
  /\ mode' = how
  /\ todo' = {}
  /\ txn' = NoTxns
  /\ accumulated' = NothingDone
  /\ sinceCorrection' = LongAgo
  /\ health' = NoHealth
  /\ measured' = NoSamples
  /\ disk' = image

Running == mode \in {"idle", "poll", "recover"}

CrashLeaving(image) ==
  /\ crashes < MaxCrashes
  /\ crashes' = crashes + 1
  /\ ProcessEnds("down", image)
  /\ UNCHANGED <<losses, reboots>>

-----------------------------------------------------------------------------
(* Asking for a correction: PhysicalCorrectionBridge.execute_correction *)

\* CorrectionTransactionManager.create accepts transaction t as record r.
MayCreate(t, d, step) ==
  /\ mode = "idle"
  /\ txn[t].state = "NONE"
  /\ MayCorrect(d, step)

Request(t, attempt, step) == [txn |-> t, attempt |-> attempt, step |-> step]
Put(line, d, m) == [line EXCEPT ![d] = Append(@, m)]

\* On the wire the call ends once the request is out: nothing can have
\* answered yet, so _finalize_after_response returns the SENT transaction.
ExecuteOnWire(t, d, offset) ==
  LET step == StepFor(offset)
      r    == NewRecord(d, step)
  IN  /\ HasTransport
      /\ MayCreate(t, d, step)
      /\ SaveTxnOnly(t, Moved(r, "SENT"))
      /\ toDevice' = Put(toDevice, d, Request(t, 0, step))
      /\ UNCHANGED <<mode, todo, health, measured, toHost, deviceAccumulated,
                     executed, faultVars>>

\* Without a transport and without a simulated answer it fails at once.
ExecuteWithoutTransport(t, d, offset) ==
  LET step == StepFor(offset)
  IN  /\ ~HasTransport
      /\ MayCreate(t, d, step)
      /\ SaveTxnOnly(t, Failed(NewRecord(d, step), "noTransport"))
      /\ health' = [health EXCEPT !.failed = @ + 1]
      /\ UNCHANGED <<mode, todo, measured, wireVars, faultVars>>

\* What a simulated answer reports: the experiments build it without
\* accumulated_correction, whose default is 0.
SimulatedAccumulated == 0

\* With a simulated answer one call creates, sends, applies and verifies, and
\* rolls back when the offset did not improve.
ExecuteSimulated(t, d, offset) ==
  LET step == StepFor(offset)
      r    == NewRecord(d, step)
      Settle(final, acc) ==
        Persist([txn EXCEPT ![t] = final],
                [accumulated EXCEPT ![d] = acc],
                [sinceCorrection EXCEPT ![d] = 0])
  IN  /\ ~HasTransport
      /\ MayCreate(t, d, step)
      /\ \/ /\ Settle(Moved(r, "COMPLETED"), SimulatedAccumulated)
            /\ health' = [health EXCEPT !.ok = @ + 1]
         \/ /\ Settle(RolledBack(r), TakenBack(SimulatedAccumulated, step))
            /\ health' = [health EXCEPT !.failed = @ + 1, !.rolledBack = @ + 1]
      /\ executed' = [executed EXCEPT ![t] = {0}]
      /\ UNCHANGED <<mode, todo, measured, toDevice, toHost, deviceAccumulated,
                     faultVars>>

\* What mark_applied does to the bookkeeping of device d.
Booked(image, d, acc) ==
  [image EXCEPT !.accumulated[d] = acc, !.sinceCorrection[d] = 0]

\* A crash (or an exception of the serial port in send) inside
\* execute_correction, before the request is on the wire or answered.
CrashInExecute(t, d, offset) ==
  LET r == NewRecord(d, StepFor(offset))
  IN  /\ MayCreate(t, d, StepFor(offset))
      /\ \E image \in {WithTxn(disk, t, r), WithTxn(disk, t, Moved(r, "SENT"))}
                      \cup CutOff :
           CrashLeaving(image)
      /\ UNCHANGED wireVars

\* The same, after the simulated device has answered.
CrashInSimulated(t, d, offset) ==
  LET r == NewRecord(d, StepFor(offset))
      booked == Booked(disk, d, SimulatedAccumulated)
  IN  /\ ~HasTransport
      /\ MayCreate(t, d, StepFor(offset))
      /\ \E image \in {WithTxn(disk, t, Moved(r, "APPLIED")),
                       WithTxn(booked, t, Moved(r, "APPLIED")),
                       WithTxn(booked, t, Moved(r, "VERIFYING")),
                       WithTxn(booked, t, Failed(r, "notVerified"))} :
           CrashLeaving(image)
      /\ executed' = [executed EXCEPT ![t] = {0}]
      /\ UNCHANGED <<toDevice, toHost, deviceAccumulated>>

-----------------------------------------------------------------------------
(* The device: sync_agent.ino *)

Response(t, acc) == [txn |-> t, accumulated |-> acc]

\* handleCorrectionRequest: every request is carried out and answered.  The
\* transaction id is only copied into the answer.
HandleCorrectionRequest(d) ==
  /\ toDevice[d] # <<>>
  /\ LET m   == Head(toDevice[d])
         acc == deviceAccumulated[d] + m.step
     IN  /\ deviceAccumulated' = [deviceAccumulated EXCEPT ![d] = acc]
         /\ executed' = [executed EXCEPT ![m.txn] = @ \cup {m.attempt}]
         /\ toHost' = Put(toHost, d, Response(m.txn, acc))
  /\ toDevice' = [toDevice EXCEPT ![d] = Tail(@)]
  /\ UNCHANGED <<hostVars, disk, faultVars>>

\* A reset: the software clock starts over, unread input is lost.
DeviceReboot(d) ==
  /\ reboots < MaxReboots
  /\ reboots' = reboots + 1
  /\ deviceAccumulated' = [deviceAccumulated EXCEPT ![d] = 0]
  /\ toDevice' = [toDevice EXCEPT ![d] = <<>>]
  /\ UNCHANGED <<hostVars, disk, toHost, executed, crashes, losses>>

\* A line that does not parse is dropped: by handleIncomingLine on the device,
\* as a ProtocolError on the host.
LoseRequest(d) ==
  /\ losses < MaxLosses
  /\ toDevice[d] # <<>>
  /\ losses' = losses + 1
  /\ toDevice' = [toDevice EXCEPT ![d] = Tail(@)]
  /\ UNCHANGED <<hostVars, disk, toHost, deviceAccumulated, executed, crashes,
                 reboots>>

LoseResponse(d) ==
  /\ losses < MaxLosses
  /\ toHost[d] # <<>>
  /\ losses' = losses + 1
  /\ toHost' = [toHost EXCEPT ![d] = Tail(@)]
  /\ UNCHANGED <<hostVars, disk, toDevice, deviceAccumulated, executed, crashes,
                 reboots>>

-----------------------------------------------------------------------------
(* Answers: handle_message, handle_correction_response, mark_applied *)

\* States in which mark_applied ignores an answer as a duplicate.
\* Mutant: a rolled back transaction is not among them.
AnsweredButNotUndone == {"APPLIED", "VERIFYING", "COMPLETED"}
Answered == {"APPLIED", "VERIFYING", "COMPLETED", "ROLLED_BACK"}

\* The engine takes the oldest line of device d.
Receives(d) ==
  /\ mode = "idle"
  /\ toHost[d] # <<>>
  /\ toHost' = [toHost EXCEPT ![d] = Tail(@)]
  /\ UNCHANGED <<toDevice, deviceAccumulated, executed>>

\* The first answer: nothing but mark_applied happens.
ReceiveApplied(d) ==
  LET m == Head(toHost[d])
      r == txn[m.txn]
  IN  /\ Receives(d)
      /\ r.state \notin Answered
      /\ CanMove(r, "APPLIED")
      /\ Persist([txn EXCEPT ![m.txn] = Moved(r, "APPLIED")],
                 [accumulated EXCEPT ![r.device] = NewTotal(@, m.accumulated)],
                 [sinceCorrection EXCEPT ![r.device] = 0])
      /\ UNCHANGED <<mode, todo, health, measured, faultVars>>

\* A crash between save_transaction and save_all of that answer.
CrashInReceive(d) ==
  LET m == Head(toHost[d])
      r == txn[m.txn]
  IN  /\ Receives(d)
      /\ r.state \notin Answered
      /\ CanMove(r, "APPLIED")
      /\ \E image \in {WithTxn(disk, m.txn, Moved(r, "APPLIED"))} \cup CutOff :
           CrashLeaving(image)

\* A second answer, after a resend that was not needed.
ReceiveDuplicate(d) ==
  /\ Receives(d)
  /\ txn[Head(toHost[d]).txn].state \in Answered
  /\ UNCHANGED <<hostVars, disk, faultVars>>

\* An answer to a transaction the host has given up on, or does not know:
\* _transition or _require raises, nothing on the way to run() catches it,
\* and the engine shuts down.
ReceiveRaises(d) ==
  LET r == txn[Head(toHost[d]).txn]
  IN  /\ Receives(d)
      /\ r.state \notin Answered
      /\ ~CanMove(r, "APPLIED")
      /\ ProcessEnds("stopped", disk)
      /\ UNCHANGED faultVars

\* A SYNC_RESPONSE gives the host a sample of the device's clock.  (Virtual
\* devices echo inside request_sync and need no sample from before.)
Measure(d) ==
  /\ mode = "idle"
  /\ HasTransport
  /\ measured' = [measured EXCEPT ![d] = TRUE]
  /\ UNCHANGED <<mode, todo, txn, accumulated, sinceCorrection, health, disk,
                 wireVars, faultVars>>

-----------------------------------------------------------------------------
(* Polling and recovery *)

\* poll_pending_wire visits the SENT transactions, recover_on_startup the
\* unfinished ones; both run to their end before the engine reads again.
StartPoll ==
  /\ mode = "idle"
  /\ InState("SENT") # {}
  /\ mode' = "poll"
  /\ todo' = InState("SENT")
  /\ UNCHANGED <<txn, accumulated, sinceCorrection, health, measured, disk,
                 wireVars, faultVars>>

Visiting(t) == mode \in {"poll", "recover"} /\ t \in todo

Visited(t) ==
  /\ todo' = todo \ {t}
  /\ mode' = IF todo = {t} THEN "idle" ELSE mode

NotTimedOut(t) ==
  /\ Visiting(t)
  /\ txn[t].state = "SENT"
  /\ ~IsTimedOut(txn[t])
  /\ Visited(t)
  /\ UNCHANGED <<txn, accumulated, sinceCorrection, health, measured, disk,
                 wireVars, faultVars>>

Counted(r)   == [r EXCEPT !.retries = @ + 1]
Refreshed(r) == [r EXCEPT !.age = 0]

MayResend(t) ==
  /\ Visiting(t)
  /\ txn[t].state = "SENT"
  /\ IsTimedOut(txn[t])
  /\ ShouldRetry(txn[t].retries)

\* increment_retry, update_wire_sent, send.
Resend(t) ==
  LET r == Counted(txn[t])
  IN  /\ MayResend(t)
      /\ SaveTxnOnly(t, Refreshed(r))
      /\ toDevice' = IF HasTransport
                     THEN Put(toDevice, r.device, Request(t, r.retries, r.step))
                     ELSE toDevice
      /\ Visited(t)
      /\ UNCHANGED <<health, measured, toHost, deviceAccumulated, executed,
                     faultVars>>

CrashInResend(t) ==
  LET r == Counted(txn[t])
  IN  /\ MayResend(t)
      /\ \E image \in {WithTxn(disk, t, r), WithTxn(disk, t, Refreshed(r))}
                      \cup CutOff :
           CrashLeaving(image)
      /\ UNCHANGED wireVars

GiveUp(t) ==
  /\ Visiting(t)
  /\ txn[t].state = "SENT"
  /\ IsTimedOut(txn[t])
  /\ ~ShouldRetry(txn[t].retries)
  /\ SaveTxnOnly(t, Failed(txn[t], "wireTimeout"))
  /\ health' = [health EXCEPT !.failed = @ + 1]
  /\ Visited(t)
  /\ UNCHANGED <<measured, wireVars, faultVars>>

\* Recovery only: a transaction whose request never left.
RecoverUnsent(t) ==
  /\ Visiting(t)
  /\ txn[t].state = "CREATED"
  /\ SaveTxnOnly(t, Failed(txn[t], "neverSent"))
  /\ health' = [health EXCEPT !.failed = @ + 1]
  /\ Visited(t)
  /\ UNCHANGED <<measured, wireVars, faultVars>>

\* Recovery only: continue_verification.  On the wire the answer to its
\* SYNC_REQUEST cannot have arrived, so it looks at the last sample there is.
\* Mutant: an unanswered request is verified too.
AwaitsVerificationEarly(t) ==
  /\ Visiting(t)
  /\ txn[t].state \in {"SENT", "APPLIED", "VERIFYING"}
AwaitsVerification(t) ==
  /\ Visiting(t)
  /\ txn[t].state \in {"APPLIED", "VERIFYING"}

HasMeasurement(d) == HasTransport => measured[d]

VerifyCompletes(t) ==
  /\ AwaitsVerification(t)
  /\ HasMeasurement(txn[t].device)
  /\ SaveTxnOnly(t, Moved(txn[t], "COMPLETED"))
  /\ health' = [health EXCEPT !.ok = @ + 1]
  /\ Visited(t)
  /\ UNCHANGED <<measured, wireVars, faultVars>>

\* Not improved, or no measurement: fail, then rollback.  The host takes the
\* step out of its own books; the device is not told.
VerifyRollsBack(t) ==
  LET r == txn[t]
  IN  /\ AwaitsVerification(t)
      /\ Persist([txn EXCEPT ![t] = RolledBack(r)],
                 [accumulated EXCEPT ![r.device] = TakenBack(@, r.step)],
                 sinceCorrection)
      /\ health' = [health EXCEPT !.failed = @ + 1, !.rolledBack = @ + 1]
      /\ Visited(t)
      /\ UNCHANGED <<measured, wireVars, faultVars>>

CrashInVerify(t) ==
  /\ AwaitsVerification(t)
  /\ \E image \in {WithTxn(disk, t, r) : r \in {Moved(txn[t], "VERIFYING"),
                                               Failed(txn[t], "notVerified"),
                                               RolledBack(txn[t])}}
                  \cup CutOff :
       CrashLeaving(image)
  /\ UNCHANGED wireVars

-----------------------------------------------------------------------------
(* The process and the clock *)

\* Between two handlers, or between two visits.
Crash ==
  /\ Running
  /\ CrashLeaving(disk)
  /\ UNCHANGED wireVars

\* sync_startup: load the journal, recover what is unfinished.
Restart ==
  LET unfinished == {t \in Txns : disk.txn[t].state \in Unfinished}
  IN  /\ mode \in {"down", "stopped"}
      /\ disk.readable
      /\ txn' = disk.txn
      /\ accumulated' = disk.accumulated
      /\ sinceCorrection' = disk.sinceCorrection
      /\ todo' = unfinished
      /\ mode' = IF unfinished = {} THEN "idle" ELSE "recover"
      /\ UNCHANGED <<health, measured, disk, wireVars, faultVars>>

Older(age, bound) == Smaller(age + 1, bound)

AgedTxns(tx) ==
  [t \in Txns |-> IF tx[t].state = "SENT"
                  THEN [tx[t] EXCEPT !.age = Older(@, Timeout)]
                  ELSE tx[t]]
AgedSince(since) == [d \in Devices |-> Older(since[d], Cooldown)]

\* Time passes, for the host and for the timestamps it has written down.
Tick ==
  /\ txn' = AgedTxns(txn)
  /\ sinceCorrection' = AgedSince(sinceCorrection)
  /\ disk' = [disk EXCEPT !.txn = AgedTxns(@), !.sinceCorrection = AgedSince(@)]
  /\ UNCHANGED <<mode, todo, accumulated, health, measured, wireVars, faultVars>>

-----------------------------------------------------------------------------

Init ==
  /\ mode = "idle"
  /\ todo = {}
  /\ txn = NoTxns
  /\ accumulated = NothingDone
  /\ sinceCorrection = LongAgo
  /\ health = NoHealth
  /\ measured = NoSamples
  /\ disk = EmptyJournal
  /\ toDevice = [d \in Devices |-> <<>>]
  /\ toHost = [d \in Devices |-> <<>>]
  /\ deviceAccumulated = NothingDone
  /\ executed = [t \in Txns |-> {}]
  /\ crashes = 0
  /\ losses = 0
  /\ reboots = 0

Execute(t, d, offset) ==
  \/ ExecuteOnWire(t, d, offset)
  \/ ExecuteWithoutTransport(t, d, offset)
  \/ ExecuteSimulated(t, d, offset)
  \/ CrashInExecute(t, d, offset)
  \/ CrashInSimulated(t, d, offset)

Receive(d) == ReceiveApplied(d) \/ ReceiveDuplicate(d) \/ ReceiveRaises(d)

RetryOrFail(t) == NotTimedOut(t) \/ Resend(t) \/ GiveUp(t)

Recover(t) == RecoverUnsent(t) \/ VerifyCompletes(t) \/ VerifyRollsBack(t)

Next ==
  \/ \E t \in Txns, d \in Devices, offset \in Offsets : Execute(t, d, offset)
  \/ \E d \in Devices : \/ HandleCorrectionRequest(d)
                        \/ Receive(d)
                        \/ Measure(d)
                        \/ DeviceReboot(d)
                        \/ LoseRequest(d)
                        \/ LoseResponse(d)
                        \/ CrashInReceive(d)
  \/ \E t \in Txns : \/ RetryOrFail(t)
                     \/ Recover(t)
                     \/ CrashInResend(t)
                     \/ CrashInVerify(t)
  \/ StartPoll
  \/ Crash
  \/ Restart
  \/ Tick

Spec == Init /\ [][Next]_vars

\* The engine reads a line whenever there is one (run() alternates receive and
\* sync_poll), devices run their loop(), and time passes.  Nothing is assumed
\* of crashes, losses and restarts.
Fairness ==
  /\ WF_vars(Tick)
  /\ WF_vars(StartPoll)
  /\ \A t \in Txns : WF_vars(RetryOrFail(t) \/ Recover(t))
  /\ \A d \in Devices : WF_vars(HandleCorrectionRequest(d)) /\ SF_vars(Receive(d))

LiveSpec == Spec /\ Fairness

-----------------------------------------------------------------------------
(* Safety *)

Requests  == [txn : Txns, attempt : Nat, step : Nat]
Responses == [txn : Txns, accumulated : Nat]

Journals ==
  [txn : [Txns -> Records], accumulated : [Devices -> Nat],
   sinceCorrection : [Devices -> 0 .. Cooldown], readable : BOOLEAN]

HostTypeOK ==
  /\ mode \in {"idle", "poll", "recover", "down", "stopped"}
  /\ todo \subseteq Txns
  /\ txn \in [Txns -> Records]
  /\ accumulated \in [Devices -> Nat]
  /\ sinceCorrection \in [Devices -> 0 .. Cooldown]
  /\ health \in [ok : Nat, failed : Nat, rolledBack : Nat]
  /\ measured \in [Devices -> BOOLEAN]

WireTypeOK ==
  /\ toDevice \in [Devices -> Seq(Requests)]
  /\ toHost \in [Devices -> Seq(Responses)]
  /\ deviceAccumulated \in [Devices -> Nat]
  /\ executed \in [Txns -> SUBSET Nat]

FaultTypeOK == crashes \in Nat /\ losses \in Nat /\ reboots \in Nat

\* Every variable has its type.
TypeOK == HostTypeOK /\ disk \in Journals /\ WireTypeOK /\ FaultTypeOK

\* Whatever survives a crash was not claimed too early: a transaction the
\* journal calls applied, completed or rolled back was carried out by its
\* device (mark_applied only follows an answer).
AppliedIsReal ==
  \A t \in Txns : disk.txn[t].state \in Answered => executed[t] # {}

\* Write-ahead: a request is journalled as SENT, with its attempt counted,
\* before it is on the wire, so that no answer is ever to a transaction a
\* restarted host does not know (mark_sent and increment_retry come first).
RequestJournaled(d, m) ==
  LET r == disk.txn[m.txn]
  IN  /\ r.state \notin {"NONE", "CREATED"}
      /\ r.device = d
      /\ r.step = m.step
      /\ m.attempt <= r.retries

ResponseJournaled(d, m) ==
  LET r == disk.txn[m.txn]
  IN  /\ r.state \notin {"NONE", "CREATED"}
      /\ r.device = d
      /\ executed[m.txn] # {}

WireIsJournaled ==
  \A d \in Devices :
    /\ \A i \in DOMAIN toDevice[d] : RequestJournaled(d, toDevice[d][i])
    /\ \A i \in DOMAIN toHost[d] : ResponseJournaled(d, toHost[d][i])

\* Across crashes and restarts a device carries a transaction out at most
\* 1 + max_retries times: the retry budget is not refilled by a restart.
ExecutionsWithinRetryBudget ==
  \A t \in Txns : executed[t] \subseteq 0 .. MaxRetries

\* A timeout is declared only when every allowed attempt has been counted.
TimeoutSpendsAllRetries ==
  \A t \in Txns :
    disk.txn[t].reason = "wireTimeout" => disk.txn[t].retries >= MaxRetries

\* No outcome is counted twice, however recovery, polling and late answers
\* interleave: the reliability score is over outcomes the journal shows.
HealthNeverOvercounts ==
  /\ health.ok <= Cardinality(InState("COMPLETED"))
  /\ health.failed <= Cardinality(InState("FAILED") \cup InState("ROLLED_BACK"))
  /\ health.rolledBack <= Cardinality(InState("ROLLED_BACK"))

\* When recovery is over, no transaction is left in a state that only recovery
\* takes it out of (applied ones may come later, from the wire).
RecoveryIsComplete ==
  mode \in {"idle", "poll"} =>
    /\ InState("CREATED") \cup InState("VERIFYING") = {}
    /\ ~HasTransport => InState("APPLIED") = {}

\* The total the limit is checked against never exceeds what the device has
\* accumulated, as long as the device is not reset: the limit can be passed
\* unnoticed, never enforced too early.
BooksNeverExceedDevice ==
  HasTransport /\ reboots = 0 =>
    \A d \in Devices : disk.accumulated[d] <= deviceAccumulated[d]

\* The engine is brought down only by an answer to a transaction it has given
\* up on after sending it, never by one it does not know.
StopsOnlyOnLateAnswer ==
  [][mode # "stopped" /\ mode' = "stopped" =>
       \E d \in Devices :
         /\ toHost[d] # <<>>
         /\ txn[Head(toHost[d]).txn].state = "FAILED"
         /\ txn[Head(toHost[d]).txn].reason \in {"wireTimeout", "notVerified"}]_vars

-----------------------------------------------------------------------------
(* Liveness *)

\* Polling decides every request: it is answered or timed out, unless the
\* engine ends first.
SentIsDecided ==
  \A t \in Txns :
    txn[t].state = "SENT" ~> (txn[t].state # "SENT" \/ ~Running)

-----------------------------------------------------------------------------
(* The promise the protocol implements, on what the journal says *)

PhaseOf(s) ==
  CASE s = "NONE"        -> "idle"
    [] s \in Unfinished  -> "pending"
    [] s = "COMPLETED"   -> "completed"
    [] s = "FAILED"      -> "failed"
    [] s = "ROLLED_BACK" -> "rolledBack"

Lifecycle == INSTANCE CorrectionLifecycle WITH
               phase      <- [t \in Txns |-> PhaseOf(disk.txn[t].state)],
               carriedOut <- [t \in Txns |-> executed[t] # {}]

\* Settled once and for good, through crashes, retries and restarts.
KeepsLifecycle == Lifecycle!Spec

-----------------------------------------------------------------------------
(* What the code's own comments say, and the code does not do *)

\* "Physical correction safety limits": the device's total stays within
\* max_accumulated_correction_ms.  A correction still in flight is in nobody's
\* total when the next one is checked.
DeviceWithinLimit ==
  \A d \in Devices : deviceAccumulated[d] <= MaxAccumulated
=============================================================================
