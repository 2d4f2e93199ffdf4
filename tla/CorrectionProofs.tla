------------------------- MODULE CorrectionProofs -------------------------
(***************************************************************************)
(* Theorems about CorrectionProtocol, for every number of devices, of      *)
(* transactions and of faults, and every value of the limits: the types of *)
(* its variables, what recovery leaves behind, and what the host counts.   *)
(***************************************************************************)
EXTENDS CorrectionProtocol, FiniteSetTheorems, TLAPS

-----------------------------------------------------------------------------
(* What the operators return *)

LEMMA Bounds ==
  /\ Offsets \subseteq Nat
  /\ MaxStep \in Nat /\ MaxAccumulated \in Nat /\ MaxRetries \in Nat
  /\ MaxCrashes \in Nat /\ MaxLosses \in Nat /\ MaxReboots \in Nat
  /\ Cooldown \in Nat /\ Timeout \in Nat
  /\ 0 \in 0 .. Timeout /\ 0 \in 0 .. Cooldown /\ Cooldown \in 0 .. Cooldown
  BY NumbersAssumption

LEMMA StepForType == \A offset \in Offsets : StepFor(offset) \in Nat
  BY Bounds DEF StepFor, Smaller

LEMMA OlderType ==
  ASSUME NEW bound \in Nat, NEW age \in 0 .. bound
  PROVE  Older(age, bound) \in 0 .. bound
  BY DEF Older, Smaller

LEMMA TakenBackType ==
  ASSUME NEW acc \in Nat, NEW step \in Nat
  PROVE  TakenBack(acc, step) \in Nat
  BY DEF TakenBack

LEMMA NoRecordType == NoRecord \in Records
  BY Bounds DEF NoRecord, Records, States, Reasons

LEMMA NewRecordType ==
  ASSUME NEW d \in Devices, NEW step \in Nat
  PROVE  /\ NewRecord(d, step) \in Records
         /\ NewRecord(d, step).state = "CREATED"
         /\ NewRecord(d, step).device = d
         /\ NewRecord(d, step).step = step
         /\ NewRecord(d, step).retries = 0
         /\ NewRecord(d, step).reason = "none"
  BY Bounds DEF NewRecord, NoRecord, Records, States, Reasons

LEMMA RecordUpdates ==
  ASSUME NEW r \in Records
  PROVE  /\ \A s \in States : Moved(r, s) \in Records
         /\ \A why \in Reasons : Failed(r, why) \in Records
         /\ RolledBack(r) \in Records
         /\ Counted(r) \in Records
         /\ Refreshed(r) \in Records
<1>1. \A s \in States : Moved(r, s) \in Records
  BY DEF Records, Moved
<1>2. \A why \in Reasons : Failed(r, why) \in Records
  BY DEF Records, States, Failed
<1>3. RolledBack(r) \in Records
  BY DEF Records, States, Reasons, RolledBack
<1>4. Counted(r) \in Records
  BY DEF Records, Counted
<1>5. Refreshed(r) \in Records
  BY Bounds DEF Records, Refreshed
<1> QED
  BY <1>1, <1>2, <1>3, <1>4, <1>5

LEMMA EmptyMemoryType ==
  /\ NoTxns \in [Txns -> Records]
  /\ NothingDone \in [Devices -> Nat]
  /\ LongAgo \in [Devices -> 0 .. Cooldown]
  /\ NoHealth \in [ok : Nat, failed : Nat, rolledBack : Nat]
  /\ NoSamples \in [Devices -> BOOLEAN]
  /\ EmptyJournal \in Journals
<1>1. NoTxns \in [Txns -> Records]
  BY NoRecordType DEF NoTxns
<1>2. LongAgo \in [Devices -> 0 .. Cooldown] /\ NothingDone \in [Devices -> Nat]
  BY Bounds DEF LongAgo, NothingDone
<1> QED
  BY <1>1, <1>2 DEF NoHealth, NoSamples, EmptyJournal, Journals

LEMMA AgedTxnsType ==
  ASSUME NEW tx \in [Txns -> Records]
  PROVE  AgedTxns(tx) \in [Txns -> Records]
<1> SUFFICES ASSUME NEW t \in Txns
             PROVE  AgedTxns(tx)[t] \in Records
  BY DEF AgedTxns
<1>1. tx[t] \in Records /\ tx[t].age \in 0 .. Timeout
  BY DEF Records
<1>2. Older(tx[t].age, Timeout) \in 0 .. Timeout
  BY <1>1, OlderType, Bounds
<1>3. [tx[t] EXCEPT !.age = Older(@, Timeout)] \in Records
  BY <1>1, <1>2 DEF Records
<1> QED
  BY <1>1, <1>3 DEF AgedTxns

LEMMA AgedSinceType ==
  ASSUME NEW since \in [Devices -> 0 .. Cooldown]
  PROVE  AgedSince(since) \in [Devices -> 0 .. Cooldown]
  BY OlderType, Bounds DEF AgedSince

LEMMA WithTxnType ==
  ASSUME NEW image \in Journals, NEW t \in Txns, NEW r \in Records
  PROVE  WithTxn(image, t, r) \in Journals
  BY DEF Journals, WithTxn

LEMMA BookedType ==
  ASSUME NEW image \in Journals, NEW d \in Devices, NEW acc \in Nat
  PROVE  Booked(image, d, acc) \in Journals
  BY Bounds DEF Journals, Booked

LEMMA CutOffType == disk \in Journals => CutOff \subseteq Journals
  BY DEF CutOff, Journals

-----------------------------------------------------------------------------
(* The pieces handlers are made of keep the types *)

LEMMA PersistType ==
  ASSUME NEW tx \in [Txns -> Records],
         NEW acc \in [Devices -> Nat],
         NEW since \in [Devices -> 0 .. Cooldown],
         Persist(tx, acc, since)
  PROVE  /\ txn' \in [Txns -> Records]
         /\ accumulated' \in [Devices -> Nat]
         /\ sinceCorrection' \in [Devices -> 0 .. Cooldown]
         /\ disk' \in Journals
  BY DEF Persist, Snapshot, Journals

LEMMA SaveTxnOnlyType ==
  ASSUME TypeOK, NEW t \in Txns, NEW r \in Records, SaveTxnOnly(t, r)
  PROVE  /\ txn' \in [Txns -> Records]
         /\ accumulated' \in [Devices -> Nat]
         /\ sinceCorrection' \in [Devices -> 0 .. Cooldown]
         /\ disk' \in Journals
<1>1. [txn EXCEPT ![t] = r] \in [Txns -> Records]
  BY DEF TypeOK, HostTypeOK
<1> QED
  BY <1>1, PersistType DEF TypeOK, HostTypeOK, SaveTxnOnly

LEMMA ProcessEndsType ==
  ASSUME NEW how \in {"down", "stopped"}, NEW image \in Journals,
         ProcessEnds(how, image)
  PROVE  HostTypeOK' /\ (disk \in Journals)'
  BY EmptyMemoryType DEF ProcessEnds, HostTypeOK

LEMMA CrashType ==
  ASSUME FaultTypeOK, NEW image \in Journals, CrashLeaving(image)
  PROVE  HostTypeOK' /\ (disk \in Journals)' /\ FaultTypeOK'
<1>1. ProcessEnds("down", image)
  BY DEF CrashLeaving
<1>2. HostTypeOK' /\ (disk \in Journals)'
  BY <1>1, ProcessEndsType
<1>3. FaultTypeOK'
  BY DEF CrashLeaving, FaultTypeOK
<1> QED
  BY <1>2, <1>3

LEMMA VisitedType ==
  ASSUME HostTypeOK, NEW t \in Txns, Visited(t)
  PROVE  /\ mode' \in {"idle", "poll", "recover", "down", "stopped"}
         /\ todo' \subseteq Txns
  BY DEF HostTypeOK, Visited

Tallies == [ok : Nat, failed : Nat, rolledBack : Nat]

LEMMA HealthType ==
  ASSUME NEW h \in Tallies
  PROVE  /\ [h EXCEPT !.ok = @ + 1] \in Tallies
         /\ [h EXCEPT !.failed = @ + 1] \in Tallies
         /\ [h EXCEPT !.failed = @ + 1, !.rolledBack = @ + 1] \in Tallies
<1>1. [h EXCEPT !.ok = @ + 1] \in Tallies
  BY DEF Tallies
<1>2. [h EXCEPT !.failed = @ + 1] \in Tallies
  BY DEF Tallies
<1>3. [h EXCEPT !.failed = @ + 1, !.rolledBack = @ + 1] \in Tallies
  <2>1. h.failed + 1 \in Nat /\ h.rolledBack + 1 \in Nat
    BY DEF Tallies
  <2> DEFINE f == h.failed + 1
  <2> DEFINE b == h.rolledBack + 1
  <2>2. f \in Nat /\ b \in Nat
    BY <2>1
  <2> HIDE DEF f, b
  <2>3. [h EXCEPT !.failed = f, !.rolledBack = b] \in Tallies
    BY <2>2 DEF Tallies
  <2> QED
    BY <2>3 DEF f, b
<1> QED
  BY <1>1, <1>2, <1>3

\* A line of the wire loses its head or gains a message.
LEMMA WireOps ==
  ASSUME NEW S, NEW line \in [Devices -> Seq(S)], NEW d \in Devices
  PROVE  /\ \A m \in S : Put(line, d, m) \in [Devices -> Seq(S)]
         /\ line[d] # <<>> => Head(line[d]) \in S
         /\ line[d] # <<>> => [line EXCEPT ![d] = Tail(@)] \in [Devices -> Seq(S)]
<1>1. line[d] \in Seq(S)
  OBVIOUS
<1>2. \A m \in S : Append(line[d], m) \in Seq(S)
  BY <1>1
<1>3. line[d] # <<>> => Tail(line[d]) \in Seq(S) /\ Head(line[d]) \in S
  BY <1>1
<1> QED
  BY <1>2, <1>3 DEF Put

-----------------------------------------------------------------------------
(* Types, handler by handler *)

LEMMA ExecuteTypes ==
  ASSUME TypeOK, NEW t \in Txns, NEW d \in Devices, NEW offset \in Offsets,
         Execute(t, d, offset)
  PROVE  TypeOK'
<1> DEFINE step == StepFor(offset)
<1> DEFINE r == NewRecord(d, step)
<1>1. step \in Nat
  BY StepForType
<1> HIDE DEF step
<1>2. r \in Records
  BY <1>1, NewRecordType
<1> HIDE DEF r
<1>3. /\ \A s \in States : Moved(r, s) \in Records
      /\ \A why \in Reasons : Failed(r, why) \in Records
      /\ RolledBack(r) \in Records
  BY <1>2, RecordUpdates
<1>4. /\ Moved(r, "SENT") \in Records
      /\ Moved(r, "APPLIED") \in Records
      /\ Moved(r, "VERIFYING") \in Records
      /\ Moved(r, "COMPLETED") \in Records
      /\ Failed(r, "noTransport") \in Records
      /\ Failed(r, "notVerified") \in Records
  BY <1>3 DEF States, Reasons
<1>5. Request(t, 0, step) \in Requests
  BY <1>1 DEF Request, Requests
<1>6. CASE ExecuteOnWire(t, d, offset)
  <2>1. SaveTxnOnly(t, Moved(r, "SENT")) /\ toDevice' = Put(toDevice, d, Request(t, 0, step))
    BY <1>6 DEF ExecuteOnWire, r, step
  <2>2. toDevice' \in [Devices -> Seq(Requests)]
    BY <1>5, <2>1, WireOps DEF TypeOK, WireTypeOK
  <2>3. HostTypeOK' /\ (disk \in Journals)'
    BY <1>4, <1>6, <2>1, SaveTxnOnlyType DEF ExecuteOnWire, TypeOK, HostTypeOK
  <2> QED
    BY <1>6, <2>2, <2>3 DEF ExecuteOnWire, TypeOK, WireTypeOK, FaultTypeOK, faultVars
<1>7. CASE ExecuteWithoutTransport(t, d, offset)
  <2>1. SaveTxnOnly(t, Failed(r, "noTransport"))
    BY <1>7 DEF ExecuteWithoutTransport, r, step
  <2>2. HostTypeOK' /\ (disk \in Journals)'
    BY <1>4, <1>7, <2>1, SaveTxnOnlyType, HealthType
       DEF ExecuteWithoutTransport, TypeOK, HostTypeOK, Tallies
  <2> QED
    BY <1>7, <2>2 DEF ExecuteWithoutTransport, TypeOK, WireTypeOK, FaultTypeOK,
                      wireVars, faultVars
<1>8. CASE ExecuteSimulated(t, d, offset)
  <2> DEFINE since == [sinceCorrection EXCEPT ![d] = 0]
  <2> DEFINE Outcome(final, acc) ==
               Persist([txn EXCEPT ![t] = final], [accumulated EXCEPT ![d] = acc], since)
  <2>1. \/ /\ Outcome(Moved(r, "COMPLETED"), SimulatedAccumulated)
           /\ health' = [health EXCEPT !.ok = @ + 1]
        \/ /\ Outcome(RolledBack(r), TakenBack(SimulatedAccumulated, step))
           /\ health' = [health EXCEPT !.failed = @ + 1, !.rolledBack = @ + 1]
    BY <1>8 DEF ExecuteSimulated, r, step
  <2>2. since \in [Devices -> 0 .. Cooldown]
    BY Bounds DEF TypeOK, HostTypeOK
  <2> HIDE DEF since
  <2>3. SimulatedAccumulated \in Nat /\ TakenBack(SimulatedAccumulated, step) \in Nat
    BY <1>1, TakenBackType DEF SimulatedAccumulated
  <2>4. ASSUME NEW final \in Records, NEW acc \in Nat, Outcome(final, acc)
        PROVE  /\ txn' \in [Txns -> Records]
               /\ accumulated' \in [Devices -> Nat]
               /\ sinceCorrection' \in [Devices -> 0 .. Cooldown]
               /\ disk' \in Journals
    <3>1. /\ [txn EXCEPT ![t] = final] \in [Txns -> Records]
          /\ [accumulated EXCEPT ![d] = acc] \in [Devices -> Nat]
      BY DEF TypeOK, HostTypeOK
    <3> QED
      BY <2>2, <2>4, <3>1, PersistType
  <2> HIDE DEF Outcome
  <2>5. /\ txn' \in [Txns -> Records]
        /\ accumulated' \in [Devices -> Nat]
        /\ sinceCorrection' \in [Devices -> 0 .. Cooldown]
        /\ disk' \in Journals
    BY <1>3, <1>4, <2>1, <2>3, <2>4
  <2>6. health' \in Tallies
    BY <2>1, HealthType DEF TypeOK, HostTypeOK, Tallies
  <2>7. executed' \in [Txns -> SUBSET Nat]
    BY <1>8 DEF ExecuteSimulated, TypeOK, WireTypeOK
  <2> QED
    BY <1>8, <2>5, <2>6, <2>7
       DEF ExecuteSimulated, TypeOK, HostTypeOK, WireTypeOK, FaultTypeOK, faultVars, Tallies
<1>9. CASE CrashInExecute(t, d, offset)
  <2>1. PICK image \in {WithTxn(disk, t, r), WithTxn(disk, t, Moved(r, "SENT"))}
                         \cup CutOff : CrashLeaving(image)
    BY <1>9 DEF CrashInExecute, r, step
  <2>2. image \in Journals
    BY <1>2, <1>4, WithTxnType, CutOffType DEF TypeOK
  <2> QED
    BY <1>9, <2>1, <2>2, CrashType DEF CrashInExecute, TypeOK, WireTypeOK, wireVars
<1>10. CASE CrashInSimulated(t, d, offset)
  <2> DEFINE booked == Booked(disk, d, SimulatedAccumulated)
  <2>1. PICK image \in {WithTxn(disk, t, Moved(r, "APPLIED")),
                        WithTxn(booked, t, Moved(r, "APPLIED")),
                        WithTxn(booked, t, Moved(r, "VERIFYING")),
                        WithTxn(booked, t, Failed(r, "notVerified"))} :
          CrashLeaving(image)
    BY <1>10 DEF CrashInSimulated, r, step
  <2>2. booked \in Journals
    BY BookedType DEF TypeOK, SimulatedAccumulated
  <2>3. image \in Journals
    BY <1>4, <2>2, WithTxnType DEF TypeOK
  <2>4. executed' \in [Txns -> SUBSET Nat]
    BY <1>10 DEF CrashInSimulated, TypeOK, WireTypeOK
  <2> QED
    BY <1>10, <2>1, <2>3, <2>4, CrashType DEF CrashInSimulated, TypeOK, WireTypeOK
<1> QED
  BY <1>6, <1>7, <1>8, <1>9, <1>10 DEF Execute

LEMMA WireTypes ==
  ASSUME TypeOK, NEW d \in Devices,
         HandleCorrectionRequest(d) \/ DeviceReboot(d) \/ LoseRequest(d) \/ LoseResponse(d)
  PROVE  TypeOK'
<1>1. CASE HandleCorrectionRequest(d)
  <2> DEFINE m == Head(toDevice[d])
  <2> DEFINE acc == deviceAccumulated[d] + m.step
  <2>1. m \in Requests
    BY <1>1, WireOps DEF HandleCorrectionRequest, TypeOK, WireTypeOK
  <2>2. m.txn \in Txns /\ m.attempt \in Nat /\ m.step \in Nat
    BY <2>1 DEF Requests
  <2>3. acc \in Nat
    BY <2>2 DEF TypeOK, WireTypeOK
  <2>4. Response(m.txn, acc) \in Responses
    BY <2>2, <2>3 DEF Response, Responses
  <2>5. toHost' \in [Devices -> Seq(Responses)]
    BY <1>1, <2>4, WireOps DEF HandleCorrectionRequest, TypeOK, WireTypeOK
  <2>6. toDevice' \in [Devices -> Seq(Requests)]
    BY <1>1, WireOps DEF HandleCorrectionRequest, TypeOK, WireTypeOK
  <2>7. deviceAccumulated' \in [Devices -> Nat] /\ executed' \in [Txns -> SUBSET Nat]
    BY <1>1, <2>2, <2>3 DEF HandleCorrectionRequest, TypeOK, WireTypeOK
  <2> QED
    BY <1>1, <2>5, <2>6, <2>7
       DEF HandleCorrectionRequest, TypeOK, HostTypeOK, WireTypeOK, FaultTypeOK,
           hostVars, faultVars
<1>2. CASE DeviceReboot(d)
  BY <1>2 DEF DeviceReboot, TypeOK, HostTypeOK, WireTypeOK, FaultTypeOK, hostVars
<1>3. CASE LoseRequest(d)
  <2>1. toDevice' \in [Devices -> Seq(Requests)]
    BY <1>3, WireOps DEF LoseRequest, TypeOK, WireTypeOK
  <2> QED
    BY <1>3, <2>1, SMTT(20) DEF LoseRequest, TypeOK, HostTypeOK, WireTypeOK, FaultTypeOK, hostVars
<1>4. CASE LoseResponse(d)
  <2>1. toHost' \in [Devices -> Seq(Responses)]
    BY <1>4, WireOps DEF LoseResponse, TypeOK, WireTypeOK
  <2> QED
    BY <1>4, <2>1, SMTT(20) DEF LoseResponse, TypeOK, HostTypeOK, WireTypeOK, FaultTypeOK, hostVars
<1> QED
  BY <1>1, <1>2, <1>3, <1>4

LEMMA ReceiveTypes ==
  ASSUME TypeOK, NEW d \in Devices, Receive(d) \/ CrashInReceive(d)
  PROVE  TypeOK'
<1> DEFINE m == Head(toHost[d])
<1> DEFINE r == txn[m.txn]
<1>1. Receives(d)
  BY DEF Receive, ReceiveApplied, ReceiveDuplicate, ReceiveRaises, CrashInReceive
<1>2. m \in Responses
  BY <1>1, WireOps DEF Receives, TypeOK, WireTypeOK
<1>3. m.txn \in Txns /\ m.accumulated \in Nat
  BY <1>2 DEF Responses
<1>4. r \in Records
  BY <1>3 DEF TypeOK, HostTypeOK
<1>5. WireTypeOK'
  BY <1>1, WireOps DEF Receives, TypeOK, WireTypeOK
<1>6. Moved(r, "APPLIED") \in Records
  BY <1>4, RecordUpdates DEF States
<1>7. CASE ReceiveApplied(d)
  <2>1. [txn EXCEPT ![m.txn] = Moved(r, "APPLIED")] \in [Txns -> Records]
    BY <1>6 DEF TypeOK, HostTypeOK
  <2>2. \A e : [accumulated EXCEPT ![e] = NewTotal(@, m.accumulated)] \in [Devices -> Nat]
    BY <1>3 DEF TypeOK, HostTypeOK, NewTotal
  <2>3. \A e : [sinceCorrection EXCEPT ![e] = 0] \in [Devices -> 0 .. Cooldown]
    BY Bounds DEF TypeOK, HostTypeOK
  <2>4. HostTypeOK' /\ (disk \in Journals)'
    BY <1>7, <2>1, <2>2, <2>3, PersistType DEF ReceiveApplied, TypeOK, HostTypeOK
  <2> QED
    BY <1>5, <1>7, <2>4 DEF ReceiveApplied, TypeOK, FaultTypeOK, faultVars
<1>8. CASE ReceiveDuplicate(d)
  BY <1>5, <1>8 DEF ReceiveDuplicate, TypeOK, HostTypeOK, FaultTypeOK, hostVars, faultVars
<1>9. CASE ReceiveRaises(d)
  BY <1>5, <1>9, ProcessEndsType DEF ReceiveRaises, TypeOK, FaultTypeOK, faultVars
<1>10. CASE CrashInReceive(d)
  <2>1. PICK image \in {WithTxn(disk, m.txn, Moved(r, "APPLIED"))} \cup CutOff :
          CrashLeaving(image)
    BY <1>10 DEF CrashInReceive
  <2>2. image \in Journals
    BY <1>3, <1>6, WithTxnType, CutOffType DEF TypeOK
  <2> QED
    BY <1>5, <2>1, <2>2, CrashType DEF TypeOK
<1> QED
  BY <1>7, <1>8, <1>9, <1>10 DEF Receive

LEMMA VisitTypes ==
  ASSUME TypeOK, NEW t \in Txns,
         RetryOrFail(t) \/ Recover(t) \/ CrashInResend(t) \/ CrashInVerify(t)
  PROVE  TypeOK'
<1> DEFINE r == txn[t]
<1>1. r \in Records
  BY DEF TypeOK, HostTypeOK
<1>2. /\ \A s \in States : Moved(r, s) \in Records
      /\ \A why \in Reasons : Failed(r, why) \in Records
      /\ RolledBack(r) \in Records
      /\ Counted(r) \in Records
      /\ Refreshed(r) \in Records
      /\ Refreshed(Counted(r)) \in Records
  BY <1>1, RecordUpdates
<1>3. /\ Moved(r, "COMPLETED") \in Records
      /\ Moved(r, "VERIFYING") \in Records
      /\ Failed(r, "wireTimeout") \in Records
      /\ Failed(r, "neverSent") \in Records
      /\ Failed(r, "notVerified") \in Records
  BY <1>2 DEF States, Reasons
<1>4. /\ [health EXCEPT !.ok = @ + 1] \in Tallies
      /\ [health EXCEPT !.failed = @ + 1] \in Tallies
      /\ [health EXCEPT !.failed = @ + 1, !.rolledBack = @ + 1] \in Tallies
  BY HealthType DEF TypeOK, HostTypeOK, Tallies
<1>5. CASE NotTimedOut(t)
  BY <1>5, VisitedType
     DEF NotTimedOut, TypeOK, HostTypeOK, WireTypeOK, FaultTypeOK, wireVars, faultVars
<1>6. CASE Resend(t)
  <2>1. SaveTxnOnly(t, Refreshed(Counted(r))) /\ Visited(t)
    BY <1>6 DEF Resend
  <2>2. /\ txn' \in [Txns -> Records]
        /\ accumulated' \in [Devices -> Nat]
        /\ sinceCorrection' \in [Devices -> 0 .. Cooldown]
        /\ disk' \in Journals
    BY <1>2, <2>1, SaveTxnOnlyType
  <2>3. HostTypeOK' /\ (disk \in Journals)'
    BY <1>6, <2>1, <2>2, VisitedType DEF Resend, TypeOK, HostTypeOK
  <2>4. toDevice' \in [Devices -> Seq(Requests)]
    <3> DEFINE c == Counted(r)
    <3> DEFINE m == Request(t, c.retries, c.step)
    <3>1. c \in Records
      BY <1>2
    <3>2. m \in Requests
      BY <3>1 DEF Request, Requests, Records
    <3>3. toDevice' = toDevice \/ toDevice' = Put(toDevice, c.device, m)
      BY <1>6 DEF Resend
    <3>4. CASE c.device \in Devices
      <4>1. toDevice \in [Devices -> Seq(Requests)]
        BY DEF TypeOK, WireTypeOK
      <4> HIDE DEF c, m
      <4>2. Put(toDevice, c.device, m) \in [Devices -> Seq(Requests)]
        BY <3>2, <3>4, <4>1, WireOps
      <4> QED
        BY <3>3, <4>1, <4>2
    <3>5. CASE c.device \notin Devices
      <4>1. toDevice' = toDevice
        BY <3>3, <3>5 DEF Put, TypeOK, WireTypeOK
      <4> QED
        BY <4>1 DEF TypeOK, WireTypeOK
    <3> QED
      BY <3>4, <3>5
  <2> QED
    BY <1>6, <2>3, <2>4 DEF Resend, TypeOK, WireTypeOK, FaultTypeOK, faultVars
<1>7. CASE GiveUp(t)
  <2>1. HostTypeOK' /\ (disk \in Journals)'
    BY <1>3, <1>4, <1>7, VisitedType, SaveTxnOnlyType
       DEF GiveUp, TypeOK, HostTypeOK, Tallies
  <2> QED
    BY <1>7, <2>1 DEF GiveUp, TypeOK, WireTypeOK, FaultTypeOK, wireVars, faultVars
<1>8. CASE RecoverUnsent(t)
  <2>1. HostTypeOK' /\ (disk \in Journals)'
    BY <1>3, <1>4, <1>8, VisitedType, SaveTxnOnlyType
       DEF RecoverUnsent, TypeOK, HostTypeOK, Tallies
  <2> QED
    BY <1>8, <2>1 DEF RecoverUnsent, TypeOK, WireTypeOK, FaultTypeOK, wireVars, faultVars
<1>9. CASE VerifyCompletes(t)
  <2>1. HostTypeOK' /\ (disk \in Journals)'
    BY <1>3, <1>4, <1>9, VisitedType, SaveTxnOnlyType
       DEF VerifyCompletes, TypeOK, HostTypeOK, Tallies
  <2> QED
    BY <1>9, <2>1 DEF VerifyCompletes, TypeOK, WireTypeOK, FaultTypeOK, wireVars, faultVars
<1>10. CASE VerifyRollsBack(t)
  <2>1. [txn EXCEPT ![t] = RolledBack(r)] \in [Txns -> Records]
    BY <1>2 DEF TypeOK, HostTypeOK
  <2>2. [accumulated EXCEPT ![r.device] = TakenBack(@, r.step)] \in [Devices -> Nat]
    BY <1>1, TakenBackType DEF TypeOK, HostTypeOK, Records
  <2>3. HostTypeOK' /\ (disk \in Journals)'
    BY <1>4, <1>10, <2>1, <2>2, VisitedType, PersistType
       DEF VerifyRollsBack, TypeOK, HostTypeOK, Tallies
  <2> QED
    BY <1>10, <2>3 DEF VerifyRollsBack, TypeOK, WireTypeOK, FaultTypeOK, wireVars, faultVars
<1>11. CASE CrashInResend(t)
  <2>1. PICK image \in {WithTxn(disk, t, Counted(r)), WithTxn(disk, t, Refreshed(Counted(r)))}
                         \cup CutOff : CrashLeaving(image)
    BY <1>11 DEF CrashInResend
  <2>2. image \in Journals
    BY <1>2, WithTxnType, CutOffType DEF TypeOK
  <2> QED
    BY <1>11, <2>1, <2>2, CrashType DEF CrashInResend, TypeOK, WireTypeOK, wireVars
<1>12. CASE CrashInVerify(t)
  <2>1. PICK image \in {WithTxn(disk, t, q) : q \in {Moved(r, "VERIFYING"),
                                                    Failed(r, "notVerified"),
                                                    RolledBack(r)}} \cup CutOff :
          CrashLeaving(image)
    BY <1>12 DEF CrashInVerify
  <2>2. image \in Journals
    BY <1>2, <1>3, WithTxnType, CutOffType DEF TypeOK
  <2> QED
    BY <1>12, <2>1, <2>2, CrashType DEF CrashInVerify, TypeOK, WireTypeOK, wireVars
<1> QED
  BY <1>5, <1>6, <1>7, <1>8, <1>9, <1>10, <1>11, <1>12 DEF RetryOrFail, Recover

LEMMA ProcessTypes ==
  ASSUME TypeOK, StartPoll \/ Crash \/ Restart \/ Tick \/ (\E d \in Devices : Measure(d))
  PROVE  TypeOK'
<1>1. CASE StartPoll
  BY <1>1 DEF StartPoll, InState, TypeOK, HostTypeOK, WireTypeOK, FaultTypeOK,
              wireVars, faultVars
<1>2. CASE Crash
  BY <1>2, CrashType DEF Crash, TypeOK, WireTypeOK, wireVars
<1>3. CASE Restart
  <2>1. /\ disk.txn \in [Txns -> Records]
        /\ disk.accumulated \in [Devices -> Nat]
        /\ disk.sinceCorrection \in [Devices -> 0 .. Cooldown]
    BY DEF TypeOK, Journals
  <2>2. HostTypeOK'
    BY <1>3, <2>1 DEF Restart, TypeOK, HostTypeOK
  <2> QED
    BY <1>3, <2>2 DEF Restart, TypeOK, WireTypeOK, FaultTypeOK, wireVars, faultVars
<1>4. CASE Tick
  <2>1. /\ AgedTxns(disk.txn) \in [Txns -> Records]
        /\ AgedSince(disk.sinceCorrection) \in [Devices -> 0 .. Cooldown]
    BY AgedTxnsType, AgedSinceType DEF TypeOK, Journals
  <2>2. disk' \in Journals
    BY <1>4, <2>1 DEF Tick, TypeOK, Journals
  <2>3. HostTypeOK'
    BY <1>4, AgedTxnsType, AgedSinceType DEF Tick, TypeOK, HostTypeOK
  <2> QED
    BY <1>4, <2>2, <2>3 DEF Tick, TypeOK, WireTypeOK, FaultTypeOK, wireVars, faultVars
<1>5. ASSUME NEW d \in Devices, Measure(d)
      PROVE  TypeOK'
  BY <1>5 DEF Measure, TypeOK, HostTypeOK, WireTypeOK, FaultTypeOK, wireVars, faultVars
<1> QED
  BY <1>1, <1>2, <1>3, <1>4, <1>5

LEMMA InitTypes == Init => TypeOK
  BY EmptyMemoryType DEF Init, TypeOK, HostTypeOK, WireTypeOK, FaultTypeOK

LEMMA NextTypes == TypeOK /\ [Next]_vars => TypeOK'
<1> SUFFICES ASSUME TypeOK, [Next]_vars PROVE TypeOK'
  OBVIOUS
<1>1. CASE Next
  BY <1>1, ExecuteTypes, WireTypes, ReceiveTypes, VisitTypes, ProcessTypes DEF Next
<1>2. CASE UNCHANGED vars
  BY <1>2 DEF TypeOK, HostTypeOK, WireTypeOK, FaultTypeOK, vars, hostVars, wireVars, faultVars
<1> QED
  BY <1>1, <1>2

\* Every variable keeps its type: in particular no total and no counter
\* becomes negative, and no timestamp is older than what it is compared with.
THEOREM TypeCorrect == Spec => []TypeOK
  BY InitTypes, NextTypes, PTL DEF Spec

-----------------------------------------------------------------------------
(* What a step does to the host's transactions and to the outcomes counted *)

Settled == {"COMPLETED", "FAILED", "ROLLED_BACK"}

\* A state that only recovery takes a transaction out of.
Unresolved(r) ==
  r.state \in {"CREATED", "VERIFYING"} \/ (~HasTransport /\ r.state = "APPLIED")

\* Nothing is on the wire of virtual devices.
WireNeedsTransport ==
  ~HasTransport => \A d \in Devices : toDevice[d] = <<>> /\ toHost[d] = <<>>

CountedAs(s) ==
  /\ health'.ok = IF s = "COMPLETED" THEN health.ok + 1 ELSE health.ok
  /\ health'.failed = IF s \in {"FAILED", "ROLLED_BACK"} THEN health.failed + 1
                                                        ELSE health.failed
  /\ health'.rolledBack = IF s = "ROLLED_BACK" THEN health.rolledBack + 1
                                               ELSE health.rolledBack

\* The record of one transaction becomes q, and an outcome is counted.
Advances(t, q) ==
  /\ q \in Records
  /\ txn[t].state \notin Settled
  /\ q.state # "NONE" /\ ~Unresolved(q)
  /\ txn' = [txn EXCEPT ![t] = q]
  /\ CountedAs(q.state)

InPlace == mode = "idle" /\ UNCHANGED <<mode, todo>>
Visits(t) == Visiting(t) /\ Visited(t)

StatesKept ==
  /\ \A t \in Txns : txn'[t].state = txn[t].state
  /\ health' = health

HostRests == StatesKept /\ (UNCHANGED <<mode, todo>> \/ (mode = "idle" /\ mode' = "poll"))
HostAdvances(t) == \E q \in Records : Advances(t, q) /\ (InPlace \/ Visits(t))
HostWaits(t) == StatesKept /\ Visits(t) /\ txn[t].state = "SENT"
HostEnds == mode' \in {"down", "stopped"} /\ txn' = NoTxns /\ health' = NoHealth
HostRestarts ==
  /\ ~Running
  /\ txn' = disk.txn
  /\ health' = health
  /\ todo' = {t \in Txns : disk.txn[t].state \in Unfinished}
  /\ mode' = IF todo' = {} THEN "idle" ELSE "recover"

HostStep ==
  \/ HostRests
  \/ \E t \in Txns : HostAdvances(t) \/ HostWaits(t)
  \/ HostEnds
  \/ HostRestarts

LEMMA TallyFields ==
  ASSUME NEW h \in Tallies
  PROVE  /\ [h EXCEPT !.ok = @ + 1].ok = h.ok + 1
         /\ [h EXCEPT !.ok = @ + 1].failed = h.failed
         /\ [h EXCEPT !.ok = @ + 1].rolledBack = h.rolledBack
         /\ [h EXCEPT !.failed = @ + 1].ok = h.ok
         /\ [h EXCEPT !.failed = @ + 1].failed = h.failed + 1
         /\ [h EXCEPT !.failed = @ + 1].rolledBack = h.rolledBack
         /\ [h EXCEPT !.failed = @ + 1, !.rolledBack = @ + 1].ok = h.ok
         /\ [h EXCEPT !.failed = @ + 1, !.rolledBack = @ + 1].failed = h.failed + 1
         /\ [h EXCEPT !.failed = @ + 1, !.rolledBack = @ + 1].rolledBack = h.rolledBack + 1
  BY DEF Tallies

LEMMA RecordStates ==
  ASSUME NEW r \in Records
  PROVE  /\ \A s : Moved(r, s).state = s
         /\ \A why : Failed(r, why).state = "FAILED"
         /\ RolledBack(r).state = "ROLLED_BACK"
         /\ Counted(r).state = r.state
         /\ Refreshed(r).state = r.state
  BY DEF Records, Moved, Failed, RolledBack, Counted, Refreshed

LEMMA EndsWhenCrashing ==
  ASSUME NEW image, CrashLeaving(image)
  PROVE  HostEnds
  BY DEF CrashLeaving, ProcessEnds, HostEnds

LEMMA ExecuteAdvances ==
  ASSUME TypeOK, NEW t \in Txns, NEW d \in Devices, NEW offset \in Offsets,
         Execute(t, d, offset)
  PROVE  HostStep
<1> DEFINE step == StepFor(offset)
<1> DEFINE r == NewRecord(d, step)
<1>1. r \in Records
  BY StepForType, NewRecordType
<1>2. /\ Moved(r, "SENT") \in Records /\ Moved(r, "COMPLETED") \in Records
      /\ Failed(r, "noTransport") \in Records /\ RolledBack(r) \in Records
  BY <1>1, RecordUpdates DEF States, Reasons
<1>3. /\ Moved(r, "SENT").state = "SENT" /\ Moved(r, "COMPLETED").state = "COMPLETED"
      /\ Failed(r, "noTransport").state = "FAILED" /\ RolledBack(r).state = "ROLLED_BACK"
  BY <1>1, RecordStates
<1>4. health \in Tallies
  BY DEF TypeOK, HostTypeOK, Tallies
<1>5. CASE ExecuteOnWire(t, d, offset)
  <2>1. /\ txn' = [txn EXCEPT ![t] = Moved(r, "SENT")]
        /\ txn[t].state = "NONE" /\ InPlace /\ health' = health
    BY <1>5 DEF ExecuteOnWire, SaveTxnOnly, Persist, MayCreate, InPlace, r, step
  <2> HIDE DEF r
  <2>2. Advances(t, Moved(r, "SENT"))
    BY <1>2, <1>3, <2>1 DEF Advances, Settled, Unresolved, CountedAs
  <2> QED
    BY <1>2, <2>1, <2>2 DEF HostStep, HostAdvances
<1>6. CASE ExecuteWithoutTransport(t, d, offset)
  <2>1. /\ txn' = [txn EXCEPT ![t] = Failed(r, "noTransport")]
        /\ txn[t].state = "NONE" /\ InPlace
        /\ health' = [health EXCEPT !.failed = @ + 1]
    BY <1>6 DEF ExecuteWithoutTransport, SaveTxnOnly, Persist, MayCreate, InPlace, r, step
  <2> HIDE DEF r
  <2>2. CountedAs("FAILED")
    BY <1>4, <2>1, TallyFields DEF CountedAs
  <2>3. Advances(t, Failed(r, "noTransport"))
    BY <1>2, <1>3, <2>1, <2>2 DEF Advances, Settled, Unresolved
  <2> QED
    BY <1>2, <2>1, <2>3 DEF HostStep, HostAdvances
<1>7. CASE ExecuteSimulated(t, d, offset)
  <2>1. /\ txn[t].state = "NONE" /\ InPlace
        /\ \/ /\ txn' = [txn EXCEPT ![t] = Moved(r, "COMPLETED")]
              /\ health' = [health EXCEPT !.ok = @ + 1]
           \/ /\ txn' = [txn EXCEPT ![t] = RolledBack(r)]
              /\ health' = [health EXCEPT !.failed = @ + 1, !.rolledBack = @ + 1]
    BY <1>7 DEF ExecuteSimulated, Persist, MayCreate, InPlace, r, step
  <2> HIDE DEF r
  <2>2. CASE /\ txn' = [txn EXCEPT ![t] = Moved(r, "COMPLETED")]
             /\ health' = [health EXCEPT !.ok = @ + 1]
    <3>1. CountedAs("COMPLETED")
      BY <1>4, <2>2, TallyFields DEF CountedAs
    <3>2. Advances(t, Moved(r, "COMPLETED"))
      BY <1>2, <1>3, <2>1, <2>2, <3>1 DEF Advances, Settled, Unresolved
    <3> QED
      BY <1>2, <2>1, <3>2 DEF HostStep, HostAdvances
  <2>3. CASE /\ txn' = [txn EXCEPT ![t] = RolledBack(r)]
             /\ health' = [health EXCEPT !.failed = @ + 1, !.rolledBack = @ + 1]
    <3>1. CountedAs("ROLLED_BACK")
      BY <1>4, <2>3, TallyFields DEF CountedAs
    <3>2. Advances(t, RolledBack(r))
      BY <1>2, <1>3, <2>1, <2>3, <3>1 DEF Advances, Settled, Unresolved
    <3> QED
      BY <1>2, <2>1, <3>2 DEF HostStep, HostAdvances
  <2> QED
    BY <2>1, <2>2, <2>3
<1>8. CASE CrashInExecute(t, d, offset) \/ CrashInSimulated(t, d, offset)
  <2>1. \E image : CrashLeaving(image)
    BY <1>8 DEF CrashInExecute, CrashInSimulated
  <2> QED
    BY <2>1, EndsWhenCrashing DEF HostStep
<1> QED
  BY <1>5, <1>6, <1>7, <1>8 DEF Execute

LEMMA ReceiveAdvances ==
  ASSUME TypeOK, WireNeedsTransport, NEW d \in Devices, Receive(d) \/ CrashInReceive(d)
  PROVE  HostStep
<1> DEFINE m == Head(toHost[d])
<1> DEFINE r == txn[m.txn]
<1>1. Receives(d)
  BY DEF Receive, ReceiveApplied, ReceiveDuplicate, ReceiveRaises, CrashInReceive
<1>2. m \in Responses
  BY <1>1, WireOps DEF Receives, TypeOK, WireTypeOK
<1>3. m.txn \in Txns
  BY <1>2 DEF Responses
<1>4. r \in Records
  BY <1>3 DEF TypeOK, HostTypeOK
<1>5. HasTransport
  BY <1>1 DEF WireNeedsTransport, Receives
<1>6. CASE ReceiveApplied(d)
  <2>1. /\ txn' = [txn EXCEPT ![m.txn] = Moved(r, "APPLIED")]
        /\ InPlace /\ health' = health
        /\ r.state \notin Answered /\ CanMove(r, "APPLIED")
    BY <1>1, <1>6 DEF ReceiveApplied, Receives, Persist, InPlace
  <2>2. r.state \notin Settled
    BY <2>1 DEF CanMove, ValidTransitions, Settled, Answered
  <2>3. Moved(r, "APPLIED") \in Records /\ Moved(r, "APPLIED").state = "APPLIED"
    <3> HIDE DEF r
    <3>1. "APPLIED" \in States
      BY DEF States
    <3> QED
      BY <1>4, <3>1, RecordUpdates, RecordStates
  <2> HIDE DEF r, m
  <2>4. Advances(m.txn, Moved(r, "APPLIED"))
    BY <1>5, <2>1, <2>2, <2>3 DEF Advances, Unresolved, CountedAs, r
  <2> QED
    BY <1>3, <2>1, <2>3, <2>4 DEF HostStep, HostAdvances
<1>7. CASE ReceiveDuplicate(d)
  BY <1>7 DEF ReceiveDuplicate, hostVars, HostStep, HostRests, StatesKept
<1>8. CASE ReceiveRaises(d)
  BY <1>8 DEF ReceiveRaises, ProcessEnds, HostStep, HostEnds
<1>9. CASE CrashInReceive(d)
  BY <1>9, EndsWhenCrashing DEF CrashInReceive, HostStep
<1> QED
  BY <1>6, <1>7, <1>8, <1>9 DEF Receive

LEMMA VisitAdvances ==
  ASSUME TypeOK, NEW t \in Txns,
         RetryOrFail(t) \/ Recover(t) \/ CrashInResend(t) \/ CrashInVerify(t)
  PROVE  HostStep
<1> DEFINE r == txn[t]
<1>1. r \in Records
  BY DEF TypeOK, HostTypeOK
<1>2. health \in Tallies
  BY DEF TypeOK, HostTypeOK, Tallies
<1>3. /\ Refreshed(Counted(r)) \in Records /\ Moved(r, "COMPLETED") \in Records
      /\ Failed(r, "wireTimeout") \in Records /\ Failed(r, "neverSent") \in Records
      /\ RolledBack(r) \in Records
  BY <1>1, RecordUpdates DEF States, Reasons
<1>4. /\ Refreshed(Counted(r)).state = r.state
      /\ Moved(r, "COMPLETED").state = "COMPLETED"
      /\ Failed(r, "wireTimeout").state = "FAILED" /\ Failed(r, "neverSent").state = "FAILED"
      /\ RolledBack(r).state = "ROLLED_BACK"
  <2>1. Counted(r) \in Records
    BY <1>1, RecordUpdates
  <2>2. Counted(r).state = r.state /\ Refreshed(Counted(r)).state = Counted(r).state
    BY <1>1, <2>1, RecordStates
  <2> HIDE DEF r
  <2> QED
    BY <1>1, <2>2, RecordStates
<1>5. CASE NotTimedOut(t)
  BY <1>5 DEF NotTimedOut, HostStep, HostWaits, StatesKept, Visits
<1>6. CASE Resend(t)
  <2>1. /\ txn' = [txn EXCEPT ![t] = Refreshed(Counted(r))]
        /\ r.state = "SENT" /\ Visits(t) /\ health' = health
    BY <1>6 DEF Resend, MayResend, SaveTxnOnly, Persist, Visits
  <2>2. Advances(t, Refreshed(Counted(r)))
    BY <1>3, <1>4, <2>1 DEF Advances, Settled, Unresolved, CountedAs
  <2> QED
    BY <1>3, <2>1, <2>2 DEF HostStep, HostAdvances
<1>7. CASE GiveUp(t)
  <2>1. /\ txn' = [txn EXCEPT ![t] = Failed(r, "wireTimeout")]
        /\ r.state = "SENT" /\ Visits(t)
        /\ health' = [health EXCEPT !.failed = @ + 1]
    BY <1>7 DEF GiveUp, SaveTxnOnly, Persist, Visits
  <2>2. CountedAs("FAILED")
    BY <1>2, <2>1, TallyFields DEF CountedAs
  <2>3. Advances(t, Failed(r, "wireTimeout"))
    BY <1>3, <1>4, <2>1, <2>2 DEF Advances, Settled, Unresolved
  <2> QED
    BY <1>3, <2>1, <2>3 DEF HostStep, HostAdvances
<1>8. CASE RecoverUnsent(t)
  <2>1. /\ txn' = [txn EXCEPT ![t] = Failed(r, "neverSent")]
        /\ r.state = "CREATED" /\ Visits(t)
        /\ health' = [health EXCEPT !.failed = @ + 1]
    BY <1>8 DEF RecoverUnsent, SaveTxnOnly, Persist, Visits
  <2>2. CountedAs("FAILED")
    BY <1>2, <2>1, TallyFields DEF CountedAs
  <2>3. Advances(t, Failed(r, "neverSent"))
    BY <1>3, <1>4, <2>1, <2>2 DEF Advances, Settled, Unresolved
  <2> QED
    BY <1>3, <2>1, <2>3 DEF HostStep, HostAdvances
<1>9. CASE VerifyCompletes(t)
  <2>1. /\ txn' = [txn EXCEPT ![t] = Moved(r, "COMPLETED")]
        /\ r.state \in {"APPLIED", "VERIFYING"} /\ Visits(t)
        /\ health' = [health EXCEPT !.ok = @ + 1]
    BY <1>9 DEF VerifyCompletes, AwaitsVerification, SaveTxnOnly, Persist, Visits
  <2>2. CountedAs("COMPLETED")
    BY <1>2, <2>1, TallyFields DEF CountedAs
  <2>3. Advances(t, Moved(r, "COMPLETED"))
    BY <1>3, <1>4, <2>1, <2>2 DEF Advances, Settled, Unresolved
  <2> QED
    BY <1>3, <2>1, <2>3 DEF HostStep, HostAdvances
<1>10. CASE VerifyRollsBack(t)
  <2>1. /\ txn' = [txn EXCEPT ![t] = RolledBack(r)]
        /\ r.state \in {"APPLIED", "VERIFYING"} /\ Visits(t)
        /\ health' = [health EXCEPT !.failed = @ + 1, !.rolledBack = @ + 1]
    BY <1>10 DEF VerifyRollsBack, AwaitsVerification, Persist, Visits
  <2>2. CountedAs("ROLLED_BACK")
    BY <1>2, <2>1, TallyFields DEF CountedAs
  <2>3. Advances(t, RolledBack(r))
    BY <1>3, <1>4, <2>1, <2>2 DEF Advances, Settled, Unresolved
  <2> QED
    BY <1>3, <2>1, <2>3 DEF HostStep, HostAdvances
<1>11. CASE CrashInResend(t) \/ CrashInVerify(t)
  <2>1. \E image : CrashLeaving(image)
    BY <1>11 DEF CrashInResend, CrashInVerify
  <2> QED
    BY <2>1, EndsWhenCrashing DEF HostStep
<1> QED
  BY <1>5, <1>6, <1>7, <1>8, <1>9, <1>10, <1>11 DEF RetryOrFail, Recover

LEMMA AgedStates ==
  ASSUME NEW tx \in [Txns -> Records], NEW t \in Txns
  PROVE  AgedTxns(tx)[t].state = tx[t].state
  BY DEF AgedTxns, Records

LEMMA OtherStepsKeep ==
  ASSUME TypeOK,
         \/ StartPoll \/ Crash \/ Restart \/ Tick \/ UNCHANGED vars
         \/ \E d \in Devices : \/ Measure(d) \/ HandleCorrectionRequest(d) \/ DeviceReboot(d)
                               \/ LoseRequest(d) \/ LoseResponse(d)
  PROVE  HostStep
<1>1. CASE StartPoll
  BY <1>1 DEF StartPoll, HostStep, HostRests, StatesKept
<1>2. CASE Crash
  BY <1>2, EndsWhenCrashing DEF Crash, HostStep
<1>3. CASE Restart
  <2>1. ~Running
    BY <1>3 DEF Restart, Running
  <2> QED
    BY <1>3, <2>1 DEF Restart, HostStep, HostRestarts
<1>4. CASE Tick
  <2>1. StatesKept
    BY <1>4, AgedStates DEF Tick, StatesKept, TypeOK, HostTypeOK
  <2> QED
    BY <1>4, <2>1 DEF Tick, HostStep, HostRests
<1>5. CASE UNCHANGED vars
  BY <1>5 DEF vars, hostVars, HostStep, HostRests, StatesKept
<1>6. CASE \E d \in Devices : \/ Measure(d) \/ HandleCorrectionRequest(d) \/ DeviceReboot(d)
                              \/ LoseRequest(d) \/ LoseResponse(d)
  BY <1>6 DEF Measure, HandleCorrectionRequest, DeviceReboot, LoseRequest, LoseResponse,
              hostVars, HostStep, HostRests, StatesKept
<1> QED
  BY <1>1, <1>2, <1>3, <1>4, <1>5, <1>6

LEMMA HostSteps ==
  ASSUME TypeOK, WireNeedsTransport, [Next]_vars
  PROVE  HostStep
  BY ExecuteAdvances, ReceiveAdvances, VisitAdvances, OtherStepsKeep DEF Next

-----------------------------------------------------------------------------
(* Recovery leaves nothing behind *)

\* Whatever only recovery can decide is still to be visited by it.
RecoveryInv ==
  /\ WireNeedsTransport
  /\ Running => \A t \in Txns : Unresolved(txn[t]) => mode = "recover" /\ t \in todo

LEMMA WireStaysEmpty ==
  ASSUME TypeOK, WireNeedsTransport, [Next]_vars
  PROVE  WireNeedsTransport'
<1> SUFFICES ASSUME ~HasTransport
             PROVE  toDevice' = toDevice /\ toHost' = toHost
  BY DEF WireNeedsTransport, TypeOK, WireTypeOK
<1>1. \A d \in Devices : toDevice[d] = <<>> /\ toHost[d] = <<>>
  BY DEF WireNeedsTransport
<1>2. ASSUME NEW t \in Txns, NEW d \in Devices, NEW offset \in Offsets, Execute(t, d, offset)
      PROVE  toDevice' = toDevice /\ toHost' = toHost
  BY <1>2 DEF Execute, ExecuteOnWire, ExecuteWithoutTransport, ExecuteSimulated,
              CrashInExecute, CrashInSimulated, wireVars
<1>3. ASSUME NEW d \in Devices, \/ HandleCorrectionRequest(d) \/ Receive(d) \/ Measure(d)
                                \/ LoseRequest(d) \/ LoseResponse(d) \/ CrashInReceive(d)
      PROVE  FALSE
  BY <1>1, <1>3 DEF HandleCorrectionRequest, Receive, ReceiveApplied, ReceiveDuplicate,
                    ReceiveRaises, Receives, Measure, LoseRequest, LoseResponse, CrashInReceive
<1>4. ASSUME NEW d \in Devices, DeviceReboot(d)
      PROVE  toDevice' = toDevice /\ toHost' = toHost
  BY <1>1, <1>4 DEF DeviceReboot, TypeOK, WireTypeOK
<1>5. ASSUME NEW t \in Txns,
             RetryOrFail(t) \/ Recover(t) \/ CrashInResend(t) \/ CrashInVerify(t)
      PROVE  toDevice' = toDevice /\ toHost' = toHost
  BY <1>5 DEF RetryOrFail, NotTimedOut, Resend, GiveUp, Recover, RecoverUnsent,
              VerifyCompletes, VerifyRollsBack, CrashInResend, CrashInVerify, wireVars
<1>6. CASE StartPoll \/ Crash \/ Restart \/ Tick \/ UNCHANGED vars
  BY <1>6 DEF StartPoll, Crash, Restart, Tick, vars, wireVars
<1> QED
  BY <1>2, <1>3, <1>4, <1>5, <1>6 DEF Next

LEMMA AdvanceRecovers ==
  ASSUME TypeOK, NEW t \in Txns, NEW q, Advances(t, q), RecoveryInv, Running,
         InPlace \/ Visits(t)
  PROVE  Running' => \A u \in Txns : Unresolved(txn[u])' => mode' = "recover" /\ u \in todo'
<1> SUFFICES ASSUME NEW u \in Txns, Unresolved(txn'[u])
             PROVE  mode' = "recover" /\ u \in todo'
  BY DEF Unresolved
<1>1. txn' = [txn EXCEPT ![t] = q] /\ ~Unresolved(q)
  BY DEF Advances
<1>2. u # t /\ txn'[u] = txn[u]
  BY <1>1 DEF TypeOK, HostTypeOK
<1>3. mode = "recover" /\ u \in todo
  BY <1>2 DEF RecoveryInv
<1> QED
  BY <1>2, <1>3 DEF InPlace, Visits, Visited

LEMMA HostRecovers ==
  ASSUME TypeOK, TypeOK', RecoveryInv, HostStep
  PROVE  Running' => \A u \in Txns : Unresolved(txn[u])' => mode' = "recover" /\ u \in todo'
<1> SUFFICES ASSUME Running', NEW u \in Txns, Unresolved(txn'[u])
             PROVE  mode' = "recover" /\ u \in todo'
  BY DEF Unresolved
<1>1. ASSUME StatesKept, Running
      PROVE  mode = "recover" /\ u \in todo /\ Unresolved(txn[u])
  BY <1>1 DEF StatesKept, RecoveryInv, Unresolved
<1>2. CASE HostRests
  <2>1. Running
    BY <1>2 DEF HostRests, Running
  <2> QED
    BY <1>1, <1>2, <2>1 DEF HostRests
<1>3. ASSUME NEW t \in Txns, HostAdvances(t)
      PROVE  mode' = "recover" /\ u \in todo'
  <2>1. PICK q \in Records : Advances(t, q) /\ (InPlace \/ Visits(t))
    BY <1>3 DEF HostAdvances
  <2>2. Running
    BY <2>1 DEF InPlace, Visits, Visiting, Running
  <2> QED
    BY <2>1, <2>2, AdvanceRecovers DEF Unresolved
<1>4. ASSUME NEW t \in Txns, HostWaits(t)
      PROVE  mode' = "recover" /\ u \in todo'
  <2>1. StatesKept /\ Visits(t) /\ txn[t].state = "SENT"
    BY <1>4 DEF HostWaits
  <2>2. Running
    BY <2>1 DEF Visits, Visiting, Running
  <2>3. u # t /\ mode = "recover" /\ u \in todo
    BY <1>1, <2>1, <2>2 DEF Unresolved
  <2> QED
    BY <2>1, <2>3 DEF Visits, Visited
<1>5. CASE HostEnds
  BY <1>5 DEF HostEnds, Running
<1>6. CASE HostRestarts
  <2>1. txn'[u] \in Records /\ disk.txn[u] = txn'[u]
    BY <1>6 DEF HostRestarts, TypeOK, HostTypeOK
  <2>2. u \in todo'
    BY <1>6, <2>1 DEF HostRestarts, Unresolved, Unfinished
  <2> QED
    BY <1>6, <2>2 DEF HostRestarts
<1> QED
  BY <1>2, <1>3, <1>4, <1>5, <1>6 DEF HostStep

LEMMA InitRecovered == Init => RecoveryInv
<1> SUFFICES ASSUME Init PROVE RecoveryInv
  OBVIOUS
<1>1. \A t \in Txns : txn[t].state = "NONE"
  BY DEF Init, NoTxns, NoRecord
<1> QED
  BY <1>1 DEF Init, RecoveryInv, WireNeedsTransport, Unresolved

LEMMA RecoveryHolds == Spec => []RecoveryInv
<1>1. TypeOK /\ TypeOK' /\ RecoveryInv /\ [Next]_vars => RecoveryInv'
  <2> SUFFICES ASSUME TypeOK, TypeOK', RecoveryInv, [Next]_vars PROVE RecoveryInv'
    OBVIOUS
  <2>1. WireNeedsTransport /\ WireNeedsTransport'
    BY WireStaysEmpty DEF RecoveryInv
  <2>2. Running' => \A u \in Txns : Unresolved(txn[u])' => mode' = "recover" /\ u \in todo'
    BY <2>1, HostSteps, HostRecovers
  <2> QED
    BY <2>1, <2>2 DEF RecoveryInv
<1> QED
  BY <1>1, InitRecovered, TypeCorrect, PTL DEF Spec

\* Whatever a crash cut short, when recovery is over no transaction is left in a
\* state that only recovery takes it out of: recover_on_startup visits them all.
THEOREM RecoveryLeavesNothing == Spec => []RecoveryIsComplete
<1>1. RecoveryInv => RecoveryIsComplete
  BY DEF RecoveryInv, RecoveryIsComplete, Running, Unresolved, InState
<1> QED
  BY <1>1, RecoveryHolds, PTL

-----------------------------------------------------------------------------
(* Outcomes are counted once *)

Known(tx) == {t \in Txns : tx[t].state # "NONE"}

\* Only finitely many transactions were ever created, and a host that is down
\* counts nothing.
HealthInv ==
  /\ IsFiniteSet(Known(txn)) /\ IsFiniteSet(Known(disk.txn))
  /\ ~Running => health = NoHealth
  /\ HealthNeverOvercounts

Class(tx, states) == {t \in Txns : tx[t].state \in states}

LEMMA ClassIsKnown ==
  ASSUME NEW tx, IsFiniteSet(Known(tx)), NEW states \in SUBSET Settled
  PROVE  IsFiniteSet(Class(tx, states)) /\ Cardinality(Class(tx, states)) \in Nat
<1>1. Class(tx, states) \in SUBSET Known(tx)
  BY DEF Class, Known, Settled
<1>2. IsFiniteSet(Class(tx, states))
  BY <1>1, FS_Subset
<1> QED
  BY <1>2, FS_CardinalityType

LEMMA ClassGrows ==
  ASSUME TypeOK, IsFiniteSet(Known(txn)), NEW t \in Txns, NEW q, Advances(t, q),
         NEW states \in SUBSET Settled
  PROVE  Cardinality(Class(txn', states)) = IF q.state \in states
                                              THEN Cardinality(Class(txn, states)) + 1
                                              ELSE Cardinality(Class(txn, states))
<1>1. txn' = [txn EXCEPT ![t] = q] /\ txn[t].state \notin Settled
  BY DEF Advances
<1>2. txn'[t] = q /\ \A u \in Txns \ {t} : txn'[u] = txn[u]
  BY <1>1 DEF TypeOK, HostTypeOK
<1>3. t \notin Class(txn, states)
  BY <1>1 DEF Class
<1>4. IsFiniteSet(Class(txn, states))
  BY ClassIsKnown
<1>5. CASE q.state \in states
  <2>1. Class(txn', states) = Class(txn, states) \cup {t}
    BY <1>2, <1>5 DEF Class
  <2> QED
    BY <1>3, <1>4, <1>5, <2>1, FS_AddElement
<1>6. CASE q.state \notin states
  <2>1. Class(txn', states) = Class(txn, states)
    BY <1>1, <1>2, <1>6 DEF Class
  <2> QED
    BY <1>6, <2>1
<1> QED
  BY <1>5, <1>6

\* Counters h are within the outcomes that the records tx show.
Shows(tx, h) ==
  /\ h.ok <= Cardinality(Class(tx, {"COMPLETED"}))
  /\ h.failed <= Cardinality(Class(tx, {"FAILED", "ROLLED_BACK"}))
  /\ h.rolledBack <= Cardinality(Class(tx, {"ROLLED_BACK"}))

LEMMA CountedByClass == HealthNeverOvercounts <=> Shows(txn, health)
<1>1. /\ InState("COMPLETED") = Class(txn, {"COMPLETED"})
      /\ InState("ROLLED_BACK") = Class(txn, {"ROLLED_BACK"})
      /\ InState("FAILED") \cup InState("ROLLED_BACK") = Class(txn, {"FAILED", "ROLLED_BACK"})
  BY DEF InState, Class
<1> QED
  BY <1>1 DEF HealthNeverOvercounts, Shows

LEMMA NothingCounted ==
  ASSUME NEW tx, IsFiniteSet(Known(tx))
  PROVE  Shows(tx, NoHealth)
<1>1. /\ Cardinality(Class(tx, {"COMPLETED"})) \in Nat
      /\ Cardinality(Class(tx, {"FAILED", "ROLLED_BACK"})) \in Nat
      /\ Cardinality(Class(tx, {"ROLLED_BACK"})) \in Nat
  BY ClassIsKnown DEF Settled
<1> QED
  BY <1>1 DEF Shows, NoHealth

LEMMA AdvanceCounts ==
  ASSUME TypeOK, IsFiniteSet(Known(txn)), NEW t \in Txns, NEW q, Advances(t, q),
         Shows(txn, health)
  PROVE  Shows(txn', health')
<1> DEFINE n(states) == Cardinality(Class(txn, states))
<1> DEFINE m(states) == Cardinality(Class(txn', states))
<1> DEFINE C == {"COMPLETED"}
<1> DEFINE F == {"FAILED", "ROLLED_BACK"}
<1> DEFINE B == {"ROLLED_BACK"}
<1>1. /\ C \in SUBSET Settled /\ F \in SUBSET Settled /\ B \in SUBSET Settled
  BY DEF Settled
<1>2. n(C) \in Nat /\ n(F) \in Nat /\ n(B) \in Nat
  BY <1>1, ClassIsKnown
<1>3. /\ m(C) = IF q.state \in C THEN n(C) + 1 ELSE n(C)
      /\ m(F) = IF q.state \in F THEN n(F) + 1 ELSE n(F)
      /\ m(B) = IF q.state \in B THEN n(B) + 1 ELSE n(B)
  BY <1>1, ClassGrows
<1>4. health.ok \in Nat /\ health.failed \in Nat /\ health.rolledBack \in Nat
  BY DEF TypeOK, HostTypeOK
<1>5. health.ok <= n(C) /\ health.failed <= n(F) /\ health.rolledBack <= n(B)
  BY DEF Shows
<1>6. CountedAs(q.state)
  BY DEF Advances
<1> HIDE DEF n, m
<1>7. health'.ok <= m(C)
  BY <1>2, <1>3, <1>4, <1>5, <1>6 DEF CountedAs
<1>8. health'.failed <= m(F)
  BY <1>2, <1>3, <1>4, <1>5, <1>6 DEF CountedAs
<1>9. health'.rolledBack <= m(B)
  BY <1>2, <1>3, <1>4, <1>5, <1>6 DEF CountedAs
<1> QED
  BY <1>7, <1>8, <1>9 DEF Shows, m

\* A step makes at most one more transaction known.
KnowsOneMore(tx, next) == \E t \in Txns : Known(next) \subseteq Known(tx) \cup {t}

LEMMA OneMoreIsFinite ==
  ASSUME NEW tx, NEW next, IsFiniteSet(Known(tx)), KnowsOneMore(tx, next)
  PROVE  IsFiniteSet(Known(next))
<1>1. PICK t \in Txns : Known(next) \subseteq Known(tx) \cup {t}
  BY DEF KnowsOneMore
<1>2. IsFiniteSet(Known(tx) \cup {t})
  BY FS_AddElement
<1> QED
  BY <1>1, <1>2, FS_Subset

JournalStep ==
  \/ disk'.txn = txn'
  \/ \A t \in Txns : disk'.txn[t].state = disk.txn[t].state
  \/ KnowsOneMore(disk.txn, disk'.txn)

\* The image left on disk differs from the journal in one record at most.
OnlyWrites(image, t) == \A u \in Txns \ {t} : image.txn[u] = disk.txn[u]

LEMMA WithTxnWrites ==
  ASSUME NEW image \in Journals, image.txn = disk.txn, NEW t \in Txns, NEW q
  PROVE  OnlyWrites(WithTxn(image, t, q), t)
  BY DEF WithTxn, Journals, OnlyWrites

LEMMA CrashKnows ==
  ASSUME TypeOK, NEW t \in Txns, NEW image, CrashLeaving(image),
         image \in CutOff \/ OnlyWrites(image, t)
  PROVE  JournalStep
<1>1. disk' = image
  BY DEF CrashLeaving, ProcessEnds
<1>2. OnlyWrites(image, t)
  BY DEF CutOff, OnlyWrites, TypeOK, Journals
<1>3. Known(disk'.txn) \subseteq Known(disk.txn) \cup {t}
  BY <1>1, <1>2 DEF Known, OnlyWrites
<1> QED
  BY <1>3 DEF JournalStep, KnowsOneMore

LEMMA ExecuteKnows ==
  ASSUME TypeOK, NEW t \in Txns, NEW d \in Devices, NEW offset \in Offsets,
         Execute(t, d, offset)
  PROVE  JournalStep
<1>1. CASE \/ ExecuteOnWire(t, d, offset) \/ ExecuteWithoutTransport(t, d, offset)
           \/ ExecuteSimulated(t, d, offset)
  <2>1. disk'.txn = txn'
    BY <1>1 DEF ExecuteOnWire, ExecuteWithoutTransport, ExecuteSimulated, SaveTxnOnly, Persist,
                Snapshot
  <2> QED
    BY <2>1 DEF JournalStep
<1>2. CASE CrashInExecute(t, d, offset)
  <2> DEFINE r == NewRecord(d, StepFor(offset))
  <2>1. PICK image \in {WithTxn(disk, t, r), WithTxn(disk, t, Moved(r, "SENT"))} \cup CutOff :
          CrashLeaving(image)
    BY <1>2 DEF CrashInExecute
  <2> HIDE DEF r
  <2>2. disk \in Journals
    BY DEF TypeOK
  <2>3. image \in CutOff \/ OnlyWrites(image, t)
    BY <2>1, <2>2, WithTxnWrites
  <2> QED
    BY <2>1, <2>3, CrashKnows
<1>3. CASE CrashInSimulated(t, d, offset)
  <2> DEFINE r == NewRecord(d, StepFor(offset))
  <2> DEFINE booked == Booked(disk, d, SimulatedAccumulated)
  <2>1. PICK image \in {WithTxn(disk, t, Moved(r, "APPLIED")),
                        WithTxn(booked, t, Moved(r, "APPLIED")),
                        WithTxn(booked, t, Moved(r, "VERIFYING")),
                        WithTxn(booked, t, Failed(r, "notVerified"))} :
          CrashLeaving(image)
    BY <1>3 DEF CrashInSimulated
  <2>2. disk \in Journals /\ booked \in Journals /\ booked.txn = disk.txn
    BY BookedType DEF TypeOK, SimulatedAccumulated, Booked, Journals
  <2> HIDE DEF r, booked
  <2>3. OnlyWrites(image, t)
    BY <2>1, <2>2, WithTxnWrites
  <2> QED
    BY <2>1, <2>3, CrashKnows
<1> QED
  BY <1>1, <1>2, <1>3 DEF Execute

LEMMA ReceiveKnows ==
  ASSUME TypeOK, NEW d \in Devices, Receive(d) \/ CrashInReceive(d)
  PROVE  JournalStep
<1> DEFINE m == Head(toHost[d])
<1> DEFINE r == txn[m.txn]
<1>1. CASE ReceiveApplied(d)
  BY <1>1 DEF ReceiveApplied, Persist, Snapshot, JournalStep
<1>2. CASE ReceiveDuplicate(d)
  BY <1>2 DEF ReceiveDuplicate, JournalStep
<1>3. CASE ReceiveRaises(d)
  BY <1>3 DEF ReceiveRaises, ProcessEnds, JournalStep
<1>4. CASE CrashInReceive(d)
  <2>1. PICK image \in {WithTxn(disk, m.txn, Moved(r, "APPLIED"))} \cup CutOff :
          CrashLeaving(image)
    BY <1>4 DEF CrashInReceive
  <2>2. m \in Responses
    BY <1>4, WireOps DEF CrashInReceive, Receives, TypeOK, WireTypeOK
  <2>3. m.txn \in Txns /\ disk \in Journals
    BY <2>2 DEF Responses, TypeOK
  <2> HIDE DEF r, m
  <2>4. image \in CutOff \/ OnlyWrites(image, m.txn)
    BY <2>1, <2>3, WithTxnWrites
  <2> QED
    BY <2>1, <2>3, <2>4, CrashKnows
<1> QED
  BY <1>1, <1>2, <1>3, <1>4 DEF Receive

LEMMA VisitKnows ==
  ASSUME TypeOK, NEW t \in Txns,
         RetryOrFail(t) \/ Recover(t) \/ CrashInResend(t) \/ CrashInVerify(t)
  PROVE  JournalStep
<1>1. disk \in Journals
  BY DEF TypeOK
<1>2. CASE NotTimedOut(t)
  BY <1>2 DEF NotTimedOut, JournalStep
<1>3. CASE Resend(t) \/ GiveUp(t) \/ Recover(t)
  <2>1. disk'.txn = txn'
    BY <1>3 DEF Resend, GiveUp, Recover, RecoverUnsent, VerifyCompletes, VerifyRollsBack,
                SaveTxnOnly, Persist, Snapshot
  <2> QED
    BY <2>1 DEF JournalStep
<1>4. CASE CrashInResend(t) \/ CrashInVerify(t)
  <2>1. PICK image : /\ CrashLeaving(image)
                     /\ image \in CutOff \/ \E q : image = WithTxn(disk, t, q)
    BY <1>4 DEF CrashInResend, CrashInVerify
  <2>2. image \in CutOff \/ OnlyWrites(image, t)
    BY <1>1, <2>1, WithTxnWrites
  <2> QED
    BY <2>1, <2>2, CrashKnows
<1> QED
  BY <1>2, <1>3, <1>4 DEF RetryOrFail

LEMMA OtherStepsKnow ==
  ASSUME TypeOK,
         \/ StartPoll \/ Crash \/ Restart \/ Tick \/ UNCHANGED vars
         \/ \E d \in Devices : \/ Measure(d) \/ HandleCorrectionRequest(d) \/ DeviceReboot(d)
                               \/ LoseRequest(d) \/ LoseResponse(d)
  PROVE  JournalStep
<1>1. CASE Tick
  <2>1. disk'.txn = AgedTxns(disk.txn)
    BY <1>1 DEF Tick, TypeOK, Journals
  <2>2. disk.txn \in [Txns -> Records]
    BY DEF TypeOK, Journals
  <2> QED
    BY <2>1, <2>2, AgedStates DEF JournalStep
<1>2. CASE Crash
  BY <1>2 DEF Crash, CrashLeaving, ProcessEnds, JournalStep
<1>3. CASE \/ StartPoll \/ Restart \/ UNCHANGED vars
           \/ \E d \in Devices : \/ Measure(d) \/ HandleCorrectionRequest(d) \/ DeviceReboot(d)
                                 \/ LoseRequest(d) \/ LoseResponse(d)
  BY <1>3 DEF StartPoll, Restart, vars, Measure, HandleCorrectionRequest, DeviceReboot,
              LoseRequest, LoseResponse, JournalStep
<1> QED
  BY <1>1, <1>2, <1>3

LEMMA JournalSteps ==
  ASSUME TypeOK, [Next]_vars
  PROVE  JournalStep
  BY ExecuteKnows, ReceiveKnows, VisitKnows, OtherStepsKnow DEF Next

LEMMA SameStatesShow ==
  ASSUME NEW tx, NEW next, \A t \in Txns : next[t].state = tx[t].state
  PROVE  Known(next) = Known(tx) /\ \A states : Class(next, states) = Class(tx, states)
  BY DEF Known, Class

LEMMA HostCounts ==
  ASSUME TypeOK, TypeOK', HealthInv, HostStep
  PROVE  /\ IsFiniteSet(Known(txn'))
         /\ ~Running' => health' = NoHealth
         /\ Shows(txn', health')
<1>1. /\ IsFiniteSet(Known(txn)) /\ IsFiniteSet(Known(disk.txn))
      /\ ~Running => health = NoHealth
      /\ Shows(txn, health)
  BY CountedByClass DEF HealthInv
<1>2. ASSUME StatesKept
      PROVE  IsFiniteSet(Known(txn')) /\ Shows(txn', health')
  BY <1>1, <1>2, SameStatesShow DEF StatesKept, Shows
<1>3. CASE HostRests
  BY <1>1, <1>2, <1>3 DEF HostRests, StatesKept, Running
<1>4. ASSUME NEW t \in Txns, HostAdvances(t)
      PROVE  /\ IsFiniteSet(Known(txn')) /\ Shows(txn', health')
             /\ ~Running' => health' = NoHealth
  <2>1. PICK q \in Records : Advances(t, q) /\ (InPlace \/ Visits(t))
    BY <1>4 DEF HostAdvances
  <2>2. Known(txn') \subseteq Known(txn) \cup {t}
    BY <2>1 DEF Advances, Known, TypeOK, HostTypeOK
  <2>3. IsFiniteSet(Known(txn'))
    BY <1>1, <2>2, OneMoreIsFinite DEF KnowsOneMore
  <2>4. Running'
    BY <2>1 DEF InPlace, Visits, Visiting, Visited, Running
  <2> QED
    BY <1>1, <2>1, <2>3, <2>4, AdvanceCounts
<1>5. ASSUME NEW t \in Txns, HostWaits(t)
      PROVE  Running' /\ StatesKept
  BY <1>5 DEF HostWaits, Visits, Visiting, Visited, Running
<1>6. CASE HostEnds
  <2>1. Known(txn') = {}
    BY <1>6 DEF HostEnds, Known, NoTxns, NoRecord
  <2>2. IsFiniteSet(Known(txn'))
    BY <2>1, FS_EmptySet
  <2> QED
    BY <1>6, <2>2, NothingCounted DEF HostEnds
<1>7. CASE HostRestarts
  BY <1>1, <1>7, NothingCounted DEF HostRestarts
<1> QED
  BY <1>2, <1>3, <1>4, <1>5, <1>6, <1>7 DEF HostStep

LEMMA HealthHolds == Spec => []HealthInv
<1>1. Init => HealthInv
  <2> SUFFICES ASSUME Init PROVE HealthInv
    OBVIOUS
  <2>1. Known(txn) = {} /\ Known(disk.txn) = {}
    BY DEF Init, Known, NoTxns, NoRecord, EmptyJournal
  <2>2. IsFiniteSet(Known(txn)) /\ IsFiniteSet(Known(disk.txn))
    BY <2>1, FS_EmptySet
  <2>3. HealthNeverOvercounts
    BY <2>2, NothingCounted, CountedByClass DEF Init
  <2> QED
    BY <2>2, <2>3 DEF HealthInv, Init
<1>2. TypeOK /\ TypeOK' /\ RecoveryInv /\ HealthInv /\ [Next]_vars => HealthInv'
  <2> SUFFICES ASSUME TypeOK, TypeOK', RecoveryInv, HealthInv, [Next]_vars PROVE HealthInv'
    OBVIOUS
  <2>1. HostStep /\ JournalStep
    BY HostSteps, JournalSteps DEF RecoveryInv
  <2>2. /\ IsFiniteSet(Known(txn'))
        /\ ~Running' => health' = NoHealth
        /\ Shows(txn', health')
    BY <2>1, HostCounts
  <2>3. IsFiniteSet(Known(disk'.txn))
    <3>1. CASE disk'.txn = txn'
      BY <2>2, <3>1
    <3>2. CASE \A t \in Txns : disk'.txn[t].state = disk.txn[t].state
      <4>1. Known(disk'.txn) = Known(disk.txn)
        BY <3>2 DEF Known
      <4> QED
        BY <4>1 DEF HealthInv
    <3>3. CASE KnowsOneMore(disk.txn, disk'.txn)
      BY <3>3, OneMoreIsFinite DEF HealthInv
    <3> QED
      BY <2>1, <3>1, <3>2, <3>3 DEF JournalStep
  <2>4. (HealthNeverOvercounts <=> Shows(txn, health))'
    BY CountedByClass, PTL
  <2>5. HealthNeverOvercounts'
    BY <2>2, <2>4
  <2>6. (IsFiniteSet(Known(txn)) /\ IsFiniteSet(Known(disk.txn)))'
    BY <2>2, <2>3 DEF Known
  <2> QED
    BY <2>2, <2>5, <2>6 DEF HealthInv
<1> QED
  BY <1>1, <1>2, TypeCorrect, RecoveryHolds, PTL DEF Spec

\* Whatever recovery, polling, late answers and restarts do, no outcome is
\* counted twice: the counters stay within what the host's records show.
THEOREM OutcomesAreCountedOnce == Spec => []HealthNeverOvercounts
<1>1. HealthInv => HealthNeverOvercounts
  BY DEF HealthInv
<1> QED
  BY <1>1, HealthHolds, PTL
=============================================================================
