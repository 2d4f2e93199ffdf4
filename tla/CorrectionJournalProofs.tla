---------------------- MODULE CorrectionJournalProofs ----------------------
(***************************************************************************)
(* The safety of the write-ahead journal: what is on the wire and what the *)
(* devices did is always in the journal, through crashes and restarts.     *)
(*                                                                         *)
(* The invariant carries three facts.  While the host runs its memory is   *)
(* the journal.  Every message in flight belongs to a transaction that the *)
(* journal knows was dispatched.  And for every transaction the journal's  *)
(* record accounts for the sends its device acted on.                      *)
(*                                                                         *)
(* On it rest the books of the host, which stay below what the device has  *)
(* accumulated, and the refinement: read off the journal, the protocol     *)
(* implements CorrectionLifecycle.                                         *)
(***************************************************************************)
EXTENDS CorrectionProofs

\* The request left the host: not created, not failed before it was sent.
Dispatched(r) ==
  /\ r.state \notin {"NONE", "CREATED"}
  /\ r.state = "FAILED" => r.reason \in {"wireTimeout", "notVerified"}

\* Record r accounts for the sends a device acted on.
AccountsFor(r, sends) ==
  /\ sends # {} => Dispatched(r)
  /\ sends \subseteq 0 .. r.retries
  /\ r.retries <= MaxRetries
  /\ r.state \in Answered => sends # {}
  /\ r.reason = "wireTimeout" => r.retries >= MaxRetries

MemoryIsJournal ==
  Running => /\ txn = disk.txn
             /\ accumulated = disk.accumulated
             /\ sinceCorrection = disk.sinceCorrection

RequestKnown(d, m)  == RequestJournaled(d, m) /\ Dispatched(disk.txn[m.txn])
ResponseKnown(d, m) == ResponseJournaled(d, m) /\ Dispatched(disk.txn[m.txn])

RequestsKnown ==
  \A d \in Devices : \A i \in DOMAIN toDevice[d] : RequestKnown(d, toDevice[d][i])
ResponsesKnown ==
  \A d \in Devices : \A i \in DOMAIN toHost[d] : ResponseKnown(d, toHost[d][i])

JournalAccounts == \A t \in Txns : AccountsFor(disk.txn[t], executed[t])

IInv == /\ TypeOK
        /\ MemoryIsJournal
        /\ RequestsKnown
        /\ ResponsesKnown
        /\ JournalAccounts

-----------------------------------------------------------------------------
(* What a change of one record does to what is known of the wire *)

\* The next record of a transaction may only add to what was dispatched.
Grows(r, q) ==
  Dispatched(r) => /\ Dispatched(q)
                   /\ q.device = r.device
                   /\ q.step = r.step
                   /\ r.retries <= q.retries

StaysKnown ==
  /\ \A d \in Devices, m \in Requests : RequestKnown(d, m) => RequestKnown(d, m)'
  /\ \A d \in Devices, m \in Responses : ResponseKnown(d, m) => ResponseKnown(d, m)'

LEMMA GrowthKeepsMessages ==
  ASSUME TypeOK, TypeOK',
         \A t \in Txns : /\ Grows(disk.txn[t], disk'.txn[t])
                         /\ executed[t] # {} => executed'[t] # {}
  PROVE  StaysKnown
<1>1. \A t \in Txns : disk.txn[t] \in Records /\ disk'.txn[t] \in Records
  BY DEF TypeOK, Journals
<1>2. ASSUME NEW d \in Devices, NEW m \in Requests, RequestKnown(d, m)
      PROVE  RequestKnown(d, m)'
  <2>1. m.txn \in Txns /\ m.attempt \in Nat
    BY DEF Requests
  <2>2. Grows(disk.txn[m.txn], disk'.txn[m.txn])
    BY <2>1
  <2>3. disk.txn[m.txn].retries \in Nat /\ disk'.txn[m.txn].retries \in Nat
    BY <1>1, <2>1 DEF Records
  <2> QED
    BY <1>2, <2>1, <2>2, <2>3 DEF RequestKnown, RequestJournaled, Grows, Dispatched
<1>3. ASSUME NEW d \in Devices, NEW m \in Responses, ResponseKnown(d, m)
      PROVE  ResponseKnown(d, m)'
  <2>1. m.txn \in Txns
    BY DEF Responses
  <2>2. /\ Grows(disk.txn[m.txn], disk'.txn[m.txn])
        /\ executed[m.txn] # {} => executed'[m.txn] # {}
    BY <2>1
  <2> QED
    BY <1>3, <2>2 DEF ResponseKnown, ResponseJournaled, Grows, Dispatched
<1> QED
  BY <1>2, <1>3 DEF StaysKnown

\* One record is written, and accounts for what the device did.
LEMMA RecordWritten ==
  ASSUME TypeOK, TypeOK', JournalAccounts,
         NEW t \in Txns, NEW q \in Records,
         disk'.txn = [disk.txn EXCEPT ![t] = q],
         executed' = executed,
         Grows(disk.txn[t], q),
         AccountsFor(q, executed[t])
  PROVE  JournalAccounts' /\ StaysKnown
<1>1. /\ \A u \in Txns : disk.txn[u] \in Records
      /\ disk.txn \in [Txns -> Records]
  BY DEF TypeOK, Journals
<1>2. \A u \in Txns : Grows(disk.txn[u], disk'.txn[u])
  BY <1>1 DEF Grows, Records
<1>3. \A u \in Txns : AccountsFor(disk'.txn[u], executed'[u])
  BY <1>1 DEF JournalAccounts
<1> QED
  BY <1>2, <1>3, GrowthKeepsMessages DEF JournalAccounts

LEMMA NothingWritten ==
  ASSUME TypeOK, TypeOK', JournalAccounts,
         disk'.txn = disk.txn, executed' = executed
  PROVE  JournalAccounts' /\ StaysKnown
<1>1. \A u \in Txns : disk.txn[u] \in Records
  BY DEF TypeOK, Journals
<1>2. \A u \in Txns : Grows(disk.txn[u], disk'.txn[u])
  BY <1>1 DEF Grows, Records
<1> QED
  BY <1>2, GrowthKeepsMessages DEF JournalAccounts

-----------------------------------------------------------------------------
(* What the lines do to the messages *)

\* A line that stays, is emptied or loses its head.
LEMMA ShorterLine ==
  ASSUME NEW S, NEW s \in Seq(S), NEW s2,
         s2 = s \/ s2 = <<>> \/ (s # <<>> /\ s2 = Tail(s))
  PROVE  \A i \in DOMAIN s2 : \E j \in DOMAIN s : s2[i] = s[j]
<1>1. CASE s2 = s
  BY <1>1
<1>2. CASE s2 = <<>>
  BY <1>2
<1>3. CASE s # <<>> /\ s2 = Tail(s)
  <2> SUFFICES ASSUME NEW i \in DOMAIN s2
               PROVE  i + 1 \in DOMAIN s /\ s2[i] = s[i + 1]
    OBVIOUS
  <2> QED
    BY <1>3
<1> QED
  BY <1>1, <1>2, <1>3

LEMMA AppendElements ==
  ASSUME NEW S, NEW s \in Seq(S), NEW m \in S
  PROVE  \A i \in DOMAIN Append(s, m) :
           \/ Append(s, m)[i] = m
           \/ i \in DOMAIN s /\ Append(s, m)[i] = s[i]
  OBVIOUS

LEMMA LineTypes ==
  ASSUME TypeOK, NEW d \in Devices
  PROVE  /\ toDevice[d] \in Seq(Requests)
         /\ toHost[d] \in Seq(Responses)
         /\ \A i \in DOMAIN toDevice[d] : toDevice[d][i] \in Requests
         /\ \A i \in DOMAIN toHost[d] : toHost[d][i] \in Responses
<1>1. toDevice[d] \in Seq(Requests) /\ toHost[d] \in Seq(Responses)
  BY DEF TypeOK, WireTypeOK
<1> QED
  BY <1>1

\* A line that stays or loses messages carries known messages only.
LEMMA RequestsStay ==
  ASSUME TypeOK, StaysKnown, RequestsKnown,
         \A d \in Devices : \/ toDevice'[d] = toDevice[d]
                            \/ toDevice'[d] = <<>>
                            \/ toDevice[d] # <<>> /\ toDevice'[d] = Tail(toDevice[d])
  PROVE  RequestsKnown'
<1> SUFFICES ASSUME NEW d \in Devices, NEW i \in DOMAIN toDevice'[d]
             PROVE  RequestKnown(d, toDevice[d][i])'
  BY DEF RequestsKnown
<1>1. PICK j \in DOMAIN toDevice[d] : toDevice'[d][i] = toDevice[d][j]
  <2> DEFINE s == toDevice[d]
  <2> DEFINE s2 == toDevice'[d]
  <2>1. s \in Seq(Requests)
    BY LineTypes
  <2>2. s2 = s \/ s2 = <<>> \/ (s # <<>> /\ s2 = Tail(s))
    OBVIOUS
  <2>3. i \in DOMAIN s2
    OBVIOUS
  <2> HIDE DEF s, s2
  <2>4. \E j \in DOMAIN s : s2[i] = s[j]
    BY <2>1, <2>2, <2>3, ShorterLine
  <2> QED
    BY <2>4 DEF s, s2
<1>2. toDevice[d][j] \in Requests /\ RequestKnown(d, toDevice[d][j])
  BY LineTypes DEF RequestsKnown
<1>3. \A m \in Requests : RequestKnown(d, m) => RequestKnown(d, m)'
  BY DEF StaysKnown
<1> QED
  BY <1>1, <1>2, <1>3

LEMMA ResponsesStay ==
  ASSUME TypeOK, StaysKnown, ResponsesKnown,
         \A d \in Devices : \/ toHost'[d] = toHost[d]
                            \/ toHost[d] # <<>> /\ toHost'[d] = Tail(toHost[d])
  PROVE  ResponsesKnown'
<1> SUFFICES ASSUME NEW d \in Devices, NEW i \in DOMAIN toHost'[d]
             PROVE  ResponseKnown(d, toHost[d][i])'
  BY DEF ResponsesKnown
<1>1. PICK j \in DOMAIN toHost[d] : toHost'[d][i] = toHost[d][j]
  <2> DEFINE s == toHost[d]
  <2> DEFINE s2 == toHost'[d]
  <2>1. s \in Seq(Responses)
    BY LineTypes
  <2>2. s2 = s \/ s2 = <<>> \/ (s # <<>> /\ s2 = Tail(s))
    OBVIOUS
  <2>3. i \in DOMAIN s2
    OBVIOUS
  <2> HIDE DEF s, s2
  <2>4. \E j \in DOMAIN s : s2[i] = s[j]
    BY <2>1, <2>2, <2>3, ShorterLine
  <2> QED
    BY <2>4 DEF s, s2
<1>2. toHost[d][j] \in Responses /\ ResponseKnown(d, toHost[d][j])
  BY LineTypes DEF ResponsesKnown
<1>3. \A m \in Responses : ResponseKnown(d, m) => ResponseKnown(d, m)'
  BY DEF StaysKnown
<1> QED
  BY <1>1, <1>2, <1>3

\* A line that gains a known message.
LEMMA RequestSent ==
  ASSUME TypeOK, StaysKnown, RequestsKnown,
         NEW e \in Devices, NEW m \in Requests,
         toDevice' = Put(toDevice, e, m), RequestKnown(e, m)'
  PROVE  RequestsKnown'
<1> SUFFICES ASSUME NEW d \in Devices, NEW i \in DOMAIN toDevice'[d]
             PROVE  RequestKnown(d, toDevice[d][i])'
  BY DEF RequestsKnown
<1>1. toDevice[d] \in Seq(Requests) /\ toDevice \in [Devices -> Seq(Requests)]
  BY DEF TypeOK, WireTypeOK
<1>2. CASE i \in DOMAIN toDevice[d] /\ toDevice'[d][i] = toDevice[d][i]
  <2>1. toDevice[d][i] \in Requests /\ RequestKnown(d, toDevice[d][i])
    BY <1>2, LineTypes DEF RequestsKnown
  <2>2. \A q \in Requests : RequestKnown(d, q) => RequestKnown(d, q)'
    BY DEF StaysKnown
  <2> QED
    BY <1>2, <2>1, <2>2
<1>3. CASE d = e /\ toDevice'[d][i] = m
  BY <1>3
<1>4. \/ i \in DOMAIN toDevice[d] /\ toDevice'[d][i] = toDevice[d][i]
      \/ d = e /\ toDevice'[d][i] = m
  <2>1. CASE d = e
    <3>1. toDevice'[d] = Append(toDevice[d], m)
      BY <1>1, <2>1 DEF Put
    <3> QED
      BY <1>1, <2>1, <3>1, AppendElements
  <2>2. CASE d # e
    BY <1>1, <2>2 DEF Put
  <2> QED
    BY <2>1, <2>2
<1> QED
  BY <1>2, <1>3, <1>4

LEMMA ResponseSent ==
  ASSUME TypeOK, StaysKnown, ResponsesKnown,
         NEW e \in Devices, NEW m \in Responses,
         toHost' = Put(toHost, e, m), ResponseKnown(e, m)'
  PROVE  ResponsesKnown'
<1> SUFFICES ASSUME NEW d \in Devices, NEW i \in DOMAIN toHost'[d]
             PROVE  ResponseKnown(d, toHost[d][i])'
  BY DEF ResponsesKnown
<1>1. toHost[d] \in Seq(Responses) /\ toHost \in [Devices -> Seq(Responses)]
  BY DEF TypeOK, WireTypeOK
<1>2. CASE i \in DOMAIN toHost[d] /\ toHost'[d][i] = toHost[d][i]
  <2>1. toHost[d][i] \in Responses /\ ResponseKnown(d, toHost[d][i])
    BY <1>2, LineTypes DEF ResponsesKnown
  <2>2. \A q \in Responses : ResponseKnown(d, q) => ResponseKnown(d, q)'
    BY DEF StaysKnown
  <2> QED
    BY <1>2, <2>1, <2>2
<1>3. CASE d = e /\ toHost'[d][i] = m
  BY <1>3
<1>4. \/ i \in DOMAIN toHost[d] /\ toHost'[d][i] = toHost[d][i]
      \/ d = e /\ toHost'[d][i] = m
  <2>1. CASE d = e
    <3>1. toHost'[d] = Append(toHost[d], m)
      BY <1>1, <2>1 DEF Put
    <3> QED
      BY <1>1, <2>1, <3>1, AppendElements
  <2>2. CASE d # e
    BY <1>1, <2>2 DEF Put
  <2> QED
    BY <2>1, <2>2
<1> QED
  BY <1>2, <1>3, <1>4

LinesShrink ==
  /\ \A d \in Devices : \/ toDevice'[d] = toDevice[d]
                        \/ toDevice'[d] = <<>>
                        \/ toDevice[d] # <<>> /\ toDevice'[d] = Tail(toDevice[d])
  /\ \A d \in Devices : \/ toHost'[d] = toHost[d]
                        \/ toHost[d] # <<>> /\ toHost'[d] = Tail(toHost[d])

-----------------------------------------------------------------------------
(* The two shapes most steps have *)

LEMMA WriteKeeps ==
  ASSUME IInv, TypeOK', MemoryIsJournal', LinesShrink,
         NEW t \in Txns, NEW q \in Records,
         disk'.txn = [disk.txn EXCEPT ![t] = q],
         executed' = executed,
         Grows(disk.txn[t], q),
         AccountsFor(q, executed[t])
  PROVE  IInv'
<1>1. JournalAccounts' /\ StaysKnown
  BY RecordWritten DEF IInv
<1>2. RequestsKnown' /\ ResponsesKnown'
  BY <1>1, RequestsStay, ResponsesStay DEF IInv, LinesShrink
<1> QED
  BY <1>1, <1>2 DEF IInv

LEMMA NoWriteKeeps ==
  ASSUME IInv, TypeOK', MemoryIsJournal', LinesShrink,
         disk'.txn = disk.txn, executed' = executed
  PROVE  IInv'
<1>1. JournalAccounts' /\ StaysKnown
  BY NothingWritten DEF IInv
<1>2. RequestsKnown' /\ ResponsesKnown'
  BY <1>1, RequestsStay, ResponsesStay DEF IInv, LinesShrink
<1> QED
  BY <1>1, <1>2 DEF IInv

\* What a record of the journal and of a running host's memory is.
LEMMA RecordFacts ==
  ASSUME IInv, NEW t \in Txns
  PROVE  /\ disk.txn[t] \in Records
         /\ AccountsFor(disk.txn[t], executed[t])
         /\ Running => txn[t] = disk.txn[t]
         /\ disk.txn \in [Txns -> Records]
  BY DEF IInv, TypeOK, Journals, JournalAccounts, MemoryIsJournal

\* A handler that ends by saving one record.
LEMMA SaveKeeps ==
  ASSUME IInv, TypeOK', LinesShrink, Running,
         NEW t \in Txns, NEW q \in Records, NEW acc, NEW since,
         Persist([txn EXCEPT ![t] = q], acc, since),
         executed' = executed,
         Grows(txn[t], q),
         AccountsFor(q, executed[t])
  PROVE  IInv'
<1>1. MemoryIsJournal'
  BY DEF Persist, Snapshot, MemoryIsJournal
<1>2. disk'.txn = [disk.txn EXCEPT ![t] = q]
  BY DEF Persist, Snapshot, IInv, MemoryIsJournal
<1>3. Grows(disk.txn[t], q)
  BY RecordFacts
<1> QED
  BY <1>1, <1>2, <1>3, WriteKeeps

\* A crash that leaves one record written.
LEMMA CrashWriteKeeps ==
  ASSUME IInv, TypeOK', LinesShrink,
         NEW t \in Txns, NEW q \in Records,
         CrashLeaving(WithTxn(disk, t, q)),
         executed' = executed,
         Grows(disk.txn[t], q),
         AccountsFor(q, executed[t])
  PROVE  IInv'
<1>1. MemoryIsJournal'
  BY DEF CrashLeaving, ProcessEnds, MemoryIsJournal, Running
<1>2. disk'.txn = [disk.txn EXCEPT ![t] = q]
  BY DEF CrashLeaving, ProcessEnds, WithTxn, IInv, TypeOK, Journals
<1> QED
  BY <1>1, <1>2, WriteKeeps

LEMMA CrashKeeps ==
  ASSUME IInv, TypeOK', LinesShrink,
         NEW image \in {disk} \cup CutOff, CrashLeaving(image),
         executed' = executed
  PROVE  IInv'
<1>1. MemoryIsJournal'
  BY DEF CrashLeaving, ProcessEnds, MemoryIsJournal, Running
<1>2. disk'.txn = disk.txn
  BY DEF CrashLeaving, ProcessEnds, CutOff, IInv, TypeOK, Journals
<1> QED
  BY <1>1, <1>2, NoWriteKeeps

-----------------------------------------------------------------------------
(* The changes of a record *)

LEMMA RecordFields ==
  ASSUME NEW r \in Records
  PROVE  /\ \A s : LET q == Moved(r, s)
                  IN  /\ q.state = s /\ q.reason = r.reason /\ q.device = r.device
                      /\ q.step = r.step /\ q.retries = r.retries
         /\ \A why : LET q == Failed(r, why)
                    IN  /\ q.state = "FAILED" /\ q.reason = why /\ q.device = r.device
                        /\ q.step = r.step /\ q.retries = r.retries
         /\ LET q == RolledBack(r)
            IN  /\ q.state = "ROLLED_BACK" /\ q.reason = "notVerified"
                /\ q.device = r.device /\ q.step = r.step /\ q.retries = r.retries
         /\ LET q == Refreshed(r)
            IN  /\ q.state = r.state /\ q.reason = r.reason /\ q.device = r.device
                /\ q.step = r.step /\ q.retries = r.retries
         /\ LET q == Counted(r)
            IN  /\ q.state = r.state /\ q.reason = r.reason /\ q.device = r.device
                /\ q.step = r.step /\ q.retries = r.retries + 1
  BY DEF Records, Moved, Failed, RolledBack, Refreshed, Counted

\* An answered transaction may be verified or given up on.
LEMMA VerdictAccounts ==
  ASSUME NEW r \in Records, NEW sends, AccountsFor(r, sends),
         r.state \in {"APPLIED", "VERIFYING"}
  PROVE  \A q \in {Moved(r, "COMPLETED"), Moved(r, "VERIFYING"),
                   Failed(r, "notVerified"), RolledBack(r)} :
           Grows(r, q) /\ AccountsFor(q, sends)
<1>1. r.retries \in Nat /\ sends # {}
  BY DEF Records, AccountsFor, Answered
<1>2. ASSUME NEW s \in {"COMPLETED", "VERIFYING"}
      PROVE  Grows(r, Moved(r, s)) /\ AccountsFor(Moved(r, s), sends)
  BY <1>1, RecordFields DEF Grows, AccountsFor, Dispatched
<1>3. Grows(r, Failed(r, "notVerified")) /\ AccountsFor(Failed(r, "notVerified"), sends)
  BY <1>1, RecordFields DEF Grows, AccountsFor, Dispatched
<1>4. Grows(r, RolledBack(r)) /\ AccountsFor(RolledBack(r), sends)
  BY <1>1, RecordFields DEF Grows, AccountsFor, Dispatched
<1> QED
  BY <1>2, <1>3, <1>4

\* An attempt is counted while the budget lasts.
LEMMA AttemptAccounts ==
  ASSUME NEW r \in Records, NEW sends, AccountsFor(r, sends),
         r.state = "SENT", ShouldRetry(r.retries)
  PROVE  \A q \in {Counted(r), Refreshed(Counted(r))} :
           Grows(r, q) /\ AccountsFor(q, sends)
<1>1. r.retries \in Nat /\ MaxRetries \in Nat
  BY Bounds DEF Records
<1>2. Counted(r) \in Records
  BY RecordUpdates
<1> SUFFICES ASSUME NEW q \in {Counted(r), Refreshed(Counted(r))}
             PROVE  Grows(r, q) /\ AccountsFor(q, sends)
  OBVIOUS
<1>3. /\ q.state = "SENT" /\ q.reason = r.reason /\ q.device = r.device
      /\ q.step = r.step /\ q.retries = r.retries + 1
  BY <1>2, RecordFields
<1> QED
  BY <1>1, <1>3 DEF Grows, AccountsFor, Dispatched, Answered, ShouldRetry

-----------------------------------------------------------------------------
(* Handler by handler *)

LEMMA VisitKeeps ==
  ASSUME IInv, TypeOK', NEW t \in Txns,
         RetryOrFail(t) \/ Recover(t) \/ CrashInResend(t) \/ CrashInVerify(t)
  PROVE  IInv'
<1> DEFINE r == txn[t]
<1>1. Running
  BY DEF RetryOrFail, NotTimedOut, Resend, GiveUp, MayResend, Recover, RecoverUnsent,
         VerifyCompletes, VerifyRollsBack, AwaitsVerification, CrashInResend,
         CrashInVerify, Visiting, Running
<1>2. r \in Records /\ r = disk.txn[t] /\ AccountsFor(r, executed[t])
  BY <1>1, RecordFacts
<1>3. r.retries \in Nat
  BY <1>2 DEF Records
<1>4. /\ Moved(r, "COMPLETED") \in Records
      /\ Moved(r, "VERIFYING") \in Records
      /\ Failed(r, "wireTimeout") \in Records
      /\ Failed(r, "neverSent") \in Records
      /\ Failed(r, "notVerified") \in Records
      /\ RolledBack(r) \in Records
      /\ Counted(r) \in Records
      /\ Refreshed(Counted(r)) \in Records
  BY <1>2, RecordUpdates DEF States, Reasons
<1>5. UNCHANGED <<toDevice, toHost>> => LinesShrink
  BY DEF LinesShrink
<1>6. r.state \in {"APPLIED", "VERIFYING"} =>
        \A q \in {Moved(r, "COMPLETED"), Moved(r, "VERIFYING"),
                 Failed(r, "notVerified"), RolledBack(r)} :
          Grows(r, q) /\ AccountsFor(q, executed[t])
  BY <1>2, VerdictAccounts
<1>7. CASE NotTimedOut(t)
  <2>1. MemoryIsJournal'
    BY <1>1, <1>7 DEF NotTimedOut, IInv, MemoryIsJournal
  <2> QED
    BY <1>5, <1>7, <2>1, NoWriteKeeps DEF NotTimedOut, wireVars
<1>8. CASE Resend(t)
  <2> DEFINE q == Refreshed(Counted(r))
  <2>1. /\ r.state = "SENT"
        /\ ShouldRetry(r.retries)
        /\ SaveTxnOnly(t, q)
        /\ UNCHANGED <<toHost, executed>>
    BY <1>8 DEF Resend, MayResend
  <2>2. Grows(r, q) /\ AccountsFor(q, executed[t])
    BY <1>2, <2>1, AttemptAccounts
  <2>3. /\ MemoryIsJournal'
        /\ disk'.txn = [disk.txn EXCEPT ![t] = q]
    BY <1>1, <2>1 DEF SaveTxnOnly, Persist, Snapshot, IInv, MemoryIsJournal
  <2>4. JournalAccounts' /\ StaysKnown
    BY <1>2, <1>4, <2>1, <2>2, <2>3, RecordWritten DEF IInv
  <2>5. ResponsesKnown'
    BY <2>1, <2>4, ResponsesStay DEF IInv
  <2>6. RequestsKnown'
    <3> DEFINE c == Counted(r)
    <3>1. PICK m, e : m = Request(t, c.retries, c.step) /\ e = r.device
      OBVIOUS
    <3>2. /\ c.retries = r.retries + 1 /\ c.device = r.device /\ c.step = r.step
          /\ q.state = "SENT" /\ q.device = r.device /\ q.step = r.step
          /\ q.retries = r.retries + 1
      BY <1>2, <1>4, <2>1, RecordFields
    <3>3. m.txn = t /\ m.attempt = r.retries + 1 /\ m.step = r.step /\ m \in Requests
      BY <1>2, <1>3, <3>1, <3>2 DEF Request, Requests, Records
    <3>4. toDevice' = toDevice \/ toDevice' = Put(toDevice, e, m)
      <4>1. toDevice' = IF HasTransport
                        THEN Put(toDevice, c.device, Request(t, c.retries, c.step))
                        ELSE toDevice
        BY <1>8, Zenon DEF Resend
      <4> HIDE DEF c
      <4> QED
        BY <3>1, <3>2, <4>1, Zenon
    <3>5. disk'.txn[t] = q
      BY <1>2, <2>3, RecordFacts
    <3>6. RequestKnown(e, m)'
      <4>1. disk'.txn[m.txn] = q
        BY <3>3, <3>5
      <4>2. /\ q.state = "SENT" /\ q.device = e /\ q.step = m.step
            /\ m.attempt = q.retries /\ q.retries \in Nat
        BY <1>3, <3>1, <3>2, <3>3
      <4> HIDE DEF q
      <4> QED
        BY <4>1, <4>2 DEF RequestKnown, RequestJournaled, Dispatched
    <3>7. CASE e \in Devices /\ toDevice' # toDevice
      BY <2>4, <3>3, <3>4, <3>6, <3>7, RequestSent DEF IInv
    <3>8. CASE e \notin Devices \/ toDevice' = toDevice
      <4>1. toDevice' = toDevice
        BY <3>4, <3>8 DEF Put, IInv, TypeOK, WireTypeOK
      <4> QED
        BY <2>4, <4>1, RequestsStay DEF IInv
    <3> QED
      BY <3>7, <3>8
  <2> QED
    BY <2>3, <2>4, <2>5, <2>6 DEF IInv
<1>9. CASE GiveUp(t)
  <2>1. Grows(r, Failed(r, "wireTimeout")) /\ AccountsFor(Failed(r, "wireTimeout"), executed[t])
    BY <1>2, <1>3, <1>9, Bounds
       DEF GiveUp, ShouldRetry, Grows, AccountsFor, Dispatched, Failed, Records, Answered
  <2> QED
    BY <1>1, <1>4, <1>5, <1>9, <2>1, SaveKeeps DEF GiveUp, SaveTxnOnly, wireVars
<1>10. CASE RecoverUnsent(t)
  <2>1. Grows(r, Failed(r, "neverSent")) /\ AccountsFor(Failed(r, "neverSent"), executed[t])
    BY <1>2, <1>3, <1>10
       DEF RecoverUnsent, Grows, AccountsFor, Dispatched, Failed, Records, Answered
  <2> QED
    BY <1>1, <1>4, <1>5, <1>10, <2>1, SaveKeeps DEF RecoverUnsent, SaveTxnOnly, wireVars
<1>11. CASE VerifyCompletes(t)
  BY <1>1, <1>4, <1>5, <1>6, <1>11, SaveKeeps
     DEF VerifyCompletes, AwaitsVerification, SaveTxnOnly, wireVars
<1>12. CASE VerifyRollsBack(t)
  BY <1>1, <1>4, <1>5, <1>6, <1>12, SaveKeeps
     DEF VerifyRollsBack, AwaitsVerification, wireVars
<1>13. CASE CrashInResend(t)
  <2>1. /\ r.state = "SENT" /\ ShouldRetry(r.retries)
        /\ UNCHANGED wireVars
    BY <1>13 DEF CrashInResend, MayResend
  <2>2. PICK image \in {WithTxn(disk, t, q) : q \in {Counted(r), Refreshed(Counted(r))}}
                         \cup CutOff : CrashLeaving(image)
    BY <1>13 DEF CrashInResend
  <2>3. CASE image \in CutOff
    BY <1>5, <2>1, <2>2, <2>3, CrashKeeps DEF wireVars
  <2>4. ASSUME NEW q \in {Counted(r), Refreshed(Counted(r))}, image = WithTxn(disk, t, q)
        PROVE  IInv'
    BY <1>2, <1>4, <1>5, <2>1, <2>2, <2>4, AttemptAccounts, CrashWriteKeeps DEF wireVars
  <2> QED
    BY <2>2, <2>3, <2>4
<1>14. CASE CrashInVerify(t)
  <2>1. r.state \in {"APPLIED", "VERIFYING"} /\ UNCHANGED wireVars
    BY <1>14 DEF CrashInVerify, AwaitsVerification
  <2>2. PICK image \in {WithTxn(disk, t, q) : q \in {Moved(r, "VERIFYING"),
                                                    Failed(r, "notVerified"),
                                                    RolledBack(r)}} \cup CutOff :
          CrashLeaving(image)
    BY <1>14 DEF CrashInVerify
  <2>3. CASE image \in CutOff
    BY <1>5, <2>1, <2>2, <2>3, CrashKeeps DEF wireVars
  <2>4. ASSUME NEW q \in {Moved(r, "VERIFYING"), Failed(r, "notVerified"), RolledBack(r)},
               image = WithTxn(disk, t, q)
        PROVE  IInv'
    BY <1>2, <1>4, <1>5, <1>6, <2>1, <2>2, <2>4, CrashWriteKeeps DEF wireVars
  <2> QED
    BY <2>2, <2>3, <2>4
<1> QED
  BY <1>7, <1>8, <1>9, <1>10, <1>11, <1>12, <1>13, <1>14 DEF RetryOrFail, Recover

\* A transaction the journal does not know was not dispatched: anything may
\* be written for it.
LEMMA FreshTxn ==
  ASSUME IInv, NEW t \in Txns, Running, txn[t].state = "NONE"
  PROVE  /\ disk.txn[t].state = "NONE"
         /\ executed[t] = {}
         /\ \A q : Grows(disk.txn[t], q) /\ Grows(txn[t], q)
<1>1. disk.txn[t].state = "NONE" /\ AccountsFor(disk.txn[t], executed[t])
  BY RecordFacts
<1>2. ~Dispatched(disk.txn[t]) /\ ~Dispatched(txn[t])
  BY <1>1 DEF Dispatched
<1> QED
  BY <1>1, <1>2 DEF AccountsFor, Grows

\* A simulated answer: the record is written and the execution noted.
LEMMA SimulatedKeeps ==
  ASSUME IInv, TypeOK', MemoryIsJournal', NEW t \in Txns, NEW q \in Records,
         executed[t] = {}, \A p : Grows(disk.txn[t], p),
         disk'.txn = [disk.txn EXCEPT ![t] = q],
         executed' = [executed EXCEPT ![t] = {0}],
         UNCHANGED <<toDevice, toHost>>,
         AccountsFor(q, {0})
  PROVE  IInv'
<1>1. /\ disk.txn \in [Txns -> Records]
      /\ executed \in [Txns -> SUBSET Nat]
  BY DEF IInv, TypeOK, Journals, WireTypeOK
<1>2. JournalAccounts'
  <2> SUFFICES ASSUME NEW u \in Txns
               PROVE  AccountsFor(disk'.txn[u], executed'[u])
    BY DEF JournalAccounts
  <2>1. CASE u = t
    BY <1>1, <2>1
  <2>2. CASE u # t
    BY <1>1, <2>2 DEF IInv, JournalAccounts
  <2> QED
    BY <2>1, <2>2
<1>3. \A u \in Txns : /\ Grows(disk.txn[u], disk'.txn[u])
                      /\ executed[u] # {} => executed'[u] # {}
  BY <1>1 DEF Grows, Records
<1>4. StaysKnown
  BY <1>3, GrowthKeepsMessages DEF IInv
<1> QED
  BY <1>2, <1>4, RequestsStay, ResponsesStay DEF IInv

LEMMA ExecuteKeeps ==
  ASSUME IInv, TypeOK', NEW t \in Txns, NEW d \in Devices, NEW offset \in Offsets,
         Execute(t, d, offset)
  PROVE  IInv'
<1> DEFINE step == StepFor(offset)
<1> DEFINE r == NewRecord(d, step)
<1>1. Running /\ txn[t].state = "NONE"
  BY DEF Execute, ExecuteOnWire, ExecuteWithoutTransport, ExecuteSimulated,
         CrashInExecute, CrashInSimulated, MayCreate, Running
<1>2. /\ executed[t] = {}
      /\ \A q : Grows(disk.txn[t], q) /\ Grows(txn[t], q)
      /\ disk.txn \in [Txns -> Records]
  BY <1>1, FreshTxn, RecordFacts
<1>3. step \in Nat
  BY StepForType
<1> HIDE DEF step
<1>4. /\ r \in Records /\ r.state = "CREATED" /\ r.device = d /\ r.step = step
      /\ r.retries = 0 /\ r.reason = "none"
  BY <1>3, NewRecordType
<1> HIDE DEF r
<1>5. /\ \A s \in States : Moved(r, s) \in Records
      /\ \A why \in Reasons : Failed(r, why) \in Records
      /\ RolledBack(r) \in Records
  BY <1>4, RecordUpdates
\* Before the request is sent.
<1>6. \A q \in {r, Moved(r, "SENT"), Failed(r, "noTransport")} :
        q \in Records /\ AccountsFor(q, executed[t])
  BY <1>2, <1>4, <1>5, RecordFields, Bounds DEF AccountsFor, Answered, States, Reasons
\* After the simulated answer.
<1>7. \A q \in {Moved(r, "APPLIED"), Moved(r, "VERIFYING"), Moved(r, "COMPLETED"),
               Failed(r, "notVerified"), RolledBack(r)} :
        q \in Records /\ AccountsFor(q, {0})
  BY <1>4, <1>5, RecordFields, Bounds DEF AccountsFor, Dispatched, States, Reasons
<1>8. UNCHANGED <<toDevice, toHost>> => LinesShrink
  BY DEF LinesShrink
<1>9. CASE ExecuteOnWire(t, d, offset)
  <2> DEFINE q == Moved(r, "SENT")
  <2>1. /\ SaveTxnOnly(t, q)
        /\ UNCHANGED <<toHost, executed>>
    BY <1>9 DEF ExecuteOnWire, r, step
  <2>2. /\ MemoryIsJournal'
        /\ disk'.txn = [disk.txn EXCEPT ![t] = q]
    BY <1>1, <2>1 DEF SaveTxnOnly, Persist, Snapshot, IInv, MemoryIsJournal
  <2>3. JournalAccounts' /\ StaysKnown
    BY <1>2, <1>6, <2>1, <2>2, RecordWritten DEF IInv
  <2>4. ResponsesKnown'
    BY <2>1, <2>3, ResponsesStay DEF IInv
  <2>5. PICK m : m = Request(t, 0, step)
    OBVIOUS
  <2>6. m.txn = t /\ m.attempt = 0 /\ m.step = step /\ m \in Requests
    BY <1>3, <2>5 DEF Request, Requests
  <2>7. toDevice' = Put(toDevice, d, m)
    BY <1>9, <2>5 DEF ExecuteOnWire, step
  <2>8. disk'.txn[t] = q
    BY <1>2, <2>2
  <2>9. q.state = "SENT" /\ q.device = d /\ q.step = step /\ q.retries = 0
    BY <1>4, RecordFields
  <2>10. RequestKnown(d, m)'
    BY <2>6, <2>8, <2>9 DEF RequestKnown, RequestJournaled, Dispatched
  <2>11. RequestsKnown'
    BY <2>3, <2>6, <2>7, <2>10, RequestSent DEF IInv
  <2> QED
    BY <2>2, <2>3, <2>4, <2>11 DEF IInv
<1>10. CASE ExecuteWithoutTransport(t, d, offset)
  <2>1. SaveTxnOnly(t, Failed(r, "noTransport")) /\ UNCHANGED wireVars
    BY <1>10 DEF ExecuteWithoutTransport, r, step
  <2> QED
    BY <1>1, <1>2, <1>6, <1>8, <2>1, SaveKeeps DEF SaveTxnOnly, wireVars
<1>11. CASE ExecuteSimulated(t, d, offset)
  <2>1. \/ Persist([txn EXCEPT ![t] = Moved(r, "COMPLETED")],
                   [accumulated EXCEPT ![d] = SimulatedAccumulated],
                   [sinceCorrection EXCEPT ![d] = 0])
        \/ Persist([txn EXCEPT ![t] = RolledBack(r)],
                   [accumulated EXCEPT ![d] = TakenBack(SimulatedAccumulated, step)],
                   [sinceCorrection EXCEPT ![d] = 0])
    BY <1>11 DEF ExecuteSimulated, r, step
  <2>2. PICK q \in {Moved(r, "COMPLETED"), RolledBack(r)} :
           /\ MemoryIsJournal'
           /\ disk'.txn = [disk.txn EXCEPT ![t] = q]
    BY <1>1, <2>1 DEF Persist, Snapshot, IInv, MemoryIsJournal
  <2>3. executed' = [executed EXCEPT ![t] = {0}] /\ UNCHANGED <<toDevice, toHost>>
    BY <1>11 DEF ExecuteSimulated
  <2> QED
    BY <1>2, <1>7, <2>2, <2>3, SimulatedKeeps
<1>12. CASE CrashInExecute(t, d, offset)
  <2>1. PICK image \in {WithTxn(disk, t, r), WithTxn(disk, t, Moved(r, "SENT"))}
                         \cup CutOff : CrashLeaving(image)
    BY <1>12 DEF CrashInExecute, r, step
  <2>2. LinesShrink /\ executed' = executed
    BY <1>8, <1>12 DEF CrashInExecute, wireVars
  <2>3. CASE image \in CutOff
    BY <2>1, <2>2, <2>3, CrashKeeps
  <2>4. ASSUME NEW q \in {r, Moved(r, "SENT")}, image = WithTxn(disk, t, q)
        PROVE  IInv'
    BY <1>2, <1>6, <2>1, <2>2, <2>4, CrashWriteKeeps
  <2> QED
    BY <2>1, <2>3, <2>4
<1>13. CASE CrashInSimulated(t, d, offset)
  <2> DEFINE booked == Booked(disk, d, SimulatedAccumulated)
  <2>1. PICK image \in {WithTxn(disk, t, Moved(r, "APPLIED")),
                        WithTxn(booked, t, Moved(r, "APPLIED")),
                        WithTxn(booked, t, Moved(r, "VERIFYING")),
                        WithTxn(booked, t, Failed(r, "notVerified"))} :
          CrashLeaving(image)
    BY <1>13 DEF CrashInSimulated, r, step
  <2>2. PICK q \in {Moved(r, "APPLIED"), Moved(r, "VERIFYING"), Failed(r, "notVerified")} :
           image = WithTxn(disk, t, q) \/ image = WithTxn(booked, t, q)
    BY <2>1
  <2>3. disk \in Journals /\ booked.txn = disk.txn /\ booked \in Journals
    <3>1. disk \in Journals
      BY DEF IInv, TypeOK
    <3>2. booked.txn = disk.txn
      BY <3>1 DEF Booked, Journals
    <3>3. booked \in Journals
      BY <3>1, BookedType DEF SimulatedAccumulated
    <3> QED
      BY <3>1, <3>2, <3>3
  <2> HIDE DEF booked
  <2>4. image.txn = [disk.txn EXCEPT ![t] = q]
    BY <2>2, <2>3 DEF WithTxn, Journals
  <2>5. disk' = image /\ MemoryIsJournal'
    BY <2>1 DEF CrashLeaving, ProcessEnds, MemoryIsJournal, Running
  <2>6. executed' = [executed EXCEPT ![t] = {0}] /\ UNCHANGED <<toDevice, toHost>>
    BY <1>13 DEF CrashInSimulated
  <2>7. q \in Records /\ AccountsFor(q, {0})
    BY <1>7
  <2> QED
    BY <1>2, <2>4, <2>5, <2>6, <2>7, SimulatedKeeps
<1> QED
  BY <1>9, <1>10, <1>11, <1>12, <1>13 DEF Execute

\* The oldest line of a device is about a transaction it was sent.
LEMMA HeadOfRequests ==
  ASSUME IInv, NEW d \in Devices, toDevice[d] # <<>>
  PROVE  Head(toDevice[d]) \in Requests /\ RequestKnown(d, Head(toDevice[d]))
<1>1. toDevice[d] \in Seq(Requests)
  BY DEF IInv, TypeOK, WireTypeOK
<1>2. 1 \in DOMAIN toDevice[d] /\ Head(toDevice[d]) = toDevice[d][1]
  BY <1>1
<1> QED
  BY <1>1, <1>2 DEF IInv, RequestsKnown

LEMMA HeadOfResponses ==
  ASSUME IInv, NEW d \in Devices, toHost[d] # <<>>
  PROVE  Head(toHost[d]) \in Responses /\ ResponseKnown(d, Head(toHost[d]))
<1>1. toHost[d] \in Seq(Responses)
  BY DEF IInv, TypeOK, WireTypeOK
<1>2. 1 \in DOMAIN toHost[d] /\ Head(toHost[d]) = toHost[d][1]
  BY <1>1
<1> QED
  BY <1>1, <1>2 DEF IInv, ResponsesKnown

LEMMA DeviceKeeps ==
  ASSUME IInv, TypeOK', NEW d \in Devices, HandleCorrectionRequest(d)
  PROVE  IInv'
<1>1. PICK q, acc : /\ q = Head(toDevice[d])
                    /\ acc = deviceAccumulated[d] + q.step
  OBVIOUS
<1>2. /\ toDevice[d] # <<>>
      /\ executed' = [executed EXCEPT ![q.txn] = @ \cup {q.attempt}]
      /\ toHost' = Put(toHost, d, Response(q.txn, acc))
      /\ toDevice' = [toDevice EXCEPT ![d] = Tail(@)]
      /\ disk' = disk
      /\ UNCHANGED hostVars
  BY <1>1 DEF HandleCorrectionRequest
<1>3. q \in Requests /\ RequestKnown(d, q)
  BY <1>1, <1>2, HeadOfRequests
<1>4. q.txn \in Txns /\ q.attempt \in Nat /\ q.step \in Nat
  BY <1>3 DEF Requests
<1>5. acc \in Nat
  BY <1>1, <1>4 DEF IInv, TypeOK, WireTypeOK
<1>6. /\ executed \in [Txns -> SUBSET Nat]
      /\ disk.txn \in [Txns -> Records]
  BY DEF IInv, TypeOK, WireTypeOK, Journals
<1>7. MemoryIsJournal'
  BY <1>2 DEF IInv, MemoryIsJournal, hostVars, Running
<1>8. JournalAccounts'
  <2> SUFFICES ASSUME NEW u \in Txns
               PROVE  AccountsFor(disk.txn[u], executed'[u])
    BY <1>2 DEF JournalAccounts
  <2>1. AccountsFor(disk.txn[u], executed[u])
    BY DEF IInv, JournalAccounts
  <2>2. CASE u = q.txn
    <3>1. executed'[u] = executed[u] \cup {q.attempt}
      BY <1>2, <1>6, <2>2
    <3>2. Dispatched(disk.txn[u]) /\ q.attempt \in 0 .. disk.txn[u].retries
      BY <1>3, <1>4, <1>6, <2>2 DEF RequestKnown, RequestJournaled, Records
    <3> QED
      BY <2>1, <3>1, <3>2 DEF AccountsFor
  <2>3. CASE u # q.txn
    BY <1>2, <1>6, <2>1, <2>3
  <2> QED
    BY <2>2, <2>3
<1>9. StaysKnown
  <2>1. \A u \in Txns : Grows(disk.txn[u], disk'.txn[u])
    BY <1>2, <1>6 DEF Grows, Records
  <2>2. \A u \in Txns : executed[u] # {} => executed'[u] # {}
    BY <1>2, <1>6
  <2> QED
    BY <2>1, <2>2, GrowthKeepsMessages DEF IInv
<1>10. RequestsKnown'
  <2>1. \A e \in Devices : \/ toDevice'[e] = toDevice[e]
                           \/ toDevice[e] # <<>> /\ toDevice'[e] = Tail(toDevice[e])
    BY <1>2 DEF IInv, TypeOK, WireTypeOK
  <2> QED
    BY <1>9, <2>1, RequestsStay DEF IInv
<1>11. ResponsesKnown'
  <2>1. PICK m : m = Response(q.txn, acc)
    OBVIOUS
  <2>2. m \in Responses /\ m.txn = q.txn
    BY <1>4, <1>5, <2>1 DEF Response, Responses
  <2>3. executed'[m.txn] # {}
    BY <1>2, <1>4, <1>6, <2>2
  <2>4. ResponseKnown(d, m)'
    BY <1>2, <1>3, <2>2, <2>3
       DEF RequestKnown, RequestJournaled, ResponseKnown, ResponseJournaled
  <2> QED
    BY <1>2, <1>9, <2>1, <2>2, <2>4, ResponseSent DEF IInv
<1> QED
  BY <1>7, <1>8, <1>10, <1>11 DEF IInv

LEMMA WireKeeps ==
  ASSUME IInv, TypeOK', NEW d \in Devices,
         DeviceReboot(d) \/ LoseRequest(d) \/ LoseResponse(d)
  PROVE  IInv'
<1>1. disk' = disk /\ executed' = executed /\ UNCHANGED hostVars
  BY DEF DeviceReboot, LoseRequest, LoseResponse
<1>2. MemoryIsJournal'
  BY <1>1 DEF IInv, MemoryIsJournal, hostVars, Running
<1>3. LinesShrink
  BY DEF DeviceReboot, LoseRequest, LoseResponse, LinesShrink, IInv, TypeOK, WireTypeOK
<1> QED
  BY <1>1, <1>2, <1>3, NoWriteKeeps

LEMMA ReceiveKeeps ==
  ASSUME IInv, TypeOK', NEW d \in Devices, Receive(d) \/ CrashInReceive(d)
  PROVE  IInv'
<1>1. PICK m : m = Head(toHost[d])
  OBVIOUS
<1> DEFINE t == m.txn
<1> DEFINE r == txn[t]
<1>2. /\ Running /\ toHost[d] # <<>>
      /\ toHost' = [toHost EXCEPT ![d] = Tail(@)]
      /\ toDevice' = toDevice /\ executed' = executed
  BY DEF Receive, ReceiveApplied, ReceiveDuplicate, ReceiveRaises, CrashInReceive,
         Receives, Running
<1>3. m \in Responses /\ ResponseKnown(d, m)
  BY <1>1, <1>2, HeadOfResponses
<1>4. t \in Txns /\ executed[t] # {}
  BY <1>3 DEF Responses, ResponseKnown, ResponseJournaled
<1>5. r \in Records /\ r = disk.txn[t] /\ AccountsFor(r, executed[t])
  BY <1>2, <1>4, RecordFacts
<1>6. LinesShrink
  BY <1>2 DEF LinesShrink, IInv, TypeOK, WireTypeOK
<1>7. Moved(r, "APPLIED") \in Records
  BY <1>5, RecordUpdates DEF States
<1>8. ASSUME r.state \notin Answered, CanMove(r, "APPLIED")
      PROVE  Grows(r, Moved(r, "APPLIED")) /\ AccountsFor(Moved(r, "APPLIED"), executed[t])
  <2>1. r.retries \in Nat
    BY <1>5 DEF Records
  <2> QED
    BY <1>4, <1>5, <2>1, RecordFields DEF Grows, AccountsFor, Dispatched
<1>9. CASE ReceiveApplied(d)
  <2>1. /\ r.state \notin Answered /\ CanMove(r, "APPLIED")
        /\ \E acc, since : Persist([txn EXCEPT ![t] = Moved(r, "APPLIED")], acc, since)
    BY <1>1, <1>9 DEF ReceiveApplied
  <2> QED
    BY <1>2, <1>4, <1>6, <1>7, <1>8, <2>1, SaveKeeps
<1>10. CASE ReceiveDuplicate(d)
  <2>1. disk' = disk /\ UNCHANGED hostVars
    BY <1>10 DEF ReceiveDuplicate
  <2>2. MemoryIsJournal'
    BY <2>1 DEF IInv, MemoryIsJournal, hostVars, Running
  <2> QED
    BY <1>2, <1>6, <2>1, <2>2, NoWriteKeeps
<1>11. CASE ReceiveRaises(d)
  <2>1. disk' = disk /\ MemoryIsJournal'
    BY <1>11 DEF ReceiveRaises, ProcessEnds, MemoryIsJournal, Running
  <2> QED
    BY <1>2, <1>6, <2>1, NoWriteKeeps
<1>12. CASE CrashInReceive(d)
  <2>1. /\ r.state \notin Answered /\ CanMove(r, "APPLIED")
        /\ \E image \in {WithTxn(disk, t, Moved(r, "APPLIED"))} \cup CutOff :
             CrashLeaving(image)
    BY <1>1, <1>12 DEF CrashInReceive
  <2>2. CASE CrashLeaving(WithTxn(disk, t, Moved(r, "APPLIED")))
    BY <1>2, <1>4, <1>5, <1>6, <1>7, <1>8, <2>1, <2>2, CrashWriteKeeps
  <2>3. CASE \E image \in CutOff : CrashLeaving(image)
    BY <1>2, <1>6, <2>3, CrashKeeps
  <2> QED
    BY <2>1, <2>2, <2>3
<1> QED
  BY <1>9, <1>10, <1>11, <1>12 DEF Receive

LEMMA ProcessKeeps ==
  ASSUME IInv, TypeOK',
         StartPoll \/ Crash \/ Restart \/ (\E d \in Devices : Measure(d))
  PROVE  IInv'
<1>1. UNCHANGED wireVars /\ LinesShrink /\ executed' = executed
  BY DEF StartPoll, Crash, Restart, Measure, wireVars, LinesShrink
<1>2. CASE Crash
  BY <1>1, <1>2, CrashKeeps DEF Crash
<1>3. CASE StartPoll
  <2>1. disk' = disk /\ MemoryIsJournal'
    BY <1>3 DEF StartPoll, IInv, MemoryIsJournal, Running
  <2> QED
    BY <1>1, <2>1, NoWriteKeeps
<1>4. CASE Restart
  <2>1. disk' = disk /\ MemoryIsJournal'
    BY <1>4 DEF Restart, MemoryIsJournal
  <2> QED
    BY <1>1, <2>1, NoWriteKeeps
<1>5. CASE \E d \in Devices : Measure(d)
  <2>1. disk' = disk /\ MemoryIsJournal'
    BY <1>5 DEF Measure, IInv, MemoryIsJournal, Running
  <2> QED
    BY <1>1, <2>1, NoWriteKeeps
<1> QED
  BY <1>2, <1>3, <1>4, <1>5

\* Time ages the records and changes nothing else in them.
LEMMA TickKeeps ==
  ASSUME IInv, TypeOK', Tick
  PROVE  IInv'
<1>1. disk.txn \in [Txns -> Records] /\ disk \in Journals
  BY DEF IInv, TypeOK, Journals
<1>2. /\ disk'.txn = AgedTxns(disk.txn)
      /\ disk'.accumulated = disk.accumulated
      /\ disk'.sinceCorrection = AgedSince(disk.sinceCorrection)
  BY <1>1 DEF Tick, Journals
<1>3. \A t \in Txns : /\ disk'.txn[t].state = disk.txn[t].state
                      /\ disk'.txn[t].device = disk.txn[t].device
                      /\ disk'.txn[t].step = disk.txn[t].step
                      /\ disk'.txn[t].retries = disk.txn[t].retries
                      /\ disk'.txn[t].reason = disk.txn[t].reason
  BY <1>1, <1>2 DEF AgedTxns, Records
<1>4. \A t \in Txns : disk.txn[t].retries \in Nat
  BY <1>1 DEF Records
<1>5. UNCHANGED wireVars /\ LinesShrink /\ executed' = executed
  BY DEF Tick, wireVars, LinesShrink
<1>6. MemoryIsJournal'
  BY <1>2 DEF Tick, IInv, MemoryIsJournal, Running
<1>7. JournalAccounts'
  BY <1>3, <1>5 DEF IInv, JournalAccounts, AccountsFor, Dispatched
<1>8. StaysKnown
  <2>1. \A t \in Txns : Grows(disk.txn[t], disk'.txn[t])
    BY <1>3, <1>4 DEF Grows, Dispatched
  <2> QED
    BY <1>5, <2>1, GrowthKeepsMessages DEF IInv
<1> QED
  BY <1>5, <1>6, <1>7, <1>8, RequestsStay, ResponsesStay DEF IInv, LinesShrink

-----------------------------------------------------------------------------
(* The theorems *)

LEMMA InitJournal == Init => IInv
<1> SUFFICES ASSUME Init PROVE IInv
  OBVIOUS
<1>1. TypeOK
  BY InitTypes
<1>2. /\ disk = EmptyJournal
      /\ txn = NoTxns /\ accumulated = NothingDone /\ sinceCorrection = LongAgo
      /\ executed = [t \in Txns |-> {}]
      /\ toDevice = [d \in Devices |-> <<>>] /\ toHost = [d \in Devices |-> <<>>]
  BY DEF Init
<1>3. MemoryIsJournal
  BY <1>2 DEF MemoryIsJournal, EmptyJournal
<1>4. RequestsKnown /\ ResponsesKnown
  BY <1>2 DEF RequestsKnown, ResponsesKnown
<1>5. JournalAccounts
  <2> SUFFICES ASSUME NEW t \in Txns
               PROVE  AccountsFor(disk.txn[t], executed[t])
    BY DEF JournalAccounts
  <2>1. disk.txn[t] = NoRecord /\ executed[t] = {}
    BY <1>2 DEF EmptyJournal, NoTxns
  <2> QED
    BY <2>1, Bounds DEF AccountsFor, NoRecord, Answered
<1> QED
  BY <1>1, <1>3, <1>4, <1>5 DEF IInv

LEMMA NextJournal == IInv /\ [Next]_vars => IInv'
<1> SUFFICES ASSUME IInv, [Next]_vars PROVE IInv'
  OBVIOUS
<1>1. TypeOK'
  BY NextTypes DEF IInv
<1>2. CASE UNCHANGED vars
  <2>1. UNCHANGED <<disk, executed, toDevice, toHost>> /\ UNCHANGED hostVars
    BY <1>2 DEF vars, wireVars
  <2>2. LinesShrink /\ MemoryIsJournal'
    BY <2>1 DEF LinesShrink, IInv, MemoryIsJournal, hostVars, Running
  <2> QED
    BY <1>1, <2>1, <2>2, NoWriteKeeps
<1>3. ASSUME NEW t \in Txns, NEW d \in Devices, NEW offset \in Offsets,
             Execute(t, d, offset)
      PROVE  IInv'
  BY <1>1, <1>3, ExecuteKeeps
<1>4. ASSUME NEW d \in Devices,
             HandleCorrectionRequest(d) \/ Receive(d) \/ Measure(d) \/ DeviceReboot(d)
               \/ LoseRequest(d) \/ LoseResponse(d) \/ CrashInReceive(d)
      PROVE  IInv'
  BY <1>1, <1>4, DeviceKeeps, ReceiveKeeps, WireKeeps, ProcessKeeps
<1>5. ASSUME NEW t \in Txns,
             RetryOrFail(t) \/ Recover(t) \/ CrashInResend(t) \/ CrashInVerify(t)
      PROVE  IInv'
  BY <1>1, <1>5, VisitKeeps
<1>6. CASE StartPoll \/ Crash \/ Restart
  BY <1>1, <1>6, ProcessKeeps
<1>7. CASE Tick
  BY <1>1, <1>7, TickKeeps
<1> QED
  BY <1>2, <1>3, <1>4, <1>5, <1>6, <1>7 DEF Next

\* The journal accounts for the wire and the devices in every reachable state.
THEOREM JournalInvariant == Spec => []IInv
  BY InitJournal, NextJournal, PTL DEF Spec

\* Through any crashes, losses and restarts, the journal never calls a
\* correction applied, verified or undone that no device carried out
\* (mark_applied only follows an answer).
THEOREM AppliedIsAlwaysReal == Spec => []AppliedIsReal
<1>1. IInv => AppliedIsReal
  BY DEF IInv, JournalAccounts, AccountsFor, AppliedIsReal
<1> QED
  BY <1>1, JournalInvariant, PTL

\* Write-ahead: every request and every answer in flight is of a transaction
\* the journal already has, as sent, with its device, step and attempt.
THEOREM WireIsAlwaysJournaled == Spec => []WireIsJournaled
<1>1. IInv => WireIsJournaled
  BY DEF IInv, RequestsKnown, ResponsesKnown, RequestKnown, ResponseKnown, WireIsJournaled
<1> QED
  BY <1>1, JournalInvariant, PTL

\* A device acts on at most 1 + max_retries sends of a transaction: counting
\* the attempt before it is sent keeps a restart from refilling the budget.
THEOREM RetryBudgetHolds == Spec => []ExecutionsWithinRetryBudget
<1>1. IInv => ExecutionsWithinRetryBudget
  <2> SUFFICES ASSUME IInv, NEW t \in Txns
               PROVE  executed[t] \subseteq 0 .. MaxRetries
    BY DEF ExecutionsWithinRetryBudget
  <2>1. /\ executed[t] \subseteq 0 .. disk.txn[t].retries
        /\ disk.txn[t].retries <= MaxRetries
        /\ disk.txn[t].retries \in Nat
    BY DEF IInv, JournalAccounts, AccountsFor, TypeOK, Journals, Records
  <2> QED
    BY <2>1, Bounds
<1> QED
  BY <1>1, JournalInvariant, PTL

\* A timeout is declared only after every allowed attempt.
THEOREM TimeoutIsLast == Spec => []TimeoutSpendsAllRetries
<1>1. IInv => TimeoutSpendsAllRetries
  BY DEF IInv, JournalAccounts, AccountsFor, TimeoutSpendsAllRetries
<1> QED
  BY <1>1, JournalInvariant, PTL

\* Only an answer to a correction that was sent and given up on brings the
\* engine down: mark_applied never meets a transaction it does not know.
THEOREM StopsOnlyLate == Spec => StopsOnlyOnLateAnswer
<1> DEFINE LateAnswer ==
             mode # "stopped" /\ mode' = "stopped" =>
               \E d \in Devices :
                 /\ toHost[d] # <<>>
                 /\ txn[Head(toHost[d]).txn].state = "FAILED"
                 /\ txn[Head(toHost[d]).txn].reason \in {"wireTimeout", "notVerified"}
<1>1. IInv /\ [Next]_vars => [LateAnswer]_vars
  <2> SUFFICES ASSUME IInv, Next, mode # "stopped", mode' = "stopped"
               PROVE  \E d \in Devices :
                        /\ toHost[d] # <<>>
                        /\ txn[Head(toHost[d]).txn].state = "FAILED"
                        /\ txn[Head(toHost[d]).txn].reason \in {"wireTimeout", "notVerified"}
    OBVIOUS
  <2>1. PICK d \in Devices : ReceiveRaises(d)
    <3> SUFFICES ASSUME \A d \in Devices : ~ReceiveRaises(d)
                 PROVE  mode' = mode \/ mode' \in {"idle", "poll", "recover", "down"}
      OBVIOUS
    <3>1. \A image : CrashLeaving(image) => mode' = "down"
      BY DEF CrashLeaving, ProcessEnds
    <3>2. \A t : Visited(t) => mode' \in {"idle", mode}
      BY DEF Visited
    <3>3. ASSUME NEW t \in Txns, NEW d \in Devices, NEW offset \in Offsets,
                 Execute(t, d, offset)
          PROVE  mode' \in {mode, "down"}
      BY <3>1, <3>3 DEF Execute, ExecuteOnWire, ExecuteWithoutTransport,
                        ExecuteSimulated, CrashInExecute, CrashInSimulated
    <3>4. ASSUME NEW d \in Devices,
                 HandleCorrectionRequest(d) \/ Receive(d) \/ Measure(d) \/ DeviceReboot(d)
                   \/ LoseRequest(d) \/ LoseResponse(d) \/ CrashInReceive(d)
          PROVE  mode' \in {mode, "down"}
      BY <3>1, <3>4 DEF HandleCorrectionRequest, Receive, ReceiveApplied, ReceiveDuplicate,
                        Measure, DeviceReboot, LoseRequest, LoseResponse, CrashInReceive,
                        hostVars
    <3>5. ASSUME NEW t \in Txns,
                 RetryOrFail(t) \/ Recover(t) \/ CrashInResend(t) \/ CrashInVerify(t)
          PROVE  mode' \in {mode, "idle", "down"}
      BY <3>1, <3>2, <3>5 DEF RetryOrFail, NotTimedOut, Resend, GiveUp, Recover,
                              RecoverUnsent, VerifyCompletes, VerifyRollsBack,
                              CrashInResend, CrashInVerify
    <3>6. StartPoll \/ Crash \/ Restart \/ Tick =>
            mode' \in {mode, "idle", "poll", "recover", "down"}
      BY <3>1 DEF StartPoll, Crash, Restart, Tick
    <3> QED
      BY <3>3, <3>4, <3>5, <3>6 DEF Next
  <2>2. PICK t : t = Head(toHost[d]).txn
    OBVIOUS
  <2>3. /\ toHost[d] # <<>> /\ Running
        /\ txn[t].state \notin Answered
        /\ ~CanMove(txn[t], "APPLIED")
    BY <2>1, <2>2 DEF ReceiveRaises, Receives, Running
  <2>4. t \in Txns /\ executed[t] # {}
    BY <2>2, <2>3, HeadOfResponses DEF Responses, ResponseKnown, ResponseJournaled
  <2>5. /\ txn[t] \in Records
        /\ Dispatched(txn[t])
    BY <2>3, <2>4, RecordFacts DEF AccountsFor
  <2>6. txn[t].state # "SENT"
    BY <2>3 DEF CanMove, ValidTransitions
  <2>7. txn[t].state = "FAILED"
    BY <2>3, <2>5, <2>6 DEF Dispatched, Records, States, Answered
  <2> QED
    BY <2>2, <2>3, <2>5, <2>7 DEF Dispatched
<1> QED
  BY <1>1, JournalInvariant, PTL DEF Spec, StopsOnlyOnLateAnswer

-----------------------------------------------------------------------------
(* The books of the host and the total of the device *)

\* No answer on its way reports more than the device has accumulated.
ReportsTrue ==
  \A d \in Devices : \A i \in DOMAIN toHost[d] :
    toHost[d][i].accumulated <= deviceAccumulated[d]

BooksInv ==
  HasTransport /\ reboots = 0 =>
    /\ ReportsTrue
    /\ \A d \in Devices : disk.accumulated[d] <= deviceAccumulated[d]

\* What a step may do to the books: they go down, or take over what the oldest
\* answer of the device reports.
BooksMove ==
  \A d \in Devices :
    \/ disk'.accumulated[d] <= disk.accumulated[d]
    \/ toHost[d] # <<>> /\ disk'.accumulated[d] = Head(toHost[d]).accumulated

\* And to the device and its answers.
DeviceMoves ==
  \A d \in Devices :
    /\ deviceAccumulated'[d] >= deviceAccumulated[d]
    /\ \/ toHost'[d] = toHost[d]
       \/ toHost[d] # <<>> /\ toHost'[d] = Tail(toHost[d])
       \/ \E m \in Responses : /\ toHost'[d] = Append(toHost[d], m)
                               /\ m.accumulated = deviceAccumulated'[d]

LEMMA BooksFacts ==
  ASSUME TypeOK, NEW d \in Devices
  PROVE  /\ disk.accumulated \in [Devices -> Nat] /\ disk.accumulated[d] \in Nat
         /\ accumulated \in [Devices -> Nat]
         /\ deviceAccumulated \in [Devices -> Nat] /\ deviceAccumulated[d] \in Nat
  BY DEF TypeOK, Journals, HostTypeOK, WireTypeOK

LEMMA SameBooks ==
  ASSUME TypeOK, disk'.accumulated = disk.accumulated
  PROVE  BooksMove
  BY BooksFacts DEF BooksMove

LEMMA CrashedBooks ==
  ASSUME TypeOK, NEW image, CrashLeaving(image),
         image \in CutOff \/ \E t, q : image = WithTxn(disk, t, q)
  PROVE  BooksMove
<1>1. image.accumulated = disk.accumulated
  BY DEF CutOff, WithTxn, TypeOK, Journals
<1> QED
  BY <1>1, SameBooks DEF CrashLeaving, ProcessEnds

LEMMA SavedBooks ==
  ASSUME TypeOK, MemoryIsJournal, Running, NEW t \in Txns, NEW q, SaveTxnOnly(t, q)
  PROVE  BooksMove
<1>1. disk'.accumulated = disk.accumulated
  BY DEF SaveTxnOnly, Persist, Snapshot, MemoryIsJournal
<1> QED
  BY <1>1, SameBooks

LEMMA HostMovesBooks ==
  ASSUME IInv, HasTransport, [Next]_vars
  PROVE  BooksMove
<1> USE DEF IInv
<1>1. ASSUME NEW t \in Txns, NEW d \in Devices, NEW offset \in Offsets, Execute(t, d, offset)
      PROVE  BooksMove
  <2>1. ExecuteOnWire(t, d, offset) \/ CrashInExecute(t, d, offset)
    BY <1>1 DEF Execute, ExecuteWithoutTransport, ExecuteSimulated, CrashInSimulated
  <2>2. Running
    BY <2>1 DEF ExecuteOnWire, CrashInExecute, MayCreate, Running
  <2>3. CASE ExecuteOnWire(t, d, offset)
    <3>1. \E q : SaveTxnOnly(t, q)
      BY <2>3 DEF ExecuteOnWire
    <3> QED
      BY <2>2, <3>1, SavedBooks
  <2>4. CASE CrashInExecute(t, d, offset)
    BY <2>4, CrashedBooks DEF CrashInExecute
  <2> QED
    BY <2>1, <2>3, <2>4
<1>2. ASSUME NEW d \in Devices, Receive(d) \/ CrashInReceive(d)
      PROVE  BooksMove
  <2> DEFINE m == Head(toHost[d])
  <2> DEFINE r == txn[m.txn]
  <2>1. CASE ReceiveApplied(d)
    <3>1. Running /\ toHost[d] # <<>>
      BY <2>1 DEF ReceiveApplied, Receives, Running
    <3>2. r.device = d
      BY <3>1, HeadOfResponses, RecordFacts DEF ResponseKnown, ResponseJournaled, Responses
    <3>3. disk'.accumulated = [disk.accumulated EXCEPT ![d] = m.accumulated]
      BY <2>1, <3>1, <3>2 DEF ReceiveApplied, Persist, Snapshot, MemoryIsJournal, NewTotal
    <3> QED
      BY <3>1, <3>3, BooksFacts DEF BooksMove
  <2>2. CASE ReceiveDuplicate(d) \/ ReceiveRaises(d)
    BY <2>2, SameBooks DEF ReceiveDuplicate, ReceiveRaises, ProcessEnds
  <2>3. CASE CrashInReceive(d)
    BY <2>3, CrashedBooks DEF CrashInReceive
  <2> QED
    BY <1>2, <2>1, <2>2, <2>3 DEF Receive
<1>3. ASSUME NEW t \in Txns,
             RetryOrFail(t) \/ Recover(t) \/ CrashInResend(t) \/ CrashInVerify(t)
      PROVE  BooksMove
  <2>1. CASE NotTimedOut(t)
    BY <2>1, SameBooks DEF NotTimedOut
  <2>2. CASE Resend(t) \/ GiveUp(t) \/ RecoverUnsent(t) \/ VerifyCompletes(t)
    <3>1. Running /\ \E q : SaveTxnOnly(t, q)
      BY <2>2 DEF Resend, MayResend, GiveUp, RecoverUnsent, VerifyCompletes, AwaitsVerification,
                  Visiting, Running
    <3> QED
      BY <3>1, SavedBooks
  <2>3. CASE VerifyRollsBack(t)
    <3> DEFINE r == txn[t]
    <3>1. Running /\ r \in Records
      BY <2>3 DEF VerifyRollsBack, AwaitsVerification, Visiting, Running, TypeOK, HostTypeOK
    <3>2. disk'.accumulated = [disk.accumulated EXCEPT ![r.device] = TakenBack(@, r.step)]
      BY <2>3, <3>1 DEF VerifyRollsBack, Persist, Snapshot, MemoryIsJournal
    <3>3. r.step \in Nat
      BY <3>1 DEF Records
    <3>4. \A acc \in Nat : TakenBack(acc, r.step) <= acc
      BY <3>3 DEF TakenBack
    <3> HIDE DEF r
    <3> QED
      BY <3>2, <3>4, BooksFacts DEF BooksMove
  <2>4. CASE CrashInResend(t) \/ CrashInVerify(t)
    <3>1. \E image : /\ CrashLeaving(image)
                     /\ image \in CutOff \/ \E q : image = WithTxn(disk, t, q)
      BY <2>4 DEF CrashInResend, CrashInVerify
    <3> QED
      BY <3>1, CrashedBooks
  <2> QED
    BY <1>3, <2>1, <2>2, <2>3, <2>4 DEF RetryOrFail, Recover
<1>4. CASE Tick
  <2>1. disk'.accumulated = disk.accumulated
    BY <1>4 DEF Tick, TypeOK, Journals
  <2> QED
    BY <2>1, SameBooks
<1>5. CASE \/ StartPoll \/ Crash \/ Restart \/ UNCHANGED vars
           \/ \E d \in Devices : \/ Measure(d) \/ HandleCorrectionRequest(d) \/ DeviceReboot(d)
                                 \/ LoseRequest(d) \/ LoseResponse(d)
  <2>1. disk' = disk
    BY <1>5 DEF StartPoll, Crash, CrashLeaving, ProcessEnds, Restart, vars, Measure,
                HandleCorrectionRequest, DeviceReboot, LoseRequest, LoseResponse
  <2> QED
    BY <2>1, SameBooks
<1> QED
  BY <1>1, <1>2, <1>3, <1>4, <1>5 DEF Next

LEMMA DeviceRests ==
  ASSUME TypeOK, deviceAccumulated' = deviceAccumulated, toHost' = toHost
  PROVE  DeviceMoves
  BY BooksFacts DEF DeviceMoves

LEMMA LineShortened ==
  ASSUME TypeOK, NEW d \in Devices, toHost[d] # <<>>,
         deviceAccumulated' = deviceAccumulated, toHost' = [toHost EXCEPT ![d] = Tail(@)]
  PROVE  DeviceMoves
<1>1. toHost \in [Devices -> Seq(Responses)]
  BY DEF TypeOK, WireTypeOK
<1> QED
  BY <1>1, BooksFacts DEF DeviceMoves

LEMMA DeviceStep ==
  ASSUME TypeOK, HasTransport, [Next]_vars, reboots = reboots'
  PROVE  DeviceMoves
<1>1. ASSUME NEW d \in Devices, HandleCorrectionRequest(d)
      PROVE  DeviceMoves
  <2> DEFINE m == Head(toDevice[d])
  <2> DEFINE acc == deviceAccumulated[d] + m.step
  <2>1. m \in Requests
    BY <1>1, WireOps DEF HandleCorrectionRequest, TypeOK, WireTypeOK
  <2>2. m.txn \in Txns /\ m.step \in Nat
    BY <2>1 DEF Requests
  <2>3. acc \in Nat /\ acc >= deviceAccumulated[d]
    BY <2>2, BooksFacts
  <2>4. Response(m.txn, acc) \in Responses /\ Response(m.txn, acc).accumulated = acc
    BY <2>2, <2>3 DEF Response, Responses
  <2>5. /\ deviceAccumulated' = [deviceAccumulated EXCEPT ![d] = acc]
        /\ toHost' = Put(toHost, d, Response(m.txn, acc))
    BY <1>1 DEF HandleCorrectionRequest
  <2>6. toHost \in [Devices -> Seq(Responses)]
    BY DEF TypeOK, WireTypeOK
  <2> HIDE DEF acc, m
  <2>7. toHost'[d] = Append(toHost[d], Response(m.txn, acc))
    BY <2>5, <2>6 DEF Put
  <2>8. \A e \in Devices \ {d} : toHost'[e] = toHost[e]
    BY <2>5, <2>6 DEF Put
  <2>9. deviceAccumulated'[d] = acc /\ \A e \in Devices \ {d} : deviceAccumulated'[e] = deviceAccumulated[e]
    BY <2>5, BooksFacts
  <2>10. ASSUME NEW e \in Devices
         PROVE  /\ deviceAccumulated'[e] >= deviceAccumulated[e]
                /\ \/ toHost'[e] = toHost[e]
                   \/ \E a \in Responses : /\ toHost'[e] = Append(toHost[e], a)
                                           /\ a.accumulated = deviceAccumulated'[e]
    <3>1. CASE e = d
      BY <2>3, <2>4, <2>7, <2>9, <3>1
    <3>2. CASE e # d
      BY <2>8, <2>9, <3>2, BooksFacts
    <3> QED
      BY <3>1, <3>2
  <2> QED
    BY <2>10 DEF DeviceMoves
<1>2. ASSUME NEW d \in Devices, Receive(d) \/ CrashInReceive(d) \/ LoseResponse(d)
      PROVE  DeviceMoves
  BY <1>2, LineShortened DEF Receive, ReceiveApplied, ReceiveDuplicate, ReceiveRaises,
                             CrashInReceive, Receives, LoseResponse
<1>3. ASSUME NEW t \in Txns, NEW d \in Devices, NEW offset \in Offsets, Execute(t, d, offset)
      PROVE  DeviceMoves
  BY <1>3, DeviceRests DEF Execute, ExecuteOnWire, ExecuteWithoutTransport, ExecuteSimulated,
                           CrashInExecute, CrashInSimulated, wireVars
<1>4. ASSUME NEW t \in Txns,
             RetryOrFail(t) \/ Recover(t) \/ CrashInResend(t) \/ CrashInVerify(t)
      PROVE  DeviceMoves
  BY <1>4, DeviceRests DEF RetryOrFail, NotTimedOut, Resend, GiveUp, Recover, RecoverUnsent,
                           VerifyCompletes, VerifyRollsBack, CrashInResend, CrashInVerify, wireVars
<1>5. CASE \/ StartPoll \/ Crash \/ Restart \/ Tick \/ UNCHANGED vars
           \/ \E d \in Devices : Measure(d) \/ LoseRequest(d)
  BY <1>5, DeviceRests DEF StartPoll, Crash, Restart, Tick, vars, Measure, LoseRequest, wireVars
<1>6. ASSUME NEW d \in Devices, DeviceReboot(d)
      PROVE  FALSE
  BY <1>6 DEF DeviceReboot, TypeOK, FaultTypeOK
<1> QED
  BY <1>1, <1>2, <1>3, <1>4, <1>5, <1>6 DEF Next

LEMMA RebootsGrow ==
  ASSUME TypeOK, [Next]_vars, reboots' = 0
  PROVE  reboots = 0
<1>1. \A image : CrashLeaving(image) => reboots' = reboots
  BY DEF CrashLeaving
<1>2. ASSUME NEW t \in Txns, NEW d \in Devices, NEW offset \in Offsets, Execute(t, d, offset)
      PROVE  reboots' = reboots
  BY <1>1, <1>2 DEF Execute, ExecuteOnWire, ExecuteWithoutTransport, ExecuteSimulated,
                    CrashInExecute, CrashInSimulated, faultVars
<1>3. ASSUME NEW d \in Devices, \/ HandleCorrectionRequest(d) \/ Receive(d) \/ Measure(d)
                                \/ LoseRequest(d) \/ LoseResponse(d) \/ CrashInReceive(d)
      PROVE  reboots' = reboots
  BY <1>1, <1>3 DEF HandleCorrectionRequest, Receive, ReceiveApplied, ReceiveDuplicate,
                    ReceiveRaises, Measure, LoseRequest, LoseResponse, CrashInReceive, faultVars
<1>4. ASSUME NEW t \in Txns,
             RetryOrFail(t) \/ Recover(t) \/ CrashInResend(t) \/ CrashInVerify(t)
      PROVE  reboots' = reboots
  BY <1>1, <1>4 DEF RetryOrFail, NotTimedOut, Resend, GiveUp, Recover, RecoverUnsent,
                    VerifyCompletes, VerifyRollsBack, CrashInResend, CrashInVerify, faultVars
<1>5. CASE StartPoll \/ Crash \/ Restart \/ Tick \/ UNCHANGED vars
  BY <1>1, <1>5 DEF StartPoll, Crash, Restart, Tick, vars, faultVars
<1>6. ASSUME NEW d \in Devices, DeviceReboot(d)
      PROVE  FALSE
  BY <1>6 DEF DeviceReboot, TypeOK, FaultTypeOK
<1> QED
  BY <1>2, <1>3, <1>4, <1>5, <1>6 DEF Next

\* An answer that is still on its way was on it before, or is new.
LEMMA AnswersOnTheWay ==
  ASSUME TypeOK, DeviceMoves, NEW d \in Devices, NEW i \in DOMAIN toHost'[d]
  PROVE  \/ \E j \in DOMAIN toHost[d] : toHost'[d][i] = toHost[d][j]
         \/ toHost'[d][i].accumulated = deviceAccumulated'[d]
<1> DEFINE s == toHost[d]
<1> DEFINE s2 == toHost'[d]
<1>1. s \in Seq(Responses)
  BY LineTypes
<1>2. i \in DOMAIN s2
  OBVIOUS
<1>3. \/ s2 = s \/ (s # <<>> /\ s2 = Tail(s))
      \/ \E m \in Responses : s2 = Append(s, m) /\ m.accumulated = deviceAccumulated'[d]
  BY DEF DeviceMoves
<1> HIDE DEF s, s2
<1>4. CASE s2 = s \/ (s # <<>> /\ s2 = Tail(s))
  <2>1. \E j \in DOMAIN s : s2[i] = s[j]
    BY <1>1, <1>2, <1>4, ShorterLine
  <2> QED
    BY <2>1 DEF s, s2
<1>5. ASSUME NEW m \in Responses, s2 = Append(s, m), m.accumulated = deviceAccumulated'[d]
      PROVE  (\E j \in DOMAIN s : s2[i] = s[j]) \/ s2[i].accumulated = deviceAccumulated'[d]
  BY <1>1, <1>2, <1>5, AppendElements
<1> QED
  BY <1>3, <1>4, <1>5 DEF s, s2

LEMMA BooksStep ==
  ASSUME IInv, TypeOK', BooksInv, [Next]_vars
  PROVE  BooksInv'
<1> SUFFICES ASSUME HasTransport, reboots' = 0
             PROVE  /\ ReportsTrue'
                    /\ \A d \in Devices : disk'.accumulated[d] <= deviceAccumulated'[d]
  BY DEF BooksInv
<1>1. TypeOK /\ reboots = 0
  BY RebootsGrow DEF IInv
<1>2. ReportsTrue /\ \A d \in Devices : disk.accumulated[d] <= deviceAccumulated[d]
  BY <1>1 DEF BooksInv
<1>3. BooksMove /\ DeviceMoves
  BY <1>1, HostMovesBooks, DeviceStep
<1>4. \A d \in Devices : deviceAccumulated[d] \in Nat /\ deviceAccumulated'[d] \in Nat
  BY DEF IInv, TypeOK, WireTypeOK
<1>5. ASSUME NEW d \in Devices, NEW i \in DOMAIN toHost'[d]
      PROVE  toHost'[d][i].accumulated <= deviceAccumulated'[d]
  <2>1. CASE toHost'[d][i].accumulated = deviceAccumulated'[d]
    BY <1>4, <2>1
  <2>2. ASSUME NEW j \in DOMAIN toHost[d], toHost'[d][i] = toHost[d][j]
        PROVE  toHost'[d][i].accumulated <= deviceAccumulated'[d]
    <3>1. toHost[d][j].accumulated \in Nat
      BY <1>1, LineTypes DEF Responses
    <3>2. toHost[d][j].accumulated <= deviceAccumulated[d]
      BY <1>2 DEF ReportsTrue
    <3>3. deviceAccumulated[d] <= deviceAccumulated'[d]
      BY <1>3, <1>4 DEF DeviceMoves
    <3> QED
      BY <1>4, <2>2, <3>1, <3>2, <3>3
  <2> QED
    BY <1>1, <1>3, <2>1, <2>2, AnswersOnTheWay
<1>6. ASSUME NEW d \in Devices
      PROVE  disk'.accumulated[d] <= deviceAccumulated'[d]
  <2>1. disk.accumulated[d] \in Nat /\ disk'.accumulated[d] \in Nat
    BY DEF IInv, TypeOK, Journals
  <2>2. deviceAccumulated[d] <= deviceAccumulated'[d]
    BY <1>3, <1>4 DEF DeviceMoves
  <2>3. CASE disk'.accumulated[d] <= disk.accumulated[d]
    BY <1>2, <1>4, <2>1, <2>2, <2>3
  <2>4. CASE toHost[d] # <<>> /\ disk'.accumulated[d] = Head(toHost[d]).accumulated
    <3>1. 1 \in DOMAIN toHost[d] /\ Head(toHost[d]) = toHost[d][1]
      BY <1>1, <2>4, LineTypes
    <3>2. toHost[d][1].accumulated <= deviceAccumulated[d]
      BY <1>2, <3>1 DEF ReportsTrue
    <3> QED
      BY <1>4, <2>1, <2>2, <2>4, <3>1, <3>2
  <2> QED
    BY <1>3, <2>3, <2>4 DEF BooksMove
<1> QED
  BY <1>5, <1>6 DEF ReportsTrue

\* The total the limit is checked against is never more than the device has
\* accumulated, unless the device is reset: rollbacks only take off it, and an
\* answer that comes late reports less than there is.
THEOREM BooksStayBelowDevice == Spec => []BooksNeverExceedDevice
<1>1. Init => BooksInv
  BY DEF Init, BooksInv, ReportsTrue, EmptyJournal, NothingDone
<1>2. IInv /\ IInv' /\ BooksInv /\ [Next]_vars => BooksInv'
  BY BooksStep DEF IInv
<1>3. BooksInv => BooksNeverExceedDevice
  BY DEF BooksInv, BooksNeverExceedDevice
<1> QED
  BY <1>1, <1>2, <1>3, JournalInvariant, PTL DEF Spec

-----------------------------------------------------------------------------
(***************************************************************************)
(* The protocol keeps the promise of CorrectionLifecycle: read through     *)
(* what its journal says, every step of hosts, wires, devices and faults   *)
(* is a step of the lifecycle or changes nothing of it.                    *)
(***************************************************************************)

\* The record of a transaction may go from r to q; done: the device has
\* carried the transaction out.
Lawful(r, q, done) ==
  \/ PhaseOf(q.state) = PhaseOf(r.state)
  \/ r.state = "NONE" /\ q.state \in Unfinished
  \/ r.state \in {"NONE"} \cup Unfinished /\ q.state = "FAILED"
  \/ r.state \in Unfinished /\ done /\ q.state \in {"COMPLETED", "FAILED", "ROLLED_BACK"}

LifecycleStep == [Lifecycle!Next]_(Lifecycle!vars)

LEMMA PhaseOfStates ==
  ASSUME NEW s \in States
  PROVE  /\ s = "NONE" => PhaseOf(s) = "idle"
         /\ s \in Unfinished => PhaseOf(s) = "pending"
         /\ s = "COMPLETED" => PhaseOf(s) = "completed"
         /\ s = "FAILED" => PhaseOf(s) = "failed"
         /\ s = "ROLLED_BACK" => PhaseOf(s) = "rolledBack"
  BY DEF PhaseOf, Unfinished, States

LEMMA WriteRefines ==
  ASSUME IInv, TypeOK', NEW t \in Txns, NEW q \in Records,
         disk'.txn = [disk.txn EXCEPT ![t] = q],
         executed' = executed,
         Lawful(disk.txn[t], q, executed[t] # {})
  PROVE  LifecycleStep
<1> DEFINE phase == [u \in Txns |-> PhaseOf(disk.txn[u].state)]
<1> DEFINE carriedOut == [u \in Txns |-> executed[u] # {}]
<1>1. disk.txn \in [Txns -> Records] /\ disk.txn[t].state \in States /\ q.state \in States
  BY DEF IInv, TypeOK, Journals, Records
<1>2. phase' = [phase EXCEPT ![t] = PhaseOf(q.state)]
  <2>1. \A u \in Txns : disk'.txn[u] = IF u = t THEN q ELSE disk.txn[u]
    BY <1>1
  <2> QED
    BY <2>1
<1>3. carriedOut' = carriedOut
  OBVIOUS
<1>4. phase[t] = PhaseOf(disk.txn[t].state) /\ carriedOut[t] = (executed[t] # {})
  OBVIOUS
<1>5. CASE PhaseOf(q.state) = PhaseOf(disk.txn[t].state)
  <2>1. phase' = phase
    BY <1>2, <1>4, <1>5
  <2> QED
    BY <1>3, <2>1 DEF LifecycleStep, Lifecycle!vars
<1>6. CASE disk.txn[t].state = "NONE" /\ q.state \in Unfinished
  <2>1. phase[t] = "idle" /\ phase' = [phase EXCEPT ![t] = "pending"]
    BY <1>1, <1>2, <1>4, <1>6, PhaseOfStates
  <2>2. Lifecycle!Ask(t)
    BY <1>3, <2>1 DEF Lifecycle!Ask
  <2> QED
    BY <2>2 DEF LifecycleStep, Lifecycle!Next
<1>7. CASE disk.txn[t].state \in {"NONE"} \cup Unfinished /\ q.state = "FAILED"
  <2>1. phase[t] \in {"idle", "pending"} /\ phase' = [phase EXCEPT ![t] = "failed"]
    BY <1>1, <1>2, <1>4, <1>7, PhaseOfStates
  <2>2. Lifecycle!GiveUp(t)
    BY <1>3, <2>1 DEF Lifecycle!GiveUp
  <2> QED
    BY <2>2 DEF LifecycleStep, Lifecycle!Next
<1>8. CASE /\ disk.txn[t].state \in Unfinished /\ executed[t] # {}
           /\ q.state \in {"COMPLETED", "FAILED", "ROLLED_BACK"}
  <2>1. /\ phase[t] = "pending" /\ carriedOut[t]
        /\ PhaseOf(q.state) \in {"completed", "failed", "rolledBack"}
    BY <1>1, <1>4, <1>8, PhaseOfStates
  <2>2. Lifecycle!Judge(t)
    BY <1>2, <1>3, <2>1 DEF Lifecycle!Judge, Lifecycle!Settled
  <2> QED
    BY <2>2 DEF LifecycleStep, Lifecycle!Next
<1> QED
  BY <1>5, <1>6, <1>7, <1>8 DEF Lawful

\* The journal keeps the state of every transaction, and the devices do nothing.
LEMMA StutterRefines ==
  ASSUME \A u \in Txns : disk'.txn[u].state = disk.txn[u].state,
         executed' = executed
  PROVE  LifecycleStep
<1> DEFINE phase == [u \in Txns |-> PhaseOf(disk.txn[u].state)]
<1> DEFINE carriedOut == [u \in Txns |-> executed[u] # {}]
<1>1. phase' = phase /\ carriedOut' = carriedOut
  OBVIOUS
<1> QED
  BY <1>1 DEF LifecycleStep, Lifecycle!vars

\* One transaction is run against a simulated device.
LEMMA SimulatedRefines ==
  ASSUME IInv, TypeOK', NEW t \in Txns, NEW q \in Records,
         disk.txn[t].state = "NONE", q.state \notin {"NONE"},
         disk'.txn = [disk.txn EXCEPT ![t] = q],
         executed' = [executed EXCEPT ![t] = {0}]
  PROVE  LifecycleStep
<1> DEFINE phase == [u \in Txns |-> PhaseOf(disk.txn[u].state)]
<1> DEFINE carriedOut == [u \in Txns |-> executed[u] # {}]
<1>1. /\ disk.txn \in [Txns -> Records] /\ q.state \in States
      /\ executed \in [Txns -> SUBSET Nat]
  BY DEF IInv, TypeOK, Journals, Records, WireTypeOK
<1>2. phase' = [phase EXCEPT ![t] = PhaseOf(q.state)]
  <2>1. \A u \in Txns : disk'.txn[u] = IF u = t THEN q ELSE disk.txn[u]
    BY <1>1
  <2> QED
    BY <2>1
<1>3. carriedOut' = [carriedOut EXCEPT ![t] = TRUE]
  <2>1. \A u \in Txns : executed'[u] = IF u = t THEN {0} ELSE executed[u]
    BY <1>1
  <2>2. executed'[t] # {} /\ \A u \in Txns \ {t} : executed'[u] = executed[u]
    BY <2>1
  <2> QED
    BY <2>2
<1>4. phase[t] = "idle"
  BY PhaseOfStates DEF States
<1>5. PhaseOf(q.state) \in {"completed", "failed", "rolledBack", "pending"}
  BY <1>1, PhaseOfStates DEF States, Unfinished
<1>6. Lifecycle!RunSimulated(t)
  BY <1>2, <1>3, <1>4, <1>5 DEF Lifecycle!RunSimulated, Lifecycle!Settled
<1> QED
  BY <1>6 DEF LifecycleStep, Lifecycle!Next

\* The device carries a transaction out that the journal knows.
LEMMA DeviceRefines ==
  ASSUME IInv, NEW d \in Devices, HandleCorrectionRequest(d)
  PROVE  LifecycleStep
<1> DEFINE phase == [u \in Txns |-> PhaseOf(disk.txn[u].state)]
<1> DEFINE carriedOut == [u \in Txns |-> executed[u] # {}]
<1>1. PICK m : m = Head(toDevice[d])
  OBVIOUS
<1>2. /\ toDevice[d] # <<>>
      /\ executed' = [executed EXCEPT ![m.txn] = @ \cup {m.attempt}]
      /\ disk' = disk
  BY <1>1 DEF HandleCorrectionRequest
<1>3. m \in Requests /\ RequestKnown(d, m)
  BY <1>1, <1>2, HeadOfRequests
<1>4. PICK t \in Txns : t = m.txn
  BY <1>3 DEF Requests
<1>5. /\ disk.txn[t].state \in States /\ disk.txn[t].state # "NONE"
      /\ executed \in [Txns -> SUBSET Nat]
  BY <1>3, <1>4 DEF RequestKnown, RequestJournaled, IInv, TypeOK, Journals, Records,
                    WireTypeOK
<1>6. phase' = phase /\ phase[t] # "idle"
  <2>1. phase' = phase
    BY <1>2
  <2>2. PhaseOf(disk.txn[t].state) # "idle"
    BY <1>5, PhaseOfStates DEF States, Unfinished
  <2> QED
    BY <2>1, <2>2
<1>7. carriedOut' = [carriedOut EXCEPT ![t] = TRUE]
  <2>1. \A u \in Txns : executed'[u] = IF u = t THEN executed[u] \cup {m.attempt}
                                               ELSE executed[u]
    BY <1>2, <1>4, <1>5
  <2> QED
    BY <2>1
<1>8. Lifecycle!CarryOut(t)
  BY <1>6, <1>7 DEF Lifecycle!CarryOut
<1> QED
  BY <1>8 DEF LifecycleStep, Lifecycle!Next

-----------------------------------------------------------------------------
(* Handler by handler *)

\* A handler that saves one record, or a crash that leaves one written.
LEMMA SaveRefines ==
  ASSUME IInv, TypeOK', NEW t \in Txns, NEW q \in Records, Running,
         \/ \E acc, since : Persist([txn EXCEPT ![t] = q], acc, since)
         \/ CrashLeaving(WithTxn(disk, t, q)),
         executed' = executed,
         Lawful(txn[t], q, executed[t] # {})
  PROVE  LifecycleStep
<1>1. disk'.txn = [disk.txn EXCEPT ![t] = q]
  <2>1. CASE \E acc, since : Persist([txn EXCEPT ![t] = q], acc, since)
    <3>1. PICK acc, since : Persist([txn EXCEPT ![t] = q], acc, since)
      BY <2>1
    <3>2. txn = disk.txn
      BY DEF IInv, MemoryIsJournal
    <3> QED
      BY <3>1, <3>2 DEF Persist, Snapshot
  <2>2. CASE CrashLeaving(WithTxn(disk, t, q))
    BY <2>2 DEF CrashLeaving, ProcessEnds, WithTxn, IInv, TypeOK, Journals
  <2> QED
    BY <2>1, <2>2
<1>2. txn[t] = disk.txn[t]
  BY RecordFacts
<1> QED
  BY <1>1, <1>2, WriteRefines

LEMMA CrashRefines ==
  ASSUME IInv, NEW image \in {disk} \cup CutOff, CrashLeaving(image), executed' = executed
  PROVE  LifecycleStep
<1>1. disk'.txn = disk.txn
  BY DEF CrashLeaving, ProcessEnds, CutOff, IInv, TypeOK, Journals
<1> QED
  BY <1>1, StutterRefines

LEMMA VisitRefines ==
  ASSUME IInv, TypeOK', NEW t \in Txns,
         RetryOrFail(t) \/ Recover(t) \/ CrashInResend(t) \/ CrashInVerify(t)
  PROVE  LifecycleStep
<1> DEFINE r == txn[t]
<1>1. Running /\ executed' = executed
  BY DEF RetryOrFail, NotTimedOut, Resend, GiveUp, MayResend, Recover, RecoverUnsent,
         VerifyCompletes, VerifyRollsBack, AwaitsVerification, CrashInResend,
         CrashInVerify, Visiting, Running, wireVars
<1>2. r \in Records /\ AccountsFor(r, executed[t])
  BY <1>1, RecordFacts
<1>3. /\ Moved(r, "COMPLETED") \in Records
      /\ Moved(r, "VERIFYING") \in Records
      /\ Failed(r, "wireTimeout") \in Records
      /\ Failed(r, "neverSent") \in Records
      /\ Failed(r, "notVerified") \in Records
      /\ RolledBack(r) \in Records
      /\ Counted(r) \in Records
      /\ Refreshed(Counted(r)) \in Records
  BY <1>2, RecordUpdates DEF States, Reasons
<1>4. \A q \in {Counted(r), Refreshed(Counted(r))} : Lawful(r, q, executed[t] # {})
  BY <1>2, <1>3, RecordFields DEF Lawful
<1>5. r.state \in {"SENT", "CREATED"} =>
        \A why : Lawful(r, Failed(r, why), executed[t] # {})
  BY <1>2, RecordFields DEF Lawful, Unfinished
<1>6. r.state \in {"APPLIED", "VERIFYING"} =>
        \A q \in {Moved(r, "COMPLETED"), Moved(r, "VERIFYING"),
                 Failed(r, "notVerified"), RolledBack(r)} :
          Lawful(r, q, executed[t] # {})
  <2> SUFFICES ASSUME r.state \in {"APPLIED", "VERIFYING"}
               PROVE  \A q \in {Moved(r, "COMPLETED"), Moved(r, "VERIFYING"),
                               Failed(r, "notVerified"), RolledBack(r)} :
                        Lawful(r, q, executed[t] # {})
    OBVIOUS
  <2>1. executed[t] # {} /\ r.state \in Unfinished
    BY <1>2 DEF AccountsFor, Answered, Unfinished
  <2>2. PhaseOf("VERIFYING") = PhaseOf(r.state)
    BY PhaseOfStates DEF States, Unfinished
  <2>3. /\ Moved(r, "COMPLETED").state = "COMPLETED"
        /\ Moved(r, "VERIFYING").state = "VERIFYING"
        /\ Failed(r, "notVerified").state = "FAILED"
        /\ RolledBack(r).state = "ROLLED_BACK"
    BY <1>2, RecordFields
  <2> QED
    BY <2>1, <2>2, <2>3 DEF Lawful
<1>7. CASE NotTimedOut(t)
  BY <1>1, <1>7, StutterRefines DEF NotTimedOut
<1>8. CASE Resend(t)
  BY <1>1, <1>3, <1>4, <1>8, SaveRefines DEF Resend, SaveTxnOnly
<1>9. CASE GiveUp(t)
  BY <1>1, <1>3, <1>5, <1>9, SaveRefines DEF GiveUp, SaveTxnOnly
<1>10. CASE RecoverUnsent(t)
  BY <1>1, <1>3, <1>5, <1>10, SaveRefines DEF RecoverUnsent, SaveTxnOnly
<1>11. CASE VerifyCompletes(t)
  BY <1>1, <1>3, <1>6, <1>11, SaveRefines DEF VerifyCompletes, AwaitsVerification, SaveTxnOnly
<1>12. CASE VerifyRollsBack(t)
  BY <1>1, <1>3, <1>6, <1>12, SaveRefines DEF VerifyRollsBack, AwaitsVerification
<1>13. CASE CrashInResend(t)
  <2>1. \/ \E image \in CutOff : CrashLeaving(image)
        \/ \E q \in {Counted(r), Refreshed(Counted(r))} : CrashLeaving(WithTxn(disk, t, q))
    BY <1>13 DEF CrashInResend
  <2> QED
    BY <1>1, <1>3, <1>4, <2>1, CrashRefines, SaveRefines
<1>14. CASE CrashInVerify(t)
  <2>1. r.state \in {"APPLIED", "VERIFYING"}
    BY <1>14 DEF CrashInVerify, AwaitsVerification
  <2>2. \/ \E image \in CutOff : CrashLeaving(image)
        \/ \E q \in {Moved(r, "VERIFYING"), Failed(r, "notVerified"), RolledBack(r)} :
             CrashLeaving(WithTxn(disk, t, q))
    BY <1>14 DEF CrashInVerify
  <2> QED
    BY <1>1, <1>3, <1>6, <2>1, <2>2, CrashRefines, SaveRefines
<1> QED
  BY <1>7, <1>8, <1>9, <1>10, <1>11, <1>12, <1>13, <1>14 DEF RetryOrFail, Recover

LEMMA ExecuteRefines ==
  ASSUME IInv, TypeOK', NEW t \in Txns, NEW d \in Devices, NEW offset \in Offsets,
         Execute(t, d, offset)
  PROVE  LifecycleStep
<1> DEFINE step == StepFor(offset)
<1> DEFINE r == NewRecord(d, step)
<1>1. Running /\ txn[t].state = "NONE" /\ disk.txn[t].state = "NONE"
  <2>1. Running /\ txn[t].state = "NONE"
    BY DEF Execute, ExecuteOnWire, ExecuteWithoutTransport, ExecuteSimulated,
           CrashInExecute, CrashInSimulated, MayCreate, Running
  <2> QED
    BY <2>1, FreshTxn
<1>2. step \in Nat
  BY StepForType
<1> HIDE DEF step
<1>3. r \in Records /\ r.state = "CREATED"
  BY <1>2, NewRecordType
<1> HIDE DEF r
<1>4. /\ \A s \in States : Moved(r, s) \in Records
      /\ \A why \in Reasons : Failed(r, why) \in Records
      /\ RolledBack(r) \in Records
  BY <1>3, RecordUpdates
<1>5. \A q \in {r, Moved(r, "SENT"), Failed(r, "noTransport")} :
        q \in Records /\ Lawful(txn[t], q, executed[t] # {})
  BY <1>1, <1>3, <1>4, RecordFields DEF Lawful, Unfinished, States, Reasons
<1>6. \A q \in {Moved(r, "APPLIED"), Moved(r, "VERIFYING"), Moved(r, "COMPLETED"),
               Failed(r, "notVerified"), RolledBack(r)} :
        q \in Records /\ q.state \notin {"NONE"}
  BY <1>3, <1>4, RecordFields DEF States, Reasons
<1>7. CASE ExecuteOnWire(t, d, offset)
  <2>1. SaveTxnOnly(t, Moved(r, "SENT")) /\ executed' = executed
    BY <1>7 DEF ExecuteOnWire, r, step
  <2> QED
    BY <1>1, <1>5, <2>1, SaveRefines DEF SaveTxnOnly
<1>8. CASE ExecuteWithoutTransport(t, d, offset)
  <2>1. SaveTxnOnly(t, Failed(r, "noTransport")) /\ executed' = executed
    BY <1>8 DEF ExecuteWithoutTransport, r, step, wireVars
  <2> QED
    BY <1>1, <1>5, <2>1, SaveRefines DEF SaveTxnOnly
<1>9. CASE ExecuteSimulated(t, d, offset)
  <2>1. \/ Persist([txn EXCEPT ![t] = Moved(r, "COMPLETED")],
                   [accumulated EXCEPT ![d] = SimulatedAccumulated],
                   [sinceCorrection EXCEPT ![d] = 0])
        \/ Persist([txn EXCEPT ![t] = RolledBack(r)],
                   [accumulated EXCEPT ![d] = TakenBack(SimulatedAccumulated, step)],
                   [sinceCorrection EXCEPT ![d] = 0])
    BY <1>9 DEF ExecuteSimulated, r, step
  <2>2. PICK q \in {Moved(r, "COMPLETED"), RolledBack(r)} :
           disk'.txn = [disk.txn EXCEPT ![t] = q]
    BY <1>1, <2>1 DEF Persist, Snapshot, IInv, MemoryIsJournal
  <2>3. executed' = [executed EXCEPT ![t] = {0}]
    BY <1>9 DEF ExecuteSimulated
  <2> QED
    BY <1>1, <1>6, <2>2, <2>3, SimulatedRefines
<1>10. CASE CrashInExecute(t, d, offset)
  <2>1. \/ \E image \in CutOff : CrashLeaving(image)
        \/ \E q \in {r, Moved(r, "SENT")} : CrashLeaving(WithTxn(disk, t, q))
    BY <1>10 DEF CrashInExecute, r, step
  <2>2. executed' = executed
    BY <1>10 DEF CrashInExecute, wireVars
  <2> QED
    BY <1>1, <1>5, <2>1, <2>2, CrashRefines, SaveRefines
<1>11. CASE CrashInSimulated(t, d, offset)
  <2> DEFINE booked == Booked(disk, d, SimulatedAccumulated)
  <2>1. PICK image \in {WithTxn(disk, t, Moved(r, "APPLIED")),
                        WithTxn(booked, t, Moved(r, "APPLIED")),
                        WithTxn(booked, t, Moved(r, "VERIFYING")),
                        WithTxn(booked, t, Failed(r, "notVerified"))} :
          CrashLeaving(image)
    BY <1>11 DEF CrashInSimulated, r, step
  <2>2. PICK q \in {Moved(r, "APPLIED"), Moved(r, "VERIFYING"), Failed(r, "notVerified")} :
           image = WithTxn(disk, t, q) \/ image = WithTxn(booked, t, q)
    BY <2>1
  <2>3. disk \in Journals
    BY DEF IInv, TypeOK
  <2>4. booked.txn = disk.txn
    BY <2>3 DEF Booked, Journals
  <2>5. booked \in Journals
    BY <2>3, BookedType DEF SimulatedAccumulated
  <2> HIDE DEF booked
  <2>6. disk'.txn = [disk.txn EXCEPT ![t] = q]
    <3>1. image.txn = [disk.txn EXCEPT ![t] = q]
      BY <2>2, <2>3, <2>4, <2>5 DEF WithTxn, Journals
    <3> QED
      BY <2>1, <3>1 DEF CrashLeaving, ProcessEnds
  <2>7. executed' = [executed EXCEPT ![t] = {0}]
    BY <1>11 DEF CrashInSimulated
  <2>8. q \in Records /\ q.state \notin {"NONE"}
    BY <1>6
  <2> QED
    BY <1>1, <2>6, <2>7, <2>8, SimulatedRefines
<1> QED
  BY <1>7, <1>8, <1>9, <1>10, <1>11 DEF Execute

LEMMA ReceiveRefines ==
  ASSUME IInv, TypeOK', NEW d \in Devices, Receive(d) \/ CrashInReceive(d)
  PROVE  LifecycleStep
<1>1. PICK t : t = Head(toHost[d]).txn
  OBVIOUS
<1> DEFINE r == txn[t]
<1>2. Running /\ toHost[d] # <<>> /\ executed' = executed
  BY DEF Receive, ReceiveApplied, ReceiveDuplicate, ReceiveRaises, CrashInReceive,
         Receives, Running
<1>3. t \in Txns
  BY <1>1, <1>2, HeadOfResponses DEF Responses
<1>4. r \in Records /\ Moved(r, "APPLIED") \in Records
  BY <1>2, <1>3, RecordFacts, RecordUpdates DEF States
<1>5. CanMove(r, "APPLIED") => Lawful(r, Moved(r, "APPLIED"), executed[t] # {})
  <2> SUFFICES ASSUME CanMove(r, "APPLIED")
               PROVE  PhaseOf(Moved(r, "APPLIED").state) = PhaseOf(r.state)
    BY DEF Lawful
  <2>1. r.state = "SENT"
    BY DEF CanMove, ValidTransitions
  <2> QED
    BY <1>4, <2>1, RecordFields, PhaseOfStates DEF States, Unfinished
<1>6. CASE ReceiveApplied(d)
  BY <1>1, <1>2, <1>3, <1>4, <1>5, <1>6, SaveRefines DEF ReceiveApplied
<1>7. CASE ReceiveDuplicate(d) \/ ReceiveRaises(d)
  <2>1. disk' = disk
    BY <1>7 DEF ReceiveDuplicate, ReceiveRaises, ProcessEnds
  <2> QED
    BY <1>2, <2>1, StutterRefines
<1>8. CASE CrashInReceive(d)
  <2>1. /\ CanMove(r, "APPLIED")
        /\ \/ CrashLeaving(WithTxn(disk, t, Moved(r, "APPLIED")))
           \/ \E image \in CutOff : CrashLeaving(image)
    BY <1>1, <1>8 DEF CrashInReceive
  <2> QED
    BY <1>2, <1>3, <1>4, <1>5, <2>1, CrashRefines, SaveRefines
<1> QED
  BY <1>6, <1>7, <1>8 DEF Receive

LEMMA TickRefines ==
  ASSUME IInv, Tick
  PROVE  LifecycleStep
<1>1. disk.txn \in [Txns -> Records] /\ disk \in Journals
  BY DEF IInv, TypeOK, Journals
<1>2. disk'.txn = AgedTxns(disk.txn) /\ executed' = executed
  BY <1>1 DEF Tick, Journals, wireVars
<1>3. \A t \in Txns : disk'.txn[t].state = disk.txn[t].state
  BY <1>1, <1>2 DEF AgedTxns, Records
<1> QED
  BY <1>2, <1>3, StutterRefines

-----------------------------------------------------------------------------

LEMMA InitRefines == Init => Lifecycle!Init
<1> SUFFICES ASSUME Init PROVE Lifecycle!Init
  OBVIOUS
<1>1. \A t \in Txns : disk.txn[t].state = "NONE" /\ executed[t] = {}
  BY DEF Init, EmptyJournal, NoTxns, NoRecord
<1>2. PhaseOf("NONE") = "idle"
  BY PhaseOfStates DEF States
<1> QED
  BY <1>1, <1>2 DEF Lifecycle!Init

LEMMA NextRefines == IInv /\ IInv' /\ [Next]_vars => [Lifecycle!Next]_(Lifecycle!vars)
<1> SUFFICES ASSUME IInv, TypeOK', [Next]_vars PROVE LifecycleStep
  BY DEF IInv, LifecycleStep
<1>1. CASE UNCHANGED vars
  BY <1>1, StutterRefines DEF vars, wireVars
<1>2. ASSUME NEW t \in Txns, NEW d \in Devices, NEW offset \in Offsets,
             Execute(t, d, offset)
      PROVE  LifecycleStep
  BY <1>2, ExecuteRefines
<1>3. ASSUME NEW d \in Devices, Receive(d) \/ CrashInReceive(d)
      PROVE  LifecycleStep
  BY <1>3, ReceiveRefines
<1>4. ASSUME NEW d \in Devices, HandleCorrectionRequest(d)
      PROVE  LifecycleStep
  BY <1>4, DeviceRefines
<1>5. ASSUME NEW d \in Devices,
             Measure(d) \/ DeviceReboot(d) \/ LoseRequest(d) \/ LoseResponse(d)
      PROVE  LifecycleStep
  BY <1>5, StutterRefines DEF Measure, DeviceReboot, LoseRequest, LoseResponse, wireVars
<1>6. ASSUME NEW t \in Txns,
             RetryOrFail(t) \/ Recover(t) \/ CrashInResend(t) \/ CrashInVerify(t)
      PROVE  LifecycleStep
  BY <1>6, VisitRefines
<1>7. CASE StartPoll \/ Restart
  BY <1>7, StutterRefines DEF StartPoll, Restart, wireVars
<1>8. CASE Crash
  BY <1>8, CrashRefines DEF Crash, wireVars
<1>9. CASE Tick
  BY <1>9, TickRefines
<1> QED
  BY <1>1, <1>2, <1>3, <1>4, <1>5, <1>6, <1>7, <1>8, <1>9 DEF Next

\* What the journal says of a correction is what its caller was promised: it
\* is settled once and for good, and never as done when no device did it.
THEOREM ProtocolRefines == Spec => KeepsLifecycle
  BY InitRefines, NextRefines, JournalInvariant, PTL
     DEF Spec, KeepsLifecycle, Lifecycle!Spec
=============================================================================
