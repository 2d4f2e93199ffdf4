------------------------- MODULE JobSchedulerProofs -------------------------
(***************************************************************************)
(* Theorems about JobScheduler, for every number of jobs, of keys, of      *)
(* workers and of queued places.                                           *)
(***************************************************************************)
EXTENDS JobScheduler, FiniteSetTheorems, TLAPS

-----------------------------------------------------------------------------
(* Types *)

LEMMA ReleasedType == \A n \in 0 .. Capacity : Released(n) \in 0 .. Capacity
  BY SizesAssumption DEF Released, Capacity

LEMMA ThreadsType == threads \in 0 .. MaxWorkers => ThreadsForOneMore \in 0 .. MaxWorkers
  BY SizesAssumption DEF ThreadsForOneMore, NeedsThread

LEMMA IndexType ==
  ASSUME TypeOK, NEW j \in Jobs
  PROVE  IndexWithout(j) \in [Keys -> Jobs \cup {"none"}]
  BY DEF TypeOK, IndexWithout

LEMMA TypeInit == Init => TypeOK
<1>1. Capacity \in 0 .. Capacity /\ 0 \in 0 .. MaxWorkers /\ 0 \in Nat
  BY SizesAssumption DEF Capacity
<1>2. Init => registered \subseteq Jobs /\ shut \in BOOLEAN
  BY DEF Init
<1>3. <<>> \in Seq(Jobs)
  OBVIOUS
<1>4. Init => /\ caller \in [Jobs -> CallerSteps]
             /\ worker \in [Jobs -> WorkerSteps]
             /\ status \in [Jobs -> Statuses]
             /\ key \in [Jobs -> Keys \cup {"none"}]
             /\ activeKey \in [Keys -> Jobs \cup {"none"}]
  BY DEF Init, CallerSteps, WorkerSteps, Statuses
<1> QED
  BY <1>1, <1>2, <1>3, <1>4 DEF Init, TypeOK

LEMMA TypeStep == TypeOK /\ [Next]_vars => TypeOK'
<1> SUFFICES ASSUME TypeOK, [Next]_vars PROVE TypeOK'
  OBVIOUS
<1> USE DEF TypeOK
<1>1. ASSUME NEW j \in Jobs, NEW k \in Keys \cup {"none"}, Submit(j, k) PROVE TypeOK'
  <2>1. (permits - 1) \in 0 .. Capacity
    BY <1>1, SizesAssumption DEF Submit, Capacity
  <2>2. activeKey' \in [Keys -> Jobs \cup {"none"}]
    BY <1>1 DEF Submit
  <2> QED
    BY <1>1, <2>1, <2>2 DEF Submit, Statuses, CallerSteps
<1>2. ASSUME NEW j \in Jobs, HandOff(j) PROVE TypeOK'
  BY <1>2, ThreadsType DEF HandOff, CallerSteps, WorkerSteps
<1>3. ASSUME NEW j \in Jobs, HandOffRefused(j) PROVE TypeOK'
  BY <1>3 DEF HandOffRefused, CallerSteps
<1>4. ASSUME NEW j \in Jobs, HandOffWithoutThread(j) PROVE TypeOK'
  BY <1>4 DEF HandOffWithoutThread, CallerSteps, WorkerSteps
<1>5. ASSUME NEW j \in Jobs, Withdraw(j) PROVE TypeOK'
  BY <1>5, IndexType DEF Withdraw, CallerSteps
<1>6. ASSUME NEW j \in Jobs, GiveBack(j) PROVE TypeOK'
  BY <1>6, ReleasedType DEF GiveBack, CallerSteps
<1>7. ASSUME NEW j \in Jobs, Start(j) PROVE TypeOK'
  BY <1>7 DEF Start, MayStart, Statuses, WorkerSteps
<1>8. ASSUME NEW j \in Jobs, StartWithdrawn(j) PROVE TypeOK'
  BY <1>8 DEF StartWithdrawn, MayStart, WorkerSteps
<1>9. ASSUME NEW j \in Jobs, Finish(j) PROVE TypeOK'
  BY <1>9 DEF Finish, Statuses, WorkerSteps
<1>10. ASSUME NEW j \in Jobs, DropKey(j) PROVE TypeOK'
  BY <1>10, IndexType DEF DropKey, WorkerSteps
<1>11. ASSUME NEW j \in Jobs, ReleasePermit(j) PROVE TypeOK'
  BY <1>11, ReleasedType DEF ReleasePermit, WorkerSteps
<1>12. CASE Shutdown
  BY <1>12 DEF Shutdown, WorkerSteps
<1>13. CASE UNCHANGED vars
  BY <1>13 DEF vars
<1> QED
  BY <1>1, <1>2, <1>3, <1>4, <1>5, <1>6, <1>7, <1>8, <1>9, <1>10, <1>11, <1>12, <1>13
  DEF Next, SubmitGoesOn, Run

\* Every variable has its type in every state, on every path through submit,
\* _run and shutdown; in particular the pool's permits stay between none and
\* all of them.
THEOREM TypeCorrect == Spec => []TypeOK
  BY TypeInit, TypeStep, PTL DEF Spec

-----------------------------------------------------------------------------
(* The inductive invariant *)

\* A key leads to a job that can be polled.
IndexIsRegistered ==
  \A k \in Keys : activeKey[k] # "none" => activeKey[k] \in registered

\* The caller is ahead of the worker; a permit is given back, by either of
\* them, after the key.
StagesInOrder ==
  \A j \in Jobs :
    /\ caller[j] \in {"none", "handOff"} => worker[j] = "none"
    /\ caller[j] = "giveBack" => j \notin registered
    /\ worker[j] = "dropped" => \A k \in Keys : activeKey[k] # j

\* What is so while every thread could be started: a job has a worker only
\* after submit is through with it,
OneActorAtATime == \A j \in Jobs : worker[j] # "none" => caller[j] = "done"

\* and a job on its way to its operation is polled as active and owns its key.
Live(j) == caller[j] = "handOff" \/ worker[j] \in {"waiting", "operating"}

LiveIsActive == \A j \in Jobs : Live(j) => j \in registered /\ status[j] \in Active

LiveOwnsItsKey ==
  \A j \in Jobs : Live(j) /\ key[j] # "none" => activeKey[key[j]] = j

LiveInv == OneActorAtATime /\ LiveIsActive /\ LiveOwnsItsKey

IInv ==
  /\ TypeOK
  /\ KeyedJobIsInProgress
  /\ IndexIsRegistered
  /\ StagesInOrder
  /\ startFailures = 0 => LiveInv
  /\ PermitsConserved

LEMMA IInvInit == Init => IInv
<1> SUFFICES ASSUME Init PROVE IInv
  OBVIOUS
<1>1. TypeOK
  BY TypeInit
<1>2. KeyedJobIsInProgress /\ IndexIsRegistered
  BY DEF Init, KeyedJobIsInProgress, IndexIsRegistered
<1>3. StagesInOrder
  BY DEF Init, StagesInOrder
<1>4. OneActorAtATime /\ LiveIsActive /\ LiveOwnsItsKey
  BY DEF Init, OneActorAtATime, LiveIsActive, LiveOwnsItsKey, Live
<1>5. Holding = {}
  BY DEF Init, Holding
<1>6. PermitsConserved
  BY <1>5, FS_EmptySet, SizesAssumption DEF Init, PermitsConserved, Capacity
<1> QED
  BY <1>1, <1>2, <1>3, <1>4, <1>6 DEF IInv, LiveInv

-----------------------------------------------------------------------------
(* The index: what a step does to the keys *)

\* The part of the invariant that holds whether or not threads start.
IndexInv == KeyedJobIsInProgress /\ IndexIsRegistered /\ StagesInOrder

LEMMA WithoutJob ==
  ASSUME TypeOK, NEW j \in Jobs
  PROVE  \A k \in Keys : /\ IndexWithout(j)[k] # j
                         /\ IndexWithout(j)[k] # "none" =>
                              IndexWithout(j)[k] = activeKey[k]
  BY NamesAssumption DEF IndexWithout

LEMMA IndexStep == TypeOK /\ IndexInv /\ [Next]_vars => IndexInv'
<1> SUFFICES ASSUME TypeOK, IndexInv, [Next]_vars PROVE IndexInv'
  OBVIOUS
<1> USE DEF IndexInv, KeyedJobIsInProgress, IndexIsRegistered, StagesInOrder, Holding
<1>1. ASSUME NEW j \in Jobs, NEW k \in Keys \cup {"none"}, Submit(j, k) PROVE IndexInv'
  <2>1. /\ caller[j] = "none" /\ worker[j] = "none"
        /\ caller' = [caller EXCEPT ![j] = "handOff"] /\ worker' = worker
        /\ registered' = registered \cup {j}
    BY <1>1 DEF Submit
  <2>2. \A l \in Keys : activeKey'[l] = activeKey[l] \/ activeKey'[l] = j
    BY <1>1 DEF Submit, TypeOK
  <2>3. KeyedJobIsInProgress'
    BY <2>1, <2>2 DEF TypeOK
  <2>4. IndexIsRegistered'
    BY <2>1, <2>2 DEF TypeOK
  <2>5. StagesInOrder'
    BY <2>1, <2>2 DEF TypeOK
  <2> QED
    BY <2>3, <2>4, <2>5
<1>2. ASSUME NEW j \in Jobs, HandOff(j) PROVE IndexInv'
  BY <1>2 DEF HandOff, TypeOK
<1>3. ASSUME NEW j \in Jobs, HandOffRefused(j) PROVE IndexInv'
  BY <1>3 DEF HandOffRefused, TypeOK
<1>4. ASSUME NEW j \in Jobs, HandOffWithoutThread(j) PROVE IndexInv'
  BY <1>4 DEF HandOffWithoutThread, TypeOK
<1>5. ASSUME NEW j \in Jobs, Withdraw(j) PROVE IndexInv'
  <2>1. /\ caller[j] = "withdraw" /\ registered' = registered \ {j}
        /\ caller' = [caller EXCEPT ![j] = "giveBack"] /\ worker' = worker
    BY <1>5 DEF Withdraw
  <2>2. \A k \in Keys : activeKey'[k] # j /\ (activeKey'[k] # "none" => activeKey'[k] = activeKey[k])
    BY <1>5, WithoutJob DEF Withdraw
  <2>3. KeyedJobIsInProgress'
    BY <2>1, <2>2 DEF TypeOK
  <2>4. IndexIsRegistered'
    BY <2>1, <2>2 DEF TypeOK
  <2>5. StagesInOrder'
    BY <2>1, <2>2, NamesAssumption DEF TypeOK
  <2> QED
    BY <2>3, <2>4, <2>5
<1>6. ASSUME NEW j \in Jobs, GiveBack(j) PROVE IndexInv'
  BY <1>6, NamesAssumption DEF GiveBack, TypeOK
<1>7. ASSUME NEW j \in Jobs, Start(j) PROVE IndexInv'
  BY <1>7 DEF Start, MayStart, TypeOK
<1>8. ASSUME NEW j \in Jobs, StartWithdrawn(j) PROVE IndexInv'
  BY <1>8, NamesAssumption DEF StartWithdrawn, MayStart, TypeOK
<1>9. ASSUME NEW j \in Jobs, Finish(j) PROVE IndexInv'
  BY <1>9 DEF Finish, TypeOK
<1>10. ASSUME NEW j \in Jobs, DropKey(j) PROVE IndexInv'
  <2>1. /\ worker[j] = "ended" /\ worker' = [worker EXCEPT ![j] = "dropped"]
        /\ caller' = caller /\ registered' = registered
    BY <1>10 DEF DropKey
  <2>2. \A k \in Keys : activeKey'[k] # j /\ (activeKey'[k] # "none" => activeKey'[k] = activeKey[k])
    BY <1>10, WithoutJob DEF DropKey
  <2>3. KeyedJobIsInProgress'
    BY <2>1, <2>2 DEF TypeOK
  <2>4. IndexIsRegistered'
    BY <2>1, <2>2 DEF TypeOK
  <2>5. StagesInOrder'
    BY <2>1, <2>2, NamesAssumption DEF TypeOK
  <2> QED
    BY <2>3, <2>4, <2>5
<1>11. ASSUME NEW j \in Jobs, ReleasePermit(j) PROVE IndexInv'
  BY <1>11 DEF ReleasePermit, TypeOK
<1>12. CASE Shutdown
  BY <1>12 DEF Shutdown, TypeOK
<1>13. CASE UNCHANGED vars
  BY <1>13 DEF vars
<1> QED
  BY <1>1, <1>2, <1>3, <1>4, <1>5, <1>6, <1>7, <1>8, <1>9, <1>10, <1>11, <1>12, <1>13
  DEF Next, SubmitGoesOn, Run

-----------------------------------------------------------------------------
(* Live jobs: what a step does to a job on its way to its operation *)

LEMMA NoFailureYet ==
  TypeOK /\ [Next]_vars /\ startFailures' = 0 => startFailures = 0
  BY DEF TypeOK, Next, SubmitGoesOn, Run, Submit, HandOff, HandOffRefused,
         HandOffWithoutThread, Withdraw, GiveBack, Start, StartWithdrawn, Finish,
         DropKey, ReleasePermit, Shutdown, vars

LEMMA LiveStep ==
  TypeOK /\ LiveInv /\ [Next]_vars /\ startFailures' = 0 => LiveInv'
<1> SUFFICES ASSUME TypeOK, LiveInv, [Next]_vars, startFailures' = 0 PROVE LiveInv'
  OBVIOUS
<1> USE DEF LiveInv, OneActorAtATime, LiveIsActive, LiveOwnsItsKey, Live, TypeOK, Active
<1>1. ASSUME NEW j \in Jobs, NEW k \in Keys \cup {"none"}, Submit(j, k) PROVE LiveInv'
  <2>1. /\ caller[j] = "none" /\ worker[j] = "none"
        /\ caller' = [caller EXCEPT ![j] = "handOff"] /\ worker' = worker
        /\ registered' = registered \cup {j}
        /\ status' = [status EXCEPT ![j] = "queued"]
        /\ key' = [key EXCEPT ![j] = k]
    BY <1>1 DEF Submit
  <2>2. \A i \in Jobs \ {j} : Live(i) => key[i] # k \/ k = "none"
    BY <1>1 DEF Submit, IsShared
  <2>3. \A l \in Keys : activeKey'[l] = IF l = k THEN j ELSE activeKey[l]
    BY <1>1, NamesAssumption DEF Submit
  <2>4. OneActorAtATime'
    BY <2>1
  <2>5. LiveIsActive'
    BY <2>1
  <2>6. LiveOwnsItsKey'
    <3> SUFFICES ASSUME NEW i \in Jobs, Live(i)', key'[i] # "none"
                 PROVE  activeKey'[key'[i]] = i
      BY <2>1
    <3>1. CASE i = j
      BY <3>1, <2>1, <2>3
    <3>2. CASE i # j
      BY <3>2, <2>1, <2>2, <2>3
    <3> QED
      BY <3>1, <3>2
  <2> QED
    BY <2>4, <2>5, <2>6
<1>2. ASSUME NEW j \in Jobs, HandOff(j) PROVE LiveInv'
  BY <1>2 DEF HandOff
<1>3. ASSUME NEW j \in Jobs, HandOffRefused(j) PROVE LiveInv'
  BY <1>3 DEF HandOffRefused
<1>4. ASSUME NEW j \in Jobs, HandOffWithoutThread(j) PROVE LiveInv'
  BY <1>4 DEF HandOffWithoutThread
<1>5. ASSUME NEW j \in Jobs, Withdraw(j) PROVE LiveInv'
  <2>1. \A i \in Jobs : Live(i)' => i # j /\ Live(i)
    BY <1>5 DEF Withdraw
  <2>2. \A k \in Keys : activeKey[k] # j => activeKey'[k] = activeKey[k]
    BY <1>5 DEF Withdraw, IndexWithout
  <2> QED
    BY <1>5, <2>1, <2>2 DEF Withdraw
<1>6. ASSUME NEW j \in Jobs, GiveBack(j) PROVE LiveInv'
  BY <1>6 DEF GiveBack
<1>7. ASSUME NEW j \in Jobs, Start(j) PROVE LiveInv'
  BY <1>7 DEF Start, MayStart
<1>8. ASSUME NEW j \in Jobs, StartWithdrawn(j) PROVE LiveInv'
  BY <1>8 DEF StartWithdrawn, MayStart
<1>9. ASSUME NEW j \in Jobs, Finish(j) PROVE LiveInv'
  <2>1. \A i \in Jobs : Live(i)' => i # j /\ Live(i)
    BY <1>9 DEF Finish
  <2>2. \A i \in Jobs : i # j => status'[i] = status[i]
    BY <1>9 DEF Finish
  <2>3. OneActorAtATime'
    BY <1>9 DEF Finish
  <2> QED
    BY <1>9, <2>1, <2>2, <2>3 DEF Finish
<1>10. ASSUME NEW j \in Jobs, DropKey(j) PROVE LiveInv'
  <2>1. \A i \in Jobs : Live(i)' => i # j /\ Live(i)
    BY <1>10 DEF DropKey
  <2>2. \A k \in Keys : activeKey[k] # j => activeKey'[k] = activeKey[k]
    BY <1>10 DEF DropKey, IndexWithout
  <2>3. OneActorAtATime'
    BY <1>10 DEF DropKey
  <2> QED
    BY <1>10, <2>1, <2>2, <2>3 DEF DropKey
<1>11. ASSUME NEW j \in Jobs, ReleasePermit(j) PROVE LiveInv'
  BY <1>11 DEF ReleasePermit
<1>12. CASE Shutdown
  BY <1>12 DEF Shutdown
<1>13. CASE UNCHANGED vars
  BY <1>13 DEF vars
<1> QED
  BY <1>1, <1>2, <1>3, <1>4, <1>5, <1>6, <1>7, <1>8, <1>9, <1>10, <1>11, <1>12, <1>13
  DEF Next, SubmitGoesOn, Run

-----------------------------------------------------------------------------
(* Permits: what a step does to the jobs that hold one *)

LEMMA HoldingFinite ==
  /\ IsFiniteSet(Holding) /\ Cardinality(Holding) \in Nat
  /\ IsFiniteSet(Holding') /\ Cardinality(Holding') \in Nat
<1>1. Holding \in SUBSET Jobs /\ Holding' \in SUBSET Jobs
  BY DEF Holding
<1> QED
  BY <1>1, JobsAssumption, FS_Subset, FS_CardinalityType

\* A step that changes neither is no step for the permits.
LEMMA SameHolders ==
  ASSUME PermitsConserved, startFailures = 0,
         Holding' = Holding, permits' = permits
  PROVE  PermitsConserved'
  BY DEF PermitsConserved, Capacity

\* A job that stops holding a permit gives it back, and there is room for it.
LEMMA OneHolderLess ==
  ASSUME TypeOK, PermitsConserved, startFailures = 0, NEW j \in Holding,
         Holding' = Holding \ {j}, permits' = Released(permits)
  PROVE  PermitsConserved'
<1>1. Cardinality(Holding') = Cardinality(Holding) - 1
  BY HoldingFinite, FS_RemoveElement
<1>2. permits + Cardinality(Holding) = Capacity
  BY DEF PermitsConserved
<1>3. Cardinality(Holding) # 0
  BY HoldingFinite, FS_EmptySet
<1>4. Capacity \in Nat
  BY SizesAssumption DEF Capacity
<1>5. permits \in Nat
  BY <1>4 DEF TypeOK
<1>6. permits' = permits + 1
  BY <1>2, <1>3, <1>4, <1>5, HoldingFinite DEF Released
<1>7. permits' + Cardinality(Holding') = Capacity
  BY <1>1, <1>2, <1>5, <1>6, HoldingFinite
<1>8. Capacity' = Capacity
  BY DEF Capacity
<1> QED
  BY <1>7, <1>8 DEF PermitsConserved

LEMMA OneHolderMore ==
  ASSUME TypeOK, PermitsConserved, startFailures = 0, NEW j, j \notin Holding,
         Holding' = Holding \cup {j}, permits' = permits - 1
  PROVE  PermitsConserved'
<1>1. Cardinality(Holding') = Cardinality(Holding) + 1
  BY HoldingFinite, FS_AddElement
<1>2. permits + Cardinality(Holding) = Capacity
  BY DEF PermitsConserved
<1>3. Capacity \in Nat
  BY SizesAssumption DEF Capacity
<1>4. permits \in Nat
  BY <1>3 DEF TypeOK
<1>5. permits' + Cardinality(Holding') = Capacity
  BY <1>1, <1>2, <1>4, HoldingFinite
<1>6. Capacity' = Capacity
  BY DEF Capacity
<1> QED
  BY <1>5, <1>6 DEF PermitsConserved

LEMMA PermitsStep ==
  TypeOK /\ LiveInv /\ PermitsConserved /\ [Next]_vars /\ startFailures = 0
    => PermitsConserved'
<1> SUFFICES ASSUME TypeOK, LiveInv, PermitsConserved, [Next]_vars, startFailures = 0
             PROVE  PermitsConserved'
  OBVIOUS
<1> USE DEF TypeOK
<1>0. \A j \in Jobs : worker[j] # "none" => caller[j] = "done"
  BY DEF LiveInv, OneActorAtATime
<1>1. ASSUME NEW j \in Jobs, NEW k \in Keys \cup {"none"}, Submit(j, k)
      PROVE  PermitsConserved'
  <2>1. j \notin Holding /\ Holding' = Holding \cup {j}
    BY <1>0, <1>1 DEF Submit, Holding
  <2>2. permits' = permits - 1
    BY <1>1 DEF Submit
  <2> QED
    BY <2>1, <2>2, OneHolderMore
<1>2. ASSUME NEW j \in Jobs, HandOff(j) PROVE PermitsConserved'
  <2>1. Holding' = Holding /\ permits' = permits
    BY <1>2 DEF HandOff, Holding
  <2> QED
    BY <2>1, SameHolders
<1>3. ASSUME NEW j \in Jobs, HandOffRefused(j) PROVE PermitsConserved'
  <2>1. Holding' = Holding /\ permits' = permits
    BY <1>3 DEF HandOffRefused, Holding
  <2> QED
    BY <2>1, SameHolders
<1>4. ASSUME NEW j \in Jobs, HandOffWithoutThread(j) PROVE PermitsConserved'
  BY <1>4 DEF HandOffWithoutThread, PermitsConserved
<1>5. ASSUME NEW j \in Jobs, Withdraw(j) PROVE PermitsConserved'
  <2>1. Holding' = Holding /\ permits' = permits
    BY <1>5 DEF Withdraw, Holding
  <2> QED
    BY <2>1, SameHolders
<1>6. ASSUME NEW j \in Jobs, GiveBack(j) PROVE PermitsConserved'
  <2>1. j \in Holding /\ Holding' = Holding \ {j}
    BY <1>0, <1>6 DEF GiveBack, Holding
  <2>2. permits' = Released(permits)
    BY <1>6 DEF GiveBack
  <2> QED
    BY <2>1, <2>2, OneHolderLess
<1>7. ASSUME NEW j \in Jobs, Start(j) PROVE PermitsConserved'
  <2>1. Holding' = Holding /\ permits' = permits
    BY <1>7 DEF Start, MayStart, Holding
  <2> QED
    BY <2>1, SameHolders
<1>8. ASSUME NEW j \in Jobs, StartWithdrawn(j) PROVE PermitsConserved'
  BY <1>8 DEF StartWithdrawn, MayStart, LiveInv, LiveIsActive, Live
<1>9. ASSUME NEW j \in Jobs, Finish(j) PROVE PermitsConserved'
  <2>1. Holding' = Holding /\ permits' = permits
    BY <1>9 DEF Finish, Holding
  <2> QED
    BY <2>1, SameHolders
<1>10. ASSUME NEW j \in Jobs, DropKey(j) PROVE PermitsConserved'
  <2>1. Holding' = Holding /\ permits' = permits
    BY <1>10 DEF DropKey, Holding
  <2> QED
    BY <2>1, SameHolders
<1>11. ASSUME NEW j \in Jobs, ReleasePermit(j) PROVE PermitsConserved'
  <2>1. j \in Holding /\ Holding' = Holding \ {j}
    BY <1>0, <1>11 DEF ReleasePermit, Holding
  <2>2. permits' = Released(permits)
    BY <1>11 DEF ReleasePermit
  <2> QED
    BY <2>1, <2>2, OneHolderLess
<1>12. CASE Shutdown
  <2>1. Holding' = Holding /\ permits' = permits
    BY <1>12 DEF Shutdown, Holding
  <2> QED
    BY <2>1, SameHolders
<1>13. CASE UNCHANGED vars
  <2>1. Holding' = Holding /\ permits' = permits
    BY <1>13 DEF vars, Holding
  <2> QED
    BY <2>1, SameHolders
<1> QED
  BY <1>1, <1>2, <1>3, <1>4, <1>5, <1>6, <1>7, <1>8, <1>9, <1>10, <1>11, <1>12, <1>13
  DEF Next, SubmitGoesOn, Run

-----------------------------------------------------------------------------
(* The theorems *)

LEMMA IInvStep == IInv /\ [Next]_vars => IInv'
<1> SUFFICES ASSUME IInv, [Next]_vars PROVE IInv'
  OBVIOUS
<1>1. TypeOK'
  BY TypeStep DEF IInv
<1>2. IndexInv'
  BY IndexStep DEF IInv, IndexInv
<1>3. startFailures' = 0 => LiveInv'
  BY LiveStep, NoFailureYet DEF IInv
<1>4. PermitsConserved'
  <2>1. CASE startFailures' = 0
    BY <2>1, NoFailureYet, PermitsStep DEF IInv
  <2>2. CASE startFailures' # 0
    BY <2>2 DEF PermitsConserved
  <2> QED
    BY <2>1, <2>2
<1> QED
  BY <1>1, <1>2, <1>3, <1>4 DEF IInv, IndexInv

LEMMA SchedulerInvariant == Spec => []IInv
  BY IInvInit, IInvStep, PTL DEF Spec

\* No permit is lost or made up on any path through submit, _run and shutdown,
\* as long as the system starts the threads the pool asks for.
THEOREM PermitsAreConserved == Spec => []PermitsConserved
<1>1. IInv => PermitsConserved
  BY DEF IInv
<1> QED
  BY <1>1, SchedulerInvariant, PTL

\* A key in the index is held by a job that can still give it back, whatever
\* happened to submit, to the operation or to the pool.
THEOREM KeysAreInProgress == Spec => []KeyedJobIsInProgress
<1>1. IInv => KeyedJobIsInProgress
  BY DEF IInv
<1> QED
  BY <1>1, SchedulerInvariant, PTL

\* Two operations of one dedupe key never run at the same time, as long as the
\* system starts the threads the pool asks for.
THEOREM OneOperationRunsPerKey == Spec => []OneOperationPerKey
<1>1. IInv => OneOperationPerKey
  BY DEF IInv, LiveInv, LiveOwnsItsKey, Live, OneOperationPerKey
<1> QED
  BY <1>1, SchedulerInvariant, PTL
=============================================================================
