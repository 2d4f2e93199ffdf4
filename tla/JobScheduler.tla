---------------------------- MODULE JobScheduler ----------------------------
(***************************************************************************)
(* The API's background jobs: api/services/job_scheduler.py, called by the *)
(* request threads of api/routes/firmware.py and experiments.py and by the *)
(* start-up of api/main.py.                                                *)
(*                                                                         *)
(* A job is submitted by one thread and run by one, so a thread is known   *)
(* by its job: caller[j] and worker[j] are how far the two have got.  What *)
(* either does while it holds _lock is one step; a semaphore call, made    *)
(* without the lock, is another, and between any two of them other threads *)
(* run.                                                                    *)
(*                                                                         *)
(* The thread pool is external (concurrent.futures.ThreadPoolExecutor).    *)
(* Its submit refuses after shutdown.  It queues the work first and starts *)
(* a thread for it second: when the thread cannot be started it raises     *)
(* although the work is queued, and a thread that is there runs it.        *)
(***************************************************************************)
EXTENDS Integers, Sequences, FiniteSets

CONSTANTS
  Jobs,               \* job ids (uuids: never reused), one per accepted submission
  Keys,               \* dedupe keys
  MaxWorkers,         \* JobScheduler(max_workers)
  MaxQueued,          \* JobScheduler(max_queued)
  MaxStartFailures    \* bound: threads the system refuses to start

ASSUME NamesAssumption == "none" \notin Jobs /\ "none" \notin Keys
ASSUME JobsAssumption == IsFiniteSet(Jobs)
ASSUME SizesAssumption ==
  MaxWorkers \in Nat \ {0} /\ MaxQueued \in Nat /\ MaxStartFailures \in Nat

VARIABLES
  registered,         \* the ids in JobScheduler._jobs
  status,             \* _Job.status
  key,                \* _Job.dedupe_key
  activeKey,          \* JobScheduler._active_dedupe_keys
  permits,            \* what JobScheduler._capacity has left
  caller,             \* how far submit has got with a job
  worker,             \* how far the pool has got with it
  queue,              \* the pool's queue of work, oldest first
  threads,            \* threads the pool has started
  shut,               \* the pool has been shut down
  startFailures       \* how often a thread could not be started

vars == <<registered, status, key, activeKey, permits, caller, worker, queue,
          threads, shut, startFailures>>

Capacity == MaxWorkers + MaxQueued

Statuses    == {"none", "queued", "running", "succeeded", "failed"}
CallerSteps == {"none", "handOff", "withdraw", "giveBack", "done"}
WorkerSteps == {"none", "waiting", "operating", "ended", "dropped", "done", "cancelled"}

\* A submission shares the job that is active under its key while that job has
\* one of these.
Active == {"queued", "running"}

IsShared(k) ==
  /\ k # "none"
  /\ activeKey[k] \in registered
  /\ status[activeKey[k]] \in Active

\* The index without job j, whoever owns j's key by now is left alone.
\* Mutant: the key goes whoever owns it.
IndexWithoutKeyOf(j) == [k \in Keys |-> IF k = key[j] THEN "none" ELSE activeKey[k]]
IndexWithout(j) == [k \in Keys |-> IF activeKey[k] = j THEN "none" ELSE activeKey[k]]

\* BoundedSemaphore.release: raises above its initial value, and the error ends
\* in the future nobody reads.
Released(n) == IF n < Capacity THEN n + 1 ELSE n

Busy   == {j \in Jobs : worker[j] \in {"operating", "ended", "dropped"}}
Queued == {j \in Jobs : worker[j] = "waiting"}

\* A thread is started for queued work while those there are have theirs.
NeedsThread == Cardinality(Busy \cup Queued) >= threads /\ threads < MaxWorkers
ThreadsForOneMore == IF NeedsThread THEN threads + 1 ELSE threads

Init ==
  /\ registered = {}
  /\ status = [j \in Jobs |-> "none"]
  /\ key = [j \in Jobs |-> "none"]
  /\ activeKey = [k \in Keys |-> "none"]
  /\ permits = Capacity
  /\ caller = [j \in Jobs |-> "none"]
  /\ worker = [j \in Jobs |-> "none"]
  /\ queue = <<>>
  /\ threads = 0
  /\ shut = FALSE
  /\ startFailures = 0

-----------------------------------------------------------------------------
(* submit *)

\* Under the lock: no active job to share, a permit, a new job.  A submission
\* that shares a job or finds no permit changes nothing.
Submit(j, k) ==
  /\ caller[j] = "none"
  /\ ~IsShared(k)
  /\ permits > 0
  /\ permits' = permits - 1
  /\ registered' = registered \cup {j}
  /\ status' = [status EXCEPT ![j] = "queued"]
  /\ key' = [key EXCEPT ![j] = k]
  /\ activeKey' = IF k = "none" THEN activeKey ELSE [activeKey EXCEPT ![k] = j]
  /\ caller' = [caller EXCEPT ![j] = "handOff"]
  /\ UNCHANGED <<worker, queue, threads, shut, startFailures>>

\* executor.submit takes the job.
HandOff(j) ==
  /\ caller[j] = "handOff"
  /\ ~shut
  /\ caller' = [caller EXCEPT ![j] = "done"]
  /\ worker' = [worker EXCEPT ![j] = "waiting"]
  /\ queue' = Append(queue, j)
  /\ threads' = ThreadsForOneMore
  /\ UNCHANGED <<registered, status, key, activeKey, permits, shut, startFailures>>

\* executor.submit raises: nothing is scheduled after shutdown.
HandOffRefused(j) ==
  /\ caller[j] = "handOff"
  /\ shut
  /\ caller' = [caller EXCEPT ![j] = "withdraw"]
  /\ UNCHANGED <<registered, status, key, activeKey, permits, worker, queue, threads,
                 shut, startFailures>>

\* executor.submit raises: the job is queued, its thread could not be started.
HandOffWithoutThread(j) ==
  /\ caller[j] = "handOff"
  /\ ~shut
  /\ NeedsThread
  /\ startFailures < MaxStartFailures
  /\ startFailures' = startFailures + 1
  /\ caller' = [caller EXCEPT ![j] = "withdraw"]
  /\ worker' = [worker EXCEPT ![j] = "waiting"]
  /\ queue' = Append(queue, j)
  /\ UNCHANGED <<registered, status, key, activeKey, permits, threads, shut>>

\* The except branch, under the lock.
Withdraw(j) ==
  /\ caller[j] = "withdraw"
  /\ registered' = registered \ {j}
  /\ activeKey' = IndexWithout(j)
  /\ caller' = [caller EXCEPT ![j] = "giveBack"]
  /\ UNCHANGED <<status, key, permits, worker, queue, threads, shut, startFailures>>

\* The end of the except branch.  Mutant: it is missing.
GiveNothingBack(j) ==
  /\ caller[j] = "giveBack"
  /\ caller' = [caller EXCEPT ![j] = "done"]
  /\ UNCHANGED <<registered, status, key, activeKey, permits, worker, queue, threads,
                 shut, startFailures>>
GiveBack(j) ==
  /\ caller[j] = "giveBack"
  /\ permits' = Released(permits)
  /\ caller' = [caller EXCEPT ![j] = "done"]
  /\ UNCHANGED <<registered, status, key, activeKey, worker, queue, threads, shut,
                 startFailures>>

-----------------------------------------------------------------------------
(* _run *)

\* A free thread takes the oldest of the queue.
MayStart(j) ==
  /\ worker[j] = "waiting"
  /\ queue # <<>>
  /\ j = Head(queue)
  /\ Cardinality(Busy) < threads

Start(j) ==
  /\ MayStart(j)
  /\ j \in registered
  /\ status' = [status EXCEPT ![j] = "running"]
  /\ worker' = [worker EXCEPT ![j] = "operating"]
  /\ queue' = Tail(queue)
  /\ UNCHANGED <<registered, key, activeKey, permits, caller, threads,
                 shut, startFailures>>

\* The job was withdrawn: self._jobs[job_id] raises before the try.
StartWithdrawn(j) ==
  /\ MayStart(j)
  /\ j \notin registered
  /\ worker' = [worker EXCEPT ![j] = "done"]
  /\ queue' = Tail(queue)
  /\ UNCHANGED <<registered, status, key, activeKey, permits, caller, threads,
                 shut, startFailures>>

\* The operation returns or raises.  What is no Exception (SystemExit, say) is
\* not caught: the status stays "running".
Finish(j) ==
  /\ worker[j] = "operating"
  /\ \E final \in {"succeeded", "failed", "running"} :
       status' = [status EXCEPT ![j] = final]
  /\ worker' = [worker EXCEPT ![j] = "ended"]
  /\ UNCHANGED <<registered, key, activeKey, permits, caller, queue, threads,
                 shut, startFailures>>

\* The finally branch, under the lock.  Mutant: it is left out when the
\* operation was not caught.
DropKeyWhenCaught(j) ==
  /\ worker[j] = "ended"
  /\ activeKey' = IF status[j] = "running" THEN activeKey ELSE IndexWithout(j)
  /\ worker' = [worker EXCEPT ![j] = "dropped"]
  /\ UNCHANGED <<registered, status, key, permits, caller, queue, threads, shut,
                 startFailures>>
DropKey(j) ==
  /\ worker[j] = "ended"
  /\ activeKey' = IndexWithout(j)
  /\ worker' = [worker EXCEPT ![j] = "dropped"]
  /\ UNCHANGED <<registered, status, key, permits, caller, queue, threads, shut,
                 startFailures>>

ReleasePermit(j) ==
  /\ worker[j] = "dropped"
  /\ permits' = Released(permits)
  /\ worker' = [worker EXCEPT ![j] = "done"]
  /\ UNCHANGED <<registered, status, key, activeKey, caller, queue, threads, shut,
                 startFailures>>

-----------------------------------------------------------------------------
(* shutdown: queued work is cancelled, running work goes on *)

Shutdown ==
  /\ ~shut
  /\ shut' = TRUE
  /\ worker' = [j \in Jobs |-> IF worker[j] = "waiting" THEN "cancelled" ELSE worker[j]]
  /\ queue' = <<>>
  /\ UNCHANGED <<registered, status, key, activeKey, permits, caller, threads,
                 startFailures>>

-----------------------------------------------------------------------------

SubmitGoesOn(j) ==
  HandOff(j) \/ HandOffRefused(j) \/ HandOffWithoutThread(j) \/ Withdraw(j) \/ GiveBack(j)

Run(j) == Start(j) \/ StartWithdrawn(j) \/ Finish(j) \/ DropKey(j) \/ ReleasePermit(j)

Next ==
  \/ \E j \in Jobs : \/ \E k \in Keys \cup {"none"} : Submit(j, k)
                     \/ SubmitGoesOn(j)
                     \/ Run(j)
  \/ Shutdown

Spec == Init /\ [][Next]_vars

\* Threads run, and operations come to an end.
LiveSpec ==
  Spec /\ \A j \in Jobs : WF_vars(SubmitGoesOn(j)) /\ WF_vars(Run(j))

-----------------------------------------------------------------------------

\* Every variable has its type; the pool has no more threads than it may.
TypeOK ==
  /\ registered \subseteq Jobs
  /\ status \in [Jobs -> Statuses]
  /\ key \in [Jobs -> Keys \cup {"none"}]
  /\ activeKey \in [Keys -> Jobs \cup {"none"}]
  /\ permits \in 0 .. Capacity
  /\ caller \in [Jobs -> CallerSteps]
  /\ worker \in [Jobs -> WorkerSteps]
  /\ queue \in Seq(Jobs)
  /\ threads \in 0 .. MaxWorkers
  /\ shut \in BOOLEAN
  /\ startFailures \in Nat

\* The jobs a permit is out for.
Holding ==
  {j \in Jobs : \/ caller[j] \in {"handOff", "withdraw", "giveBack"}
                \/ worker[j] \in {"waiting", "operating", "ended", "dropped", "cancelled"}}

\* No permit is lost and none is made, on any path through submit, _run and
\* shutdown: a queue that was full takes jobs again, and never more of them.
PermitsConserved ==
  startFailures = 0 => permits + Cardinality(Holding) = Capacity

\* Two threads never execute operations of one dedupe key at the same time:
\* firmware is not built twice into one directory.
OneOperationPerKey ==
  startFailures = 0 =>
    \A i, j \in Jobs :
      /\ worker[i] = "operating" /\ worker[j] = "operating"
      /\ key[i] = key[j] /\ key[i] # "none"
      => i = j

\* The index holds a key only while its job can still give it back: a job that
\* never got its final status does not keep others of its key away for good.
KeyedJobIsInProgress ==
  \A k \in Keys : activeKey[k] # "none" => activeKey[k] \in Holding

\* No key stays taken and a full scheduler takes jobs again, whatever became of
\* the jobs: one may end in what is no Exception and stay "running" for those
\* who look, one may be withdrawn when its thread cannot be started and be run
\* all the same.  Only a shutdown leaves keys and permits with the jobs it
\* cancels.
TakesJobsAgain ==
  /\ \A k \in Keys : IsShared(k) ~> (~IsShared(k) \/ shut)
  /\ (permits = 0) ~> (permits > 0 \/ shut)

\* "Bounded in-process scheduler", "Run submitted callables on a bounded worker
\* pool": no more accepted jobs wait and run than the pool and its queue take.
\* A job whose thread could not be started gives its permit back twice.
Bounded ==
  Cardinality({j \in registered : worker[j] \in {"waiting", "operating"}}) <= Capacity
=============================================================================
