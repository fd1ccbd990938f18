----------------------------- MODULE WorkerPool -----------------------------
(***************************************************************************)
(* platform/worker_pool: background threads that run jobs, and a main      *)
(* thread that submits them, drains their completions and stops the pool.  *)
(* A step is one critical section of mutex_, or one effect outside it      *)
(* (notify_one, a job's body, a completion, request_stop).  Jobs are       *)
(* numbered in the order they are submitted, so the smaller number is the  *)
(* older one in queued_.                                                   *)
(***************************************************************************)
EXTENDS Integers, Sequences, FiniteSets, Functions

CONSTANTS
  Worker,       \* the threads start() creates
  MaxJobs,      \* how many jobs the client submits
  Priority      \* the values a job's shared priority may take

ASSUME WorkerAssumption == IsFiniteSet(Worker) /\ Worker # {}
ASSUME MaxJobsAssumption == MaxJobs \in Nat
ASSUME PriorityAssumption == Priority \subseteq Int /\ 0 \in Priority

Job == 1 .. MaxJobs

NoJob == 0

VARIABLES
  queued,       \* queued_, as the set of its jobs: their age is their number
  priority,     \* each job's shared atomic, which the main thread rewrites
  finished,     \* finished_: completions in the order the jobs finished
  outstanding,  \* outstanding_
  worker,       \* where each thread is: ready, waiting, running, exited
  hand,         \* the job a running thread holds
  asked,        \* the threads request_stop() was called on
  main,         \* where the main thread is
  unnotified,   \* a job was pushed and notify_one has not been called yet
  batch,        \* drain()'s local copy of finished_
  submitted,    \* how many jobs were submitted
  delivered,    \* the jobs whose completion drain() has taken
  begun         \* the jobs a thread has picked up

vars == <<queued, priority, finished, outstanding, worker, hand, asked,
          main, unnotified, batch, submitted, delivered, begun>>

Running == {hand[w] : w \in {v \in Worker : worker[v] = "running"}}

Waiting == {w \in Worker : worker[w] = "waiting"}

\* The main thread is in the frame loop or in one of drain()'s completions.
Working == main \in {"loop", "draining"}

-----------------------------------------------------------------------------

Init ==
  /\ queued = {}
  /\ priority = [j \in Job |-> 0]
  /\ finished = <<>>
  /\ outstanding = 0
  /\ worker = [w \in Worker |-> "ready"]
  /\ hand = [w \in Worker |-> NoJob]
  /\ asked = {}
  /\ main = "loop"
  /\ unnotified = FALSE
  /\ batch = <<>>
  /\ submitted = 0
  /\ delivered = {}
  /\ begun = {}

-----------------------------------------------------------------------------
(* The main thread. *)

\* submit(), under the lock.  Called from the frame loop and from completions.
Submit(p) ==
  /\ Working /\ ~unnotified
  /\ submitted < MaxJobs
  /\ submitted' = submitted + 1
  /\ queued' = queued \cup {submitted + 1}
  /\ priority' = [priority EXCEPT ![submitted + 1] = p]
  /\ outstanding' = outstanding + 1
  /\ unnotified' = TRUE
  /\ UNCHANGED <<finished, worker, hand, asked, main, batch, delivered, begun>>

\* Mutant of NotifyOne: the notify wakes nobody.
MutantNotifyNobody ==
  /\ unnotified
  /\ unnotified' = FALSE
  /\ UNCHANGED <<queued, priority, finished, outstanding, worker, hand, asked,
                 main, batch, submitted, delivered, begun>>

\* submit(), after the lock: notify_one wakes one waiting thread, if any is.
NotifyOne ==
  /\ unnotified
  /\ unnotified' = FALSE
  /\ \/ /\ Waiting = {}
        /\ UNCHANGED worker
     \/ \E w \in Waiting : worker' = [worker EXCEPT ![w] = "ready"]
  /\ UNCHANGED <<queued, priority, finished, outstanding, hand, asked,
                 main, batch, submitted, delivered, begun>>

\* The submitter rewrites the priority of a job that may still be waiting.
Reprioritise(j, p) ==
  /\ main = "loop" /\ ~unnotified
  /\ j \in queued
  /\ p # priority[j]
  /\ priority' = [priority EXCEPT ![j] = p]
  /\ UNCHANGED <<queued, finished, outstanding, worker, hand, asked,
                 main, unnotified, batch, submitted, delivered, begun>>

\* drain(), under the lock.
Drain ==
  /\ main = "loop" /\ ~unnotified
  /\ finished # <<>>
  /\ batch' = finished
  /\ finished' = <<>>
  /\ outstanding' = outstanding - Len(finished)
  /\ delivered' = delivered \cup Range(finished)
  /\ main' = "draining"
  /\ UNCHANGED <<queued, priority, worker, hand, asked, unnotified,
                 submitted, begun>>

\* drain(), outside the lock: the next completion, skipped when it is empty,
\* has run; the last one ends drain().  A completion may Submit before it ends.
Complete ==
  /\ main = "draining" /\ ~unnotified
  /\ batch # <<>>
  /\ batch' = Tail(batch)
  /\ main' = IF batch' = <<>> THEN "loop" ELSE "draining"
  /\ UNCHANGED <<queued, priority, finished, outstanding, worker, hand,
                 asked, unnotified, submitted, delivered, begun>>

\* Mutant of StopClear: the queue is not cleared.
MutantStopKeepsQueue ==
  /\ main = "loop" /\ ~unnotified
  /\ main' = "stopping"
  /\ UNCHANGED <<queued, priority, finished, outstanding, worker, hand, asked,
                 unnotified, batch, submitted, delivered, begun>>

\* stop(), first critical section: the queued jobs are discarded.
StopClear ==
  /\ main = "loop" /\ ~unnotified
  /\ queued' = {}
  /\ main' = "stopping"
  /\ UNCHANGED <<priority, finished, outstanding, worker, hand, asked,
                 unnotified, batch, submitted, delivered, begun>>

\* stop(): request_stop() on one thread, which wakes it if it is waiting.
RequestStop(w) ==
  /\ main = "stopping"
  /\ w \notin asked
  /\ asked' = asked \cup {w}
  /\ worker' = [worker EXCEPT ![w] = IF @ = "waiting" THEN "ready" ELSE @]
  /\ UNCHANGED <<queued, priority, finished, outstanding, hand, main,
                 unnotified, batch, submitted, delivered, begun>>

\* stop(): threads_.clear() joins every thread, then the second critical
\* section drops what was never drained.
StopJoined ==
  /\ main = "stopping"
  /\ asked = Worker
  /\ \A w \in Worker : worker[w] = "exited"
  /\ finished' = <<>>
  /\ outstanding' = 0
  /\ main' = "stopped"
  /\ UNCHANGED <<queued, priority, worker, hand, asked, unnotified,
                 batch, submitted, delivered, begun>>

\* The pool has been stopped; nothing uses it any more.
Stopped == main = "stopped" /\ UNCHANGED vars

-----------------------------------------------------------------------------
(* The worker threads. *)

\* Lowest priority now, oldest among equals.
MoreUrgent(i, j) ==
  \/ priority[i] < priority[j]
  \/ priority[i] = priority[j] /\ i < j

\* Mutant of Take: the job stays in the queue.
MutantTakeLeavesJob(w) ==
  /\ worker[w] = "ready"
  /\ \E j \in queued :
       /\ \A i \in queued \ {j} : MoreUrgent(j, i)
       /\ hand' = [hand EXCEPT ![w] = j]
       /\ begun' = begun \cup {j}
  /\ worker' = [worker EXCEPT ![w] = "running"]
  /\ UNCHANGED <<queued, priority, finished, outstanding, asked, main,
                 unnotified, batch, submitted, delivered>>

\* run(): the wait's predicate holds, stop requested or not, and the most
\* urgent job leaves the queue.
Take(w) ==
  /\ worker[w] = "ready"
  /\ \E j \in queued :
       /\ \A i \in queued \ {j} : MoreUrgent(j, i)
       /\ queued' = queued \ {j}
       /\ hand' = [hand EXCEPT ![w] = j]
       /\ begun' = begun \cup {j}
  /\ worker' = [worker EXCEPT ![w] = "running"]
  /\ UNCHANGED <<priority, finished, outstanding, asked, main,
                 unnotified, batch, submitted, delivered>>

\* run(): nothing queued and no stop requested, so the thread blocks.
Wait(w) ==
  /\ worker[w] = "ready"
  /\ queued = {}
  /\ w \notin asked
  /\ worker' = [worker EXCEPT ![w] = "waiting"]
  /\ UNCHANGED <<queued, priority, finished, outstanding, hand, asked,
                 main, unnotified, batch, submitted, delivered, begun>>

\* run(): the wait returns false, nothing queued and a stop requested.
Exit(w) ==
  /\ worker[w] = "ready"
  /\ queued = {}
  /\ w \in asked
  /\ worker' = [worker EXCEPT ![w] = "exited"]
  /\ UNCHANGED <<queued, priority, finished, outstanding, hand, asked,
                 main, unnotified, batch, submitted, delivered, begun>>

\* A condition variable may wake a thread for no reason.
SpuriousWake(w) ==
  /\ worker[w] = "waiting"
  /\ worker' = [worker EXCEPT ![w] = "ready"]
  /\ UNCHANGED <<queued, priority, finished, outstanding, hand, asked,
                 main, unnotified, batch, submitted, delivered, begun>>

\* run(): the job returned its completion, or which leaves an empty
\* one; either way it is pushed to finished_.
Finish(w) ==
  /\ worker[w] = "running"
  /\ finished' = Append(finished, hand[w])
  /\ hand' = [hand EXCEPT ![w] = NoJob]
  /\ worker' = [worker EXCEPT ![w] = "ready"]
  /\ UNCHANGED <<queued, priority, outstanding, asked, main, unnotified, batch,
                 submitted, delivered, begun>>

-----------------------------------------------------------------------------

Main ==
  \/ \E p \in Priority : Submit(p)
  \/ NotifyOne
  \/ \E j \in Job, p \in Priority : Reprioritise(j, p)
  \/ Drain
  \/ Complete
  \/ StopClear
  \/ \E w \in Worker : RequestStop(w)
  \/ StopJoined
  \/ Stopped

Thread(w) == Take(w) \/ Wait(w) \/ Exit(w) \/ SpuriousWake(w) \/ Finish(w)

Next == Main \/ \E w \in Worker : Thread(w)

Spec == Init /\ [][Next]_vars

\* Threads are scheduled and jobs end; the frame loop drains every frame; a
\* call to submit(), drain() or stop() that has begun goes on to its end.
\* Nothing makes the main thread submit, reprioritise or begin to stop.
Fairness ==
  /\ \A w \in Worker : WF_vars(Take(w) \/ Wait(w) \/ Exit(w)) /\ WF_vars(Finish(w))
  /\ WF_vars(NotifyOne)
  /\ WF_vars(Drain)
  /\ WF_vars(Complete)
  /\ \A w \in Worker : WF_vars(RequestStop(w))
  /\ WF_vars(StopJoined)

FairSpec == Spec /\ Fairness

-----------------------------------------------------------------------------

TypeOK ==
  /\ queued \subseteq Job
  /\ priority \in [Job -> Priority]
  /\ finished \in Seq(Job)
  /\ outstanding \in Int
  /\ worker \in [Worker -> {"ready", "waiting", "running", "exited"}]
  /\ hand \in [Worker -> Job \cup {NoJob}]
  /\ \A w \in Worker : worker[w] = "running" <=> hand[w] # NoJob
  /\ asked \subseteq Worker
  /\ main \in {"loop", "draining", "stopping", "stopped"}
  /\ unnotified \in BOOLEAN
  /\ batch \in Seq(Job)
  /\ submitted \in 0 .. MaxJobs
  /\ delivered \subseteq Job
  /\ begun \subseteq Job

\* The jobs outstanding_ is about.
InPlay == queued \cup Running \cup Range(finished)

\* outstanding() is "Submitted and not yet drained" (worker_pool.hpp:65) at
\* every moment until stop() begins, whatever the threads are doing, and zero
\* once it has returned: queue, hands and finished_ are changed in different
\* critical sections, and none of them forgets or double counts a job.
OutstandingExact ==
  /\ Working => outstanding = Cardinality(InPlay)
  /\ main = "stopped" => outstanding = 0

\* A job is in one place at a time: the queue, one thread's hand, finished_
\* once, or already drained; and until stop() begins each submitted job is in
\* one of them.  So no job runs twice and none is lost between two locks.
EachJobOnce ==
  /\ queued \cap Running = {}
  /\ (queued \cup Running) \cap (Range(finished) \cup delivered) = {}
  /\ Range(finished) \cap delivered = {}
  /\ \A i, k \in DOMAIN finished : finished[i] = finished[k] => i = k
  /\ \A v, w \in Worker :
       worker[v] = "running" /\ worker[w] = "running" /\ hand[v] = hand[w] => v = w
  /\ Working => InPlay \cup delivered = 1 .. submitted

Awake == {w \in Worker : worker[w] = "ready"}

\* While a thread sleeps in the wait, every queued job has a thread already
\* awake to take it, or the notify_one of its submit still to come: the notify
\* after the unlock, the predicate and the threads that come back from a job
\* never strand a job beside a sleeping thread.
NoLostWakeup ==
  Waiting # {} =>
    Cardinality(queued) <= Cardinality(Awake) + (IF unnotified THEN 1 ELSE 0)

PicksUp(w) == worker[w] # "running" /\ worker'[w] = "running"

\* stop() "discards queued jobs, lets running ones finish" (worker_pool.hpp:53):
\* once it has begun no thread picks up a job, although a thread asked to stop
\* still takes whatever the queue holds.
NoStartAfterStop ==
  [][~Working => ~ \E w \in Worker : PicksUp(w)]_vars

\* stop() "joins every worker and drops undrained completions"
\* (worker_pool.hpp:53): when it has returned nothing of the pool is left.
StoppedIsQuiet ==
  main = "stopped" =>
    /\ \A w \in Worker : worker[w] = "exited"
    /\ queued = {} /\ finished = <<>> /\ batch = <<>>

\* The pool's books: every job in its one place, counted once, whatever the
\* threads do, and nothing left when stop() returns.
JobsAccounted == TypeOK /\ OutstandingExact /\ EachJobOnce /\ StoppedIsQuiet

\* Every submitted job comes back to the main thread unless the pool is
\* stopped, also when it throws; stop() always returns.
EveryJobDrained ==
  \A j \in Job : j \in queued ~> (j \in delivered \/ ~Working)

StopReturns == main = "stopping" ~> main = "stopped"

\* What the main thread waits for comes: the jobs it submitted, or the pool's
\* end.
JobsComeBack == EveryJobDrained /\ StopReturns

-----------------------------------------------------------------------------
Service == INSTANCE JobService WITH
  pending   <- IF main = "stopped" THEN {} ELSE InPlay,
  started   <- begun,
  delivered <- delivered,
  open      <- Working

\* The pool keeps every promise of the abstract service (JobService.tla), with
\* the queue, the threads' hands and finished_ as its pending jobs.
ImplementsJobService == Service!Spec

=============================================================================
