----------------------------- MODULE AssetWorker ----------------------------
(***************************************************************************)
(* assets/worker: the one asset thread.  Jobs run in submission order, and *)
(* the main thread takes their Finishes in batches (AssetManager::update). *)
(* Unlike WorkerPool it may be given jobs before its thread is started,    *)
(* its queue is a FIFO, and stop() does not empty it.  Jobs are numbered   *)
(* in submission order.                                                    *)
(***************************************************************************)
EXTENDS Integers, Sequences

CONSTANT MaxJobs      \* how many jobs the client submits

Job == 1 .. MaxJobs

VARIABLES
  queued,        \* queued_
  finished,      \* finished_
  outstanding,   \* outstanding_
  thread,        \* none, ready, waiting, running, exited
  hand,          \* the job in hand, as a sequence of at most one
  stopRequested, \* request_stop() was called
  main,          \* where the main thread is
  unnotified,    \* a job was pushed and notify_one has not been called yet
  submitted,     \* how many jobs were submitted
  taken          \* how many Finishes take() has returned

vars == <<queued, finished, outstanding, thread, hand, stopRequested, main,
          unnotified, submitted, taken>>

Init ==
  /\ queued = <<>>
  /\ finished = <<>>
  /\ outstanding = 0
  /\ thread = "none"
  /\ hand = <<>>
  /\ stopRequested = FALSE
  /\ main = "loop"
  /\ unnotified = FALSE
  /\ submitted = 0
  /\ taken = 0

-----------------------------------------------------------------------------
(* The main thread. *)

Start ==
  /\ main = "loop" /\ ~unnotified
  /\ thread = "none"
  /\ thread' = "ready"
  /\ UNCHANGED <<queued, finished, outstanding, hand, stopRequested, main,
                 unnotified, submitted, taken>>

Submit ==
  /\ main = "loop" /\ ~unnotified
  /\ submitted < MaxJobs
  /\ submitted' = submitted + 1
  /\ queued' = Append(queued, submitted + 1)
  /\ outstanding' = outstanding + 1
  /\ unnotified' = TRUE
  /\ UNCHANGED <<finished, thread, hand, stopRequested, main, taken>>

NotifyOne ==
  /\ unnotified
  /\ unnotified' = FALSE
  /\ thread' = IF thread = "waiting" THEN "ready" ELSE thread
  /\ UNCHANGED <<queued, finished, outstanding, hand, stopRequested, main,
                 submitted, taken>>

\* take(): AssetManager::update() then runs the Finishes, which may Submit.
TakeFinished ==
  /\ main = "loop" /\ ~unnotified
  /\ finished # <<>>
  /\ taken' = taken + Len(finished)
  /\ outstanding' = outstanding - Len(finished)
  /\ finished' = <<>>
  /\ UNCHANGED <<queued, thread, hand, stopRequested, main, unnotified, submitted>>

\* stop() on a thread that was never started has nothing to join.
StopUnstarted ==
  /\ main = "loop" /\ ~unnotified
  /\ thread = "none"
  /\ main' = "stopped"
  /\ UNCHANGED <<queued, finished, outstanding, thread, hand, stopRequested,
                 unnotified, submitted, taken>>

\* stop(): request_stop() wakes the thread if it waits.
RequestStop ==
  /\ main = "loop" /\ ~unnotified
  /\ thread # "none"
  /\ stopRequested' = TRUE
  /\ thread' = IF thread = "waiting" THEN "ready" ELSE thread
  /\ main' = "joining"
  /\ UNCHANGED <<queued, finished, outstanding, hand, unnotified, submitted, taken>>

\* stop(): join() returns.
Joined ==
  /\ main = "joining"
  /\ thread = "exited"
  /\ main' = "stopped"
  /\ UNCHANGED <<queued, finished, outstanding, thread, hand, stopRequested,
                 unnotified, submitted, taken>>

Stopped == main = "stopped" /\ UNCHANGED vars

-----------------------------------------------------------------------------
(* The asset thread. *)

\* The wait's predicate holds, stop requested or not.
Take ==
  /\ thread = "ready"
  /\ queued # <<>>
  /\ hand' = <<Head(queued)>>
  /\ queued' = Tail(queued)
  /\ thread' = "running"
  /\ UNCHANGED <<finished, outstanding, stopRequested, main, unnotified,
                 submitted, taken>>

Wait ==
  /\ thread = "ready"
  /\ queued = <<>>
  /\ ~stopRequested
  /\ thread' = "waiting"
  /\ UNCHANGED <<queued, finished, outstanding, hand, stopRequested, main,
                 unnotified, submitted, taken>>

\* The wait returns false: nothing queued and a stop requested.
Exit ==
  /\ thread = "ready"
  /\ queued = <<>>
  /\ stopRequested
  /\ thread' = "exited"
  /\ UNCHANGED <<queued, finished, outstanding, hand, stopRequested, main,
                 unnotified, submitted, taken>>

SpuriousWake ==
  /\ thread = "waiting"
  /\ thread' = "ready"
  /\ UNCHANGED <<queued, finished, outstanding, hand, stopRequested, main,
                 unnotified, submitted, taken>>

\* work()'s Finish, or the job's `failed` when it threw, is pushed.
Finish ==
  /\ thread = "running"
  /\ finished' = finished \o hand
  /\ hand' = <<>>
  /\ thread' = "ready"
  /\ UNCHANGED <<queued, outstanding, stopRequested, main, unnotified,
                 submitted, taken>>

-----------------------------------------------------------------------------

Main == Start \/ Submit \/ NotifyOne \/ TakeFinished \/ StopUnstarted
          \/ RequestStop \/ Joined \/ Stopped

Thread == Take \/ Wait \/ Exit \/ SpuriousWake \/ Finish

Next == Main \/ Thread

Spec == Init /\ [][Next]_vars

\* The thread is scheduled and decoding ends; AssetManager::update() takes
\* every frame; a submit() or stop() that began goes on.  AssetManager::start()
\* is called once at startup.
Fairness ==
  /\ WF_vars(Take \/ Wait \/ Exit)
  /\ WF_vars(Finish)
  /\ WF_vars(Start)
  /\ WF_vars(NotifyOne)
  /\ WF_vars(TakeFinished)
  /\ WF_vars(Joined)

FairSpec == Spec /\ Fairness

-----------------------------------------------------------------------------

TypeOK ==
  /\ queued \in Seq(Job)
  /\ finished \in Seq(Job)
  /\ outstanding \in Int
  /\ thread \in {"none", "ready", "waiting", "running", "exited"}
  /\ hand \in Seq(Job)
  /\ stopRequested \in BOOLEAN
  /\ main \in {"loop", "joining", "stopped"}
  /\ unnotified \in BOOLEAN
  /\ submitted \in 0 .. MaxJobs
  /\ taken \in 0 .. MaxJobs

\* Every submitted job whose Finish was not taken, oldest first.
Unfinished == finished \o hand \o queued

\* Jobs are "run in submission order" and Finishes are taken "in completion
\* order" (worker.hpp:52,55): at every moment what lies between take() and
\* submit() is exactly the jobs not yet taken, in the order submitted, so a
\* model's Finish always runs before the textures it asked for; and
\* outstanding(), which idle() reads, counts them.
InOrder ==
  /\ Unfinished = [i \in 1 .. submitted - taken |-> taken + i]
  /\ outstanding = Len(Unfinished)

\* A job submitted before start(), or between the thread's predicate and its
\* sleep, or by a Finish, never finds the thread asleep with no notify to come.
NoLostWakeup ==
  thread = "waiting" /\ queued # <<>> => unnotified

\* The thread is joined, whatever was queued.
StopReturns == main = "joining" ~> main = "stopped"

=============================================================================
