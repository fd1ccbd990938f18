----------------------------- MODULE JobService -----------------------------
(***************************************************************************)
(* What a background thread service promises the main thread, without its  *)
(* threads, queues or condition variable: a job that was submitted is      *)
(* started at most once, is delivered back at most once and only after it  *)
(* was started, and once the service has been closed no job is started or  *)
(* delivered any more.  WorkerPool is shown to implement it.               *)
(***************************************************************************)
EXTENDS Naturals

CONSTANT Job            \* the jobs a client may submit, each of them once

VARIABLES
  pending,              \* submitted, neither delivered nor dropped
  started,              \* picked up by a thread
  delivered,            \* its result handed back to the client
  open                  \* stop() has not begun

vars == <<pending, started, delivered, open>>

Init ==
  /\ pending = {}
  /\ started = {}
  /\ delivered = {}
  /\ open = TRUE

Submit(j) ==
  /\ open
  /\ j \notin pending \cup started
  /\ pending' = pending \cup {j}
  /\ UNCHANGED <<started, delivered, open>>

Start(j) ==
  /\ open
  /\ j \in pending \ started
  /\ started' = started \cup {j}
  /\ UNCHANGED <<pending, delivered, open>>

\* Results come back in batches.
Deliver(batch) ==
  /\ open
  /\ batch \subseteq pending \cap started
  /\ pending' = pending \ batch
  /\ delivered' = delivered \cup batch
  /\ UNCHANGED <<started, open>>

\* Jobs no thread has picked up are discarded at once.
Close ==
  /\ open
  /\ open' = FALSE
  /\ pending' = pending \cap started
  /\ UNCHANGED <<started, delivered>>

\* The rest are dropped when the threads have been joined.
Drop ==
  /\ ~open
  /\ pending' = {}
  /\ UNCHANGED <<started, delivered, open>>

Next ==
  \/ \E j \in Job : Submit(j) \/ Start(j)
  \/ \E batch \in SUBSET pending : Deliver(batch)
  \/ Close
  \/ Drop

Spec == Init /\ [][Next]_vars

=============================================================================
