-------------------------- MODULE WorkerPoolProofs --------------------------
(***************************************************************************)
(* Proofs about WorkerPool, for any set of threads and any number of jobs. *)
(***************************************************************************)
EXTENDS WorkerPool, FiniteSetTheorems, TLAPS

-----------------------------------------------------------------------------
(* Sequences without repetition. *)

\* Appending an element adds it to the range.
LEMMA RangeAppend ==
  ASSUME NEW S, NEW s \in Seq(S), NEW x \in S
  PROVE  Range(Append(s, x)) = Range(s) \cup {x}
<1> DEFINE t == Append(s, x)
<1>1. /\ DOMAIN t = 1 .. Len(s) + 1
      /\ DOMAIN s = 1 .. Len(s)
      /\ Len(s) \in Nat
      /\ \A i \in 1 .. Len(s) : t[i] = s[i]
      /\ t[Len(s) + 1] = x
  OBVIOUS
<1>2. ASSUME NEW y \in Range(t) PROVE y \in Range(s) \cup {x}
  BY <1>1 DEF Range
<1>3. ASSUME NEW y \in Range(s) PROVE y \in Range(t)
  BY <1>1 DEF Range
<1>4. x \in Range(t)
  BY <1>1 DEF Range
<1> QED
  BY <1>2, <1>3, <1>4

\* The empty sequence has an empty range.
LEMMA RangeEmpty == Range(<<>>) = {}
BY DEF Range

\* The range of a sequence over S lies in S.
LEMMA RangeOfSeq ==
  ASSUME NEW S, NEW s \in Seq(S)
  PROVE  Range(s) \subseteq S
BY DEF Range

\* A sequence without repetition has as many elements as places.
LEMMA DistinctLength ==
  ASSUME NEW S, NEW s \in Seq(S),
         \A i, k \in DOMAIN s : s[i] = s[k] => i = k
  PROVE  /\ IsFiniteSet(Range(s))
         /\ Cardinality(Range(s)) = Len(s)
<1>1. /\ DOMAIN s = 1 .. Len(s)
      /\ Len(s) \in Nat
  OBVIOUS
<1>2. s \in Bijection(1 .. Len(s), Range(s))
  BY <1>1 DEF Bijection, Injection, Surjection, IsInjective, Range
<1>3. ExistsBijection(1 .. Len(s), Range(s))
  BY <1>2 DEF ExistsBijection
<1>4. IsFiniteSet(1 .. Len(s)) /\ Cardinality(1 .. Len(s)) = Len(s)
  BY <1>1, FS_Interval
<1> QED
  BY <1>3, <1>4, FS_Bijection

-----------------------------------------------------------------------------
(* Type correctness. *)

LEMMA TypeInit == Init => TypeOK
<1> SUFFICES ASSUME Init PROVE TypeOK
  OBVIOUS
<1>1. finished \in Seq(Job) /\ batch \in Seq(Job)
  BY DEF Init
<1>2. priority \in [Job -> Priority]
  BY PriorityAssumption DEF Init
<1>3. /\ worker \in [Worker -> {"ready", "waiting", "running", "exited"}]
      /\ hand \in [Worker -> Job \cup {NoJob}]
  BY DEF Init
<1>4. \A w \in Worker : worker[w] = "running" <=> hand[w] # NoJob
  BY DEF Init
<1>5. submitted \in 0 .. MaxJobs /\ outstanding \in Int
  BY MaxJobsAssumption DEF Init
<1> QED
  BY <1>1, <1>2, <1>3, <1>4, <1>5 DEF Init, TypeOK

LEMMA TypeNext == TypeOK /\ [Next]_vars => TypeOK'
<1> SUFFICES ASSUME TypeOK, [Next]_vars
             PROVE  TypeOK'
  OBVIOUS
<1> USE MaxJobsAssumption, PriorityAssumption DEF TypeOK, Job
<1>1. CASE UNCHANGED vars
  BY <1>1 DEF vars
<1>2. ASSUME NEW p \in Priority, Submit(p) PROVE TypeOK'
  BY <1>2 DEF Submit
<1>3. CASE NotifyOne
  BY <1>3 DEF NotifyOne, Waiting
<1>4. ASSUME NEW j \in Job, NEW p \in Priority, Reprioritise(j, p) PROVE TypeOK'
  BY <1>4 DEF Reprioritise
<1>5. CASE Drain
  <2>1. Range(finished) \subseteq Job
    BY RangeOfSeq
  <2>2. finished' \in Seq(Job) /\ batch' \in Seq(Job)
    BY <1>5 DEF Drain
  <2>3. outstanding' \in Int
    BY <1>5 DEF Drain
  <2> QED
    BY <1>5, <2>1, <2>2, <2>3 DEF Drain
<1>6. CASE Complete
  <2>1. batch' \in Seq(Job)
    BY <1>6 DEF Complete
  <2> QED
    BY <1>6, <2>1 DEF Complete
<1>7. CASE StopClear
  BY <1>7 DEF StopClear
<1>8. ASSUME NEW w \in Worker, RequestStop(w) PROVE TypeOK'
  BY <1>8 DEF RequestStop
<1>9. CASE StopJoined
  <2>1. finished' \in Seq(Job)
    BY <1>9 DEF StopJoined
  <2> QED
    BY <1>9, <2>1 DEF StopJoined
<1>10. CASE Stopped
  BY <1>10 DEF Stopped, vars
<1>11. ASSUME NEW w \in Worker, Take(w) PROVE TypeOK'
  BY <1>11 DEF Take, NoJob
<1>12. ASSUME NEW w \in Worker, Wait(w) PROVE TypeOK'
  BY <1>12 DEF Wait
<1>13. ASSUME NEW w \in Worker, Exit(w) PROVE TypeOK'
  BY <1>13 DEF Exit
<1>14. ASSUME NEW w \in Worker, SpuriousWake(w) PROVE TypeOK'
  BY <1>14 DEF SpuriousWake
<1>15. ASSUME NEW w \in Worker, Finish(w) PROVE TypeOK'
  <2>1. hand[w] \in Job
    BY <1>15 DEF Finish, NoJob
  <2>2. finished' \in Seq(Job)
    BY <1>15, <2>1 DEF Finish
  <2>3. /\ worker' \in [Worker -> {"ready", "waiting", "running", "exited"}]
        /\ hand' \in [Worker -> Job \cup {NoJob}]
        /\ (\A v \in Worker : worker[v] = "running" <=> hand[v] # NoJob)'
    BY <1>15 DEF Finish
  <2> QED
    BY <1>15, <2>2, <2>3 DEF Finish
<1> QED
  BY <1>1, <1>2, <1>3, <1>4, <1>5, <1>6, <1>7, <1>8, <1>9, <1>10, <1>11,
     <1>12, <1>13, <1>14, <1>15 DEF Next, Main, Thread

\* The pool's variables keep their types: every job it holds is one the
\* client submitted, and every thread is in a state of run().
THEOREM TypeCorrect == Spec => []TypeOK
BY TypeInit, TypeNext, PTL DEF Spec

-----------------------------------------------------------------------------
(* Each job is in one place, and outstanding_ counts the ones in play.  The  *)
(* facts of the main thread's phases and of the jobs picked up make the two  *)
(* inductive.                                                                *)

Phases ==
  /\ main # "draining" => batch = <<>>
  /\ ~Working => queued = {} /\ ~unnotified
  /\ Working => asked = {}
  /\ main = "stopped" => finished = <<>> /\ \A w \in Worker : worker[w] = "exited"

PickedUp ==
  /\ Running \cup Range(finished) \cup delivered \subseteq begun
  /\ queued \cap begun = {}
  /\ queued \cup begun \subseteq 1 .. submitted

PoolInv == TypeOK /\ Phases /\ PickedUp /\ EachJobOnce /\ OutstandingExact

\* A thread that changes state without a job in its hand leaves Running alone.
LEMMA RunningSame ==
  ASSUME hand' = hand,
         \A w \in Worker : worker[w] = "running" <=> worker'[w] = "running"
  PROVE  Running' = Running
BY DEF Running

LEMMA RunningTake ==
  ASSUME TypeOK, NEW w \in Worker, NEW j \in Job,
         worker[w] = "ready",
         hand' = [hand EXCEPT ![w] = j],
         worker' = [worker EXCEPT ![w] = "running"]
  PROVE  Running' = Running \cup {j}
<1>1. \A v \in Worker : v # w => hand'[v] = hand[v] /\ worker'[v] = worker[v]
  BY DEF TypeOK
<1>2. hand'[w] = j /\ worker'[w] = "running"
  BY DEF TypeOK
<1>3. ASSUME NEW i \in Running PROVE i \in Running'
  BY <1>1 DEF Running
<1>4. ASSUME NEW i \in Running' PROVE i \in Running \cup {j}
  BY <1>1, <1>2 DEF Running
<1>5. j \in Running'
  BY <1>2 DEF Running
<1> QED
  BY <1>3, <1>4, <1>5

LEMMA RunningFinish ==
  ASSUME TypeOK, EachJobOnce, NEW w \in Worker,
         worker[w] = "running",
         hand' = [hand EXCEPT ![w] = NoJob],
         worker' = [worker EXCEPT ![w] = "ready"]
  PROVE  /\ hand[w] \in Running
         /\ Running' = Running \ {hand[w]}
<1>1. \A v \in Worker : v # w => hand'[v] = hand[v] /\ worker'[v] = worker[v]
  BY DEF TypeOK
<1>2. worker'[w] = "ready"
  BY DEF TypeOK
<1>3. hand[w] \in Running
  BY DEF Running
<1>4. ASSUME NEW i \in Running \ {hand[w]} PROVE i \in Running'
  BY <1>1 DEF Running
<1>5. ASSUME NEW i \in Running' PROVE i \in Running \ {hand[w]}
  <2>1. PICK v \in Worker : worker'[v] = "running" /\ i = hand'[v]
    BY DEF Running
  <2>2. v # w
    BY <1>2, <2>1
  <2>3. worker[v] = "running" /\ i = hand[v]
    BY <1>1, <2>1, <2>2
  <2>4. hand[v] # hand[w]
    BY <2>2, <2>3 DEF EachJobOnce
  <2> QED
    BY <2>3, <2>4 DEF Running
<1> QED
  BY <1>3, <1>4, <1>5

LEMMA InPlayFinite ==
  ASSUME TypeOK, PickedUp
  PROVE  IsFiniteSet(InPlay)
<1>1. InPlay \subseteq 1 .. submitted
  BY DEF PickedUp, InPlay
<1>2. submitted \in Nat
  BY MaxJobsAssumption DEF TypeOK
<1>3. IsFiniteSet(1 .. submitted)
  BY <1>2, FS_Interval
<1> QED
  BY <1>1, <1>3, FS_Subset

LEMMA PoolInvInit == Init => PoolInv
<1> SUFFICES ASSUME Init PROVE PoolInv
  OBVIOUS
<1>1. TypeOK
  BY TypeInit
<1>2. Running = {} /\ Range(finished) = {} /\ DOMAIN finished = {}
  BY RangeEmpty DEF Init, Running
<1>3. InPlay = {}
  BY <1>2 DEF InPlay, Init
<1>4. OutstandingExact
  BY <1>3, FS_EmptySet DEF OutstandingExact, Init
<1>5. Phases
  BY DEF Phases, Init, Working
<1>6. PickedUp
  BY <1>2 DEF PickedUp, Init
<1>7. EachJobOnce
  BY <1>2, <1>3 DEF EachJobOnce, Init
<1> QED
  BY <1>1, <1>4, <1>5, <1>6, <1>7 DEF PoolInv

\* A step that moves no job keeps what is said of the jobs' places.
LEMMA Quiet ==
  ASSUME PoolInv, TypeOK', Phases',
         UNCHANGED <<queued, finished, delivered, submitted, outstanding, begun, hand>>,
         \A w \in Worker : worker[w] = "running" <=> worker'[w] = "running",
         Working' = Working,
         main' = "stopped" => main = "stopped"
  PROVE  PoolInv'
<1>1. Running' = Running
  BY RunningSame
<1>2. InPlay' = InPlay
  BY <1>1 DEF InPlay
<1>3. PickedUp'
  BY <1>1 DEF PoolInv, PickedUp
<1>4. EachJobOnce'
  BY <1>1, <1>2 DEF PoolInv, EachJobOnce
<1>5. OutstandingExact'
  BY <1>2 DEF PoolInv, OutstandingExact
<1> QED
  BY <1>3, <1>4, <1>5 DEF PoolInv

LEMMA PoolInvSubmit ==
  ASSUME PoolInv, TypeOK', NEW p \in Priority, Submit(p)
  PROVE  PoolInv'
<1> DEFINE j == submitted + 1
<1>1. /\ Working /\ main' = main
      /\ j \in Nat
      /\ j \notin 1 .. submitted
      /\ 1 .. j = (1 .. submitted) \cup {j}
  BY MaxJobsAssumption DEF Submit, PoolInv, TypeOK
<1>2. Running' = Running
  BY RunningSame DEF Submit
<1>3. /\ queued' = queued \cup {j}
      /\ UNCHANGED <<finished, delivered, begun, hand, worker>>
      /\ submitted' = j
      /\ outstanding' = outstanding + 1
  BY DEF Submit
<1>4. InPlay' = InPlay \cup {j}
  BY <1>2, <1>3 DEF InPlay
<1>5. j \notin queued \cup begun
  BY <1>1 DEF PoolInv, PickedUp
<1>6. j \notin Running \cup Range(finished) \cup delivered
  BY <1>5 DEF PoolInv, PickedUp
<1>7. Phases'
  BY <1>1, <1>3 DEF PoolInv, Phases, Working, Submit
<1>8. PickedUp'
  BY <1>1, <1>2, <1>3, <1>5 DEF PoolInv, PickedUp
<1>9. EachJobOnce'
  <2>1. InPlay \cup delivered = 1 .. submitted
    BY <1>1 DEF PoolInv, EachJobOnce
  <2>2. (InPlay \cup delivered)' = 1 .. submitted'
    BY <2>1, <1>1, <1>3, <1>4
  <2> QED
    BY <1>2, <1>3, <1>6, <2>2 DEF PoolInv, EachJobOnce
<1>10. OutstandingExact'
  <2>1. j \notin InPlay
    BY <1>5, <1>6 DEF InPlay
  <2>2. Cardinality(InPlay') = Cardinality(InPlay) + 1
    BY <2>1, <1>4, InPlayFinite, FS_AddElement DEF PoolInv
  <2>3. outstanding = Cardinality(InPlay)
    BY <1>1 DEF PoolInv, OutstandingExact
  <2>4. main' # "stopped"
    BY <1>1 DEF Working
  <2> QED
    BY <1>3, <2>2, <2>3, <2>4 DEF OutstandingExact
<1> QED
  BY <1>7, <1>8, <1>9, <1>10 DEF PoolInv

LEMMA PoolInvDrain ==
  ASSUME PoolInv, TypeOK', Drain
  PROVE  PoolInv'
<1>1. /\ main = "loop" /\ main' = "draining"
      /\ finished' = <<>>
      /\ delivered' = delivered \cup Range(finished)
      /\ outstanding' = outstanding - Len(finished)
      /\ UNCHANGED <<queued, begun, submitted, hand, worker, asked, unnotified>>
      /\ Working /\ Working'
  BY DEF Drain, Working
<1>2. Running' = Running
  BY <1>1, RunningSame
<1>3. Range(finished') = {} /\ DOMAIN finished' = {}
  BY <1>1, RangeEmpty
<1>4. /\ Range(finished) \subseteq InPlay
      /\ InPlay' = InPlay \ Range(finished)
  BY <1>1, <1>2, <1>3 DEF PoolInv, EachJobOnce, InPlay
<1>5. Phases'
  BY <1>1 DEF PoolInv, Phases, Working
<1>6. PickedUp'
  BY <1>1, <1>2, <1>3 DEF PoolInv, PickedUp
<1>7. EachJobOnce'
  BY <1>1, <1>2, <1>3, <1>4 DEF PoolInv, EachJobOnce
<1>8. OutstandingExact'
  <2>1. Cardinality(Range(finished)) = Len(finished)
    BY DistinctLength DEF PoolInv, TypeOK, EachJobOnce
  <2>2. Cardinality(InPlay') = Cardinality(InPlay) - Cardinality(InPlay \cap Range(finished))
    BY <1>4, InPlayFinite, FS_Difference DEF PoolInv
  <2>3. InPlay \cap Range(finished) = Range(finished)
    BY <1>4
  <2>4. outstanding = Cardinality(InPlay)
    BY <1>1 DEF PoolInv, OutstandingExact
  <2> QED
    BY <1>1, <2>1, <2>2, <2>3, <2>4 DEF OutstandingExact
<1> QED
  BY <1>5, <1>6, <1>7, <1>8 DEF PoolInv

LEMMA PoolInvStopClear ==
  ASSUME PoolInv, TypeOK', StopClear
  PROVE  PoolInv'
<1>1. /\ main = "loop" /\ main' = "stopping"
      /\ queued' = {} /\ ~unnotified
      /\ UNCHANGED <<finished, delivered, begun, submitted, hand, worker, unnotified, batch>>
      /\ ~Working'
  BY DEF StopClear, Working
<1>2. Running' = Running
  BY <1>1, RunningSame
<1>3. Phases'
  BY <1>1 DEF PoolInv, Phases, Working
<1>4. PickedUp' /\ EachJobOnce'
  BY <1>1, <1>2 DEF PoolInv, PickedUp, EachJobOnce
<1>5. OutstandingExact'
  BY <1>1 DEF OutstandingExact
<1> QED
  BY <1>3, <1>4, <1>5 DEF PoolInv

LEMMA PoolInvStopJoined ==
  ASSUME PoolInv, TypeOK', StopJoined
  PROVE  PoolInv'
<1>1. /\ main = "stopping" /\ main' = "stopped"
      /\ finished' = <<>> /\ outstanding' = 0
      /\ UNCHANGED <<queued, delivered, begun, submitted, hand, worker, unnotified, batch>>
      /\ \A w \in Worker : worker[w] = "exited"
      /\ ~Working /\ ~Working'
  BY DEF StopJoined, Working
<1>2. Running' = Running
  BY <1>1, RunningSame
<1>3. Range(finished') = {} /\ DOMAIN finished' = {}
  BY <1>1, RangeEmpty
<1>4. Phases'
  BY <1>1 DEF PoolInv, Phases, Working
<1>5. PickedUp' /\ EachJobOnce'
  BY <1>1, <1>2, <1>3 DEF PoolInv, PickedUp, EachJobOnce
<1>6. OutstandingExact'
  BY <1>1 DEF OutstandingExact
<1> QED
  BY <1>4, <1>5, <1>6 DEF PoolInv

LEMMA PoolInvTake ==
  ASSUME PoolInv, TypeOK', NEW w \in Worker, Take(w)
  PROVE  PoolInv'
<1>1. PICK j \in queued :
        /\ queued' = queued \ {j}
        /\ hand' = [hand EXCEPT ![w] = j]
        /\ begun' = begun \cup {j}
  BY DEF Take
<1>2. /\ worker[w] = "ready"
      /\ worker' = [worker EXCEPT ![w] = "running"]
      /\ UNCHANGED <<finished, delivered, submitted, outstanding, main, asked, unnotified, batch>>
  BY DEF Take
<1>3. j \in Job
  BY DEF PoolInv, TypeOK
<1>4. Running' = Running \cup {j}
  BY <1>1, <1>2, <1>3, RunningTake DEF PoolInv
<1>5. Working
  BY <1>1 DEF PoolInv, Phases
<1>6. Working'
  BY <1>2, <1>5 DEF Working
<1>7. j \notin begun
  BY DEF PoolInv, PickedUp
<1>8. j \notin Running \cup Range(finished) \cup delivered
  BY <1>7 DEF PoolInv, PickedUp
<1>9. Phases'
  BY <1>1, <1>2, <1>5, <1>6 DEF PoolInv, Phases, Working
<1>10. PickedUp'
  BY <1>1, <1>2, <1>4 DEF PoolInv, PickedUp
<1>11. InPlay' = InPlay
  BY <1>1, <1>2, <1>4 DEF InPlay
<1>12. ASSUME NEW u \in Worker, NEW v \in Worker,
              worker'[u] = "running", worker'[v] = "running", hand'[u] = hand'[v]
       PROVE  u = v
  <2>1. \A x \in Worker : x # w => hand'[x] = hand[x] /\ worker'[x] = worker[x]
    BY <1>1, <1>2 DEF PoolInv, TypeOK
  <2>2. hand'[w] = j
    BY <1>1 DEF PoolInv, TypeOK
  <2>3. \A x \in Worker : x # w /\ worker'[x] = "running" => hand'[x] \in Running
    BY <2>1 DEF Running
  <2> QED
    BY <1>8, <1>12, <2>1, <2>2, <2>3 DEF PoolInv, EachJobOnce
<1>13. EachJobOnce'
  BY <1>1, <1>2, <1>4, <1>5, <1>8, <1>11, <1>12 DEF PoolInv, EachJobOnce
<1>14. OutstandingExact'
  BY <1>2, <1>5, <1>11 DEF PoolInv, OutstandingExact, Working
<1> QED
  BY <1>9, <1>10, <1>13, <1>14 DEF PoolInv

LEMMA PoolInvFinish ==
  ASSUME PoolInv, TypeOK', NEW w \in Worker, Finish(w)
  PROVE  PoolInv'
<1> DEFINE j == hand[w]
<1>1. /\ worker[w] = "running"
      /\ finished' = Append(finished, j)
      /\ hand' = [hand EXCEPT ![w] = NoJob]
      /\ worker' = [worker EXCEPT ![w] = "ready"]
      /\ UNCHANGED <<queued, begun, delivered, submitted, outstanding, main, asked, unnotified, batch>>
  BY DEF Finish
<1>2. j \in Job
  BY <1>1 DEF PoolInv, TypeOK, NoJob
<1>3. j \in Running /\ Running' = Running \ {j}
  BY <1>1, RunningFinish DEF PoolInv
<1>4. finished \in Seq(Job)
  BY DEF PoolInv, TypeOK
<1>5. Range(finished') = Range(finished) \cup {j}
  BY <1>1, <1>2, <1>4, RangeAppend
<1>6. InPlay' = InPlay
  BY <1>1, <1>3, <1>5 DEF InPlay
<1>7. j \notin Range(finished) \cup delivered \cup queued
  BY <1>3 DEF PoolInv, EachJobOnce
<1>8. main # "stopped"
  BY <1>1 DEF PoolInv, Phases
<1>9. Phases'
  BY <1>1, <1>8 DEF PoolInv, Phases, Working
<1>10. PickedUp'
  BY <1>1, <1>3, <1>5 DEF PoolInv, PickedUp
<1>11. ASSUME NEW i \in DOMAIN finished', NEW k \in DOMAIN finished',
              finished'[i] = finished'[k]
       PROVE  i = k
  <2>1. /\ DOMAIN finished = 1 .. Len(finished)
        /\ Len(finished) \in Nat
        /\ DOMAIN finished' = 1 .. Len(finished) + 1
        /\ \A n \in 1 .. Len(finished) : finished'[n] = finished[n]
        /\ finished'[Len(finished) + 1] = j
    BY <1>1, <1>4
  <2>2. \A n \in 1 .. Len(finished) : finished[n] # j
    BY <1>7, <2>1 DEF Range
  <2> QED
    BY <1>11, <2>1, <2>2 DEF PoolInv, EachJobOnce
<1>12. ASSUME NEW u \in Worker, NEW v \in Worker,
              worker'[u] = "running", worker'[v] = "running", hand'[u] = hand'[v]
       PROVE  u = v
  BY <1>1, <1>12 DEF PoolInv, TypeOK, EachJobOnce
<1>13. EachJobOnce'
  <2>1. Working' = Working
    BY <1>1 DEF Working
  <2> QED
    BY <1>1, <1>3, <1>5, <1>6, <1>7, <1>11, <1>12, <2>1 DEF PoolInv, EachJobOnce
<1>14. OutstandingExact'
  BY <1>1, <1>6, <1>8 DEF PoolInv, OutstandingExact, Working
<1> QED
  BY <1>9, <1>10, <1>13, <1>14 DEF PoolInv

LEMMA PoolInvNext == PoolInv /\ [Next]_vars => PoolInv'
<1> SUFFICES ASSUME PoolInv, [Next]_vars PROVE PoolInv'
  OBVIOUS
<1>0. TypeOK'
  BY TypeNext DEF PoolInv
<1>1. CASE UNCHANGED vars
  BY <1>0, <1>1, Quiet DEF vars, PoolInv, Phases, Working
<1>2. ASSUME NEW p \in Priority, Submit(p) PROVE PoolInv'
  BY <1>0, <1>2, PoolInvSubmit
<1>3. CASE NotifyOne
  <2>1. \A w \in Worker : worker[w] = "running" <=> worker'[w] = "running"
    BY <1>3 DEF NotifyOne, Waiting, PoolInv, TypeOK
  <2>2. Phases'
    BY <1>3 DEF NotifyOne, Waiting, PoolInv, Phases, Working
  <2> QED
    BY <1>0, <1>3, <2>1, <2>2, Quiet DEF NotifyOne, Working
<1>4. ASSUME NEW j \in Job, NEW p \in Priority, Reprioritise(j, p) PROVE PoolInv'
  BY <1>0, <1>4, Quiet DEF Reprioritise, PoolInv, Phases, Working
<1>5. CASE Drain
  BY <1>0, <1>5, PoolInvDrain
<1>6. CASE Complete
  <2>1. Phases'
    BY <1>6 DEF Complete, PoolInv, Phases, Working
  <2> QED
    BY <1>0, <1>6, <2>1, Quiet DEF Complete, Working
<1>7. CASE StopClear
  BY <1>0, <1>7, PoolInvStopClear
<1>8. ASSUME NEW w \in Worker, RequestStop(w) PROVE PoolInv'
  <2>1. \A v \in Worker : worker[v] = "running" <=> worker'[v] = "running"
    BY <1>8 DEF RequestStop, PoolInv, TypeOK
  <2>2. Phases'
    BY <1>8 DEF RequestStop, PoolInv, Phases, Working
  <2> QED
    BY <1>0, <1>8, <2>1, <2>2, Quiet DEF RequestStop, Working
<1>9. CASE StopJoined
  BY <1>0, <1>9, PoolInvStopJoined
<1>10. CASE Stopped
  BY <1>1, <1>10 DEF Stopped
<1>11. ASSUME NEW w \in Worker, Take(w) PROVE PoolInv'
  BY <1>0, <1>11, PoolInvTake
<1>12. ASSUME NEW w \in Worker, Wait(w) \/ Exit(w) \/ SpuriousWake(w) PROVE PoolInv'
  <2>1. \A v \in Worker : worker[v] = "running" <=> worker'[v] = "running"
    BY <1>12 DEF Wait, Exit, SpuriousWake, PoolInv, TypeOK
  <2>2. Phases'
    BY <1>12 DEF Wait, Exit, SpuriousWake, PoolInv, TypeOK, Phases, Working
  <2> QED
    BY <1>0, <1>12, <2>1, <2>2, Quiet DEF Wait, Exit, SpuriousWake, Working
<1>13. ASSUME NEW w \in Worker, Finish(w) PROVE PoolInv'
  BY <1>0, <1>13, PoolInvFinish
<1> QED
  BY <1>1, <1>2, <1>3, <1>4, <1>5, <1>6, <1>7, <1>8, <1>9, <1>10, <1>11,
     <1>12, <1>13 DEF Next, Main, Thread

LEMMA PoolInvariant == Spec => []PoolInv
BY PoolInvInit, PoolInvNext, PTL DEF Spec

\* outstanding() is exact: the jobs queued, in a thread's hand and finished,
\* none forgotten and none counted twice, whatever the threads do.
THEOREM OutstandingCorrect == Spec => []OutstandingExact
BY PoolInvariant, PTL DEF PoolInv

\* A submitted job is in one place at a time and is never lost while the pool
\* is open, so it runs once and its completion is drained once.
THEOREM EachJobRunsOnce == Spec => []EachJobOnce
BY PoolInvariant, PTL DEF PoolInv

\* When stop() returns no thread, queued job or undrained completion is left.
THEOREM StopLeavesNothing == Spec => []StoppedIsQuiet
<1>1. PoolInv => StoppedIsQuiet
  BY DEF PoolInv, Phases, StoppedIsQuiet, Working
<1> QED
  BY <1>1, PoolInvariant, PTL

\* Whatever the threads do, the pool's books are right: each job is in one
\* place, outstanding() counts them, and stop() leaves none.
THEOREM JobsStayAccounted == Spec => []JobsAccounted
BY TypeCorrect, OutstandingCorrect, EachJobRunsOnce, StopLeavesNothing, PTL DEF JobsAccounted

-----------------------------------------------------------------------------
(* Stopping. *)

\* Once stop() has begun no thread picks up a job: the queue was emptied first
\* and nothing submits any more.
THEOREM StopStartsNothing == Spec => NoStartAfterStop
<1> DEFINE A == ~Working => ~ \E w \in Worker : PicksUp(w)
<1>1. ASSUME PoolInv, [Next]_vars, ~Working, NEW w \in Worker
      PROVE  ~PicksUp(w)
  <2> SUFFICES ASSUME PicksUp(w) PROVE FALSE
    OBVIOUS
  <2>1. worker[w] # "running" /\ worker'[w] = "running"
    BY DEF PicksUp
  <2>2. queued = {} /\ main \notin {"loop", "draining"} /\ ~unnotified
    BY <1>1 DEF PoolInv, Phases, Working
  <2>3. worker \in [Worker -> {"ready", "waiting", "running", "exited"}]
    BY <1>1 DEF PoolInv, TypeOK
  <2>4. CASE \E v \in Worker : RequestStop(v)
    BY <2>1, <2>3, <2>4 DEF RequestStop
  <2>5. CASE UNCHANGED worker
    BY <2>1, <2>5
  <2>6. CASE \E v \in Worker : Thread(v)
    BY <2>1, <2>2, <2>3, <2>6 DEF Thread, Take, Wait, Exit, SpuriousWake, Finish
  <2> QED
    BY <1>1, <2>2, <2>4, <2>5, <2>6 DEF Next, Main, vars, Submit, NotifyOne,
       Reprioritise, Drain, Complete, StopClear, StopJoined, Stopped, Working
<1>2. PoolInv /\ [Next]_vars => [A]_vars
  BY <1>1
<1> QED
  BY <1>2, PoolInvariant, PTL DEF Spec, NoStartAfterStop

-----------------------------------------------------------------------------
(* No job is stranded beside a sleeping thread. *)

LEMMA AwakeFinite == IsFiniteSet(Awake) /\ Cardinality(Awake) \in Nat
<1>1. Awake \subseteq Worker
  BY DEF Awake
<1> QED
  BY <1>1, WorkerAssumption, FS_Subset, FS_CardinalityType

LEMMA QueuedFinite ==
  ASSUME TypeOK
  PROVE  IsFiniteSet(queued) /\ Cardinality(queued) \in Nat
<1>1. IsFiniteSet(Job)
  BY MaxJobsAssumption, FS_Interval DEF Job
<1>2. queued \subseteq Job
  BY DEF TypeOK
<1> QED
  BY <1>1, <1>2, FS_Subset, FS_CardinalityType

WakeInv == PoolInv /\ NoLostWakeup

\* A thread that becomes ready only makes room.
LEMMA WakeOne ==
  ASSUME WakeInv, NEW w \in Worker, worker[w] # "ready",
         worker' = [worker EXCEPT ![w] = "ready"],
         Waiting # {},
         UNCHANGED queued,
         unnotified' => unnotified
  PROVE  NoLostWakeup'
<1>1. Awake' = Awake \cup {w} /\ w \notin Awake
  BY DEF Awake, WakeInv, PoolInv, TypeOK
<1>2. Cardinality(Awake') = Cardinality(Awake) + 1
  BY <1>1, AwakeFinite, FS_AddElement
<1>3. Cardinality(queued) <= Cardinality(Awake) + (IF unnotified THEN 1 ELSE 0)
  BY DEF WakeInv, NoLostWakeup
<1>4. Cardinality(queued) \in Nat /\ Cardinality(Awake) \in Nat
  BY AwakeFinite, QueuedFinite DEF WakeInv, PoolInv
<1>5. queued' = queued
  OBVIOUS
<1>6. Cardinality(queued') <= Cardinality(Awake') + (IF unnotified' THEN 1 ELSE 0)
  BY <1>2, <1>3, <1>4, <1>5
<1> QED
  BY <1>6 DEF NoLostWakeup

LEMMA EmptyQueueWakes ==
  ASSUME queued = {}
  PROVE  NoLostWakeup
<1>1. Cardinality(queued) = 0
  BY FS_EmptySet
<1> QED
  BY <1>1, AwakeFinite DEF NoLostWakeup

LEMMA WakeSubmit ==
  ASSUME WakeInv, NEW p \in Priority, Submit(p)
  PROVE  NoLostWakeup'
<1>1. /\ queued' = queued \cup {submitted + 1}
      /\ ~unnotified /\ unnotified' = TRUE
      /\ worker' = worker
  BY DEF Submit
<1>2. Awake' = Awake /\ Waiting' = Waiting
  BY <1>1 DEF Awake, Waiting
<1>3. IsFiniteSet(queued) /\ Cardinality(queued) \in Nat /\ Cardinality(Awake) \in Nat
  <2>1. TypeOK
    BY DEF WakeInv, PoolInv
  <2> QED
    BY <2>1, AwakeFinite, QueuedFinite
<1>4. Cardinality(queued') \in {Cardinality(queued), Cardinality(queued) + 1}
  <2>1. Cardinality(queued \cup {submitted + 1})
          = IF submitted + 1 \in queued THEN Cardinality(queued) ELSE Cardinality(queued) + 1
    BY <1>3, FS_AddElement, Zenon
  <2> QED
    BY <1>1, <2>1
<1> QED
  BY <1>1, <1>2, <1>3, <1>4 DEF WakeInv, NoLostWakeup

LEMMA WakeTake ==
  ASSUME WakeInv, NEW w \in Worker, Take(w)
  PROVE  NoLostWakeup'
<1>1. PICK j \in queued : queued' = queued \ {j}
  BY DEF Take
<1>2. /\ worker[w] = "ready"
      /\ worker' = [worker EXCEPT ![w] = "running"]
      /\ unnotified' = unnotified
  BY DEF Take
<1>3. Awake' = Awake \ {w} /\ w \in Awake /\ Waiting' = Waiting
  BY <1>2 DEF Awake, Waiting, WakeInv, PoolInv, TypeOK
<1>4. Cardinality(Awake') = Cardinality(Awake) - 1
  BY <1>3, AwakeFinite, FS_RemoveElement
<1>5. Cardinality(queued') = Cardinality(queued) - 1
  BY <1>1, QueuedFinite, FS_RemoveElement DEF WakeInv, PoolInv
<1>6. Cardinality(queued) \in Nat /\ Cardinality(Awake) \in Nat
  BY AwakeFinite, QueuedFinite DEF WakeInv, PoolInv
<1> QED
  BY <1>2, <1>3, <1>4, <1>5, <1>6 DEF WakeInv, NoLostWakeup

LEMMA WakeNext == WakeInv /\ [Next]_vars => WakeInv'
<1> SUFFICES ASSUME WakeInv, [Next]_vars PROVE NoLostWakeup'
  BY PoolInvNext DEF WakeInv
<1>0. TypeOK /\ Phases
  BY DEF WakeInv, PoolInv
<1>1. ASSUME UNCHANGED <<queued, worker, unnotified>> PROVE NoLostWakeup'
  BY <1>1 DEF WakeInv, NoLostWakeup, Awake, Waiting
<1>2. ASSUME NEW p \in Priority, Submit(p) PROVE NoLostWakeup'
  BY <1>2, WakeSubmit
<1>3. CASE NotifyOne
  <2>1. unnotified /\ ~unnotified' /\ queued' = queued
    BY <1>3 DEF NotifyOne
  <2>2. CASE Waiting = {} /\ UNCHANGED worker
    BY <2>2 DEF NoLostWakeup, Waiting
  <2>3. ASSUME NEW w \in Waiting, worker' = [worker EXCEPT ![w] = "ready"]
        PROVE  NoLostWakeup'
    BY <2>1, <2>3, WakeOne DEF Waiting
  <2> QED
    BY <1>3, <2>2, <2>3 DEF NotifyOne
<1>4. CASE StopClear
  <2>1. queued' = {}
    BY <1>4 DEF StopClear
  <2>2. Cardinality(queued') = 0
    BY <2>1, FS_EmptySet
  <2>3. Awake' = Awake
    BY <1>4 DEF StopClear, Awake
  <2> QED
    BY <2>2, <2>3, AwakeFinite DEF NoLostWakeup
<1>5. ASSUME NEW w \in Worker, RequestStop(w) PROVE NoLostWakeup'
  <2>1. queued = {} /\ queued' = queued
    BY <1>0, <1>5 DEF RequestStop, Phases, Working
  <2>2. Cardinality(queued') = 0
    BY <2>1, FS_EmptySet
  <2>3. IsFiniteSet(Awake')
    BY WorkerAssumption, FS_Subset DEF Awake
  <2>4. Cardinality(Awake') \in Nat
    BY <2>3, FS_CardinalityType
  <2> QED
    BY <2>2, <2>4 DEF NoLostWakeup
<1>6. ASSUME NEW w \in Worker, Take(w) PROVE NoLostWakeup'
  BY <1>6, WakeTake
<1>7. ASSUME NEW w \in Worker, Wait(w) \/ Exit(w) PROVE NoLostWakeup'
  <2>1. queued = {} /\ queued' = queued
    BY <1>7 DEF Wait, Exit
  <2>2. Cardinality(queued') = 0
    BY <2>1, FS_EmptySet
  <2>3. IsFiniteSet(Awake')
    BY WorkerAssumption, FS_Subset DEF Awake
  <2>4. Cardinality(Awake') \in Nat
    BY <2>3, FS_CardinalityType
  <2> QED
    BY <2>2, <2>4 DEF NoLostWakeup
<1>8. ASSUME NEW w \in Worker, SpuriousWake(w) PROVE NoLostWakeup'
  <2>1. w \in Waiting
    BY <1>8 DEF SpuriousWake, Waiting
  <2> QED
    BY <1>8, <2>1, WakeOne DEF SpuriousWake
<1>9. ASSUME NEW w \in Worker, Finish(w) PROVE NoLostWakeup'
  <2>1. CASE Waiting = {}
    <3>1. Waiting' = {}
      BY <1>0, <1>9, <2>1 DEF Finish, Waiting, TypeOK
    <3> QED
      BY <3>1 DEF NoLostWakeup
  <2>2. CASE Waiting # {}
    BY <1>9, <2>2, WakeOne DEF Finish
  <2> QED
    BY <2>1, <2>2
<1> QED
  BY <1>1, <1>2, <1>3, <1>4, <1>5, <1>6, <1>7, <1>8, <1>9
     DEF Next, Main, Thread, vars, Reprioritise, Drain, Complete, StopJoined, Stopped

\* While a thread sleeps every queued job has an awake thread, or the notify
\* of its own submit, coming for it.
THEOREM NoStrandedJob == Spec => []NoLostWakeup
<1>1. Init => WakeInv
  BY PoolInvInit, EmptyQueueWakes DEF Init, WakeInv
<1>2. WakeInv => NoLostWakeup
  BY DEF WakeInv
<1> QED
  BY <1>1, <1>2, WakeNext, PTL DEF Spec

-----------------------------------------------------------------------------
(* The refinement. *)

\* Each step of the pool is a step of JobService, or none of its business.
LEMMA ServiceStep == PoolInv /\ PoolInv' /\ [Next]_vars => [Service!Next]_(Service!vars)
<1> SUFFICES ASSUME PoolInv, PoolInv', [Next]_vars
             PROVE  Service!Next \/ UNCHANGED Service!vars
  OBVIOUS
<1> DEFINE pend == IF main = "stopped" THEN {} ELSE InPlay
<1>1. ASSUME UNCHANGED <<pend, begun, delivered, Working>>
      PROVE  UNCHANGED Service!vars
  BY <1>1 DEF Service!vars
<1>2. ASSUME UNCHANGED <<queued, finished, begun, delivered, main>>, Running' = Running
      PROVE  UNCHANGED Service!vars
  BY <1>2 DEF Service!vars, InPlay, Working
<1>3. ASSUME NEW p \in Priority, Submit(p) PROVE Service!Next
  <2> DEFINE j == submitted + 1
  <2>1. /\ Working /\ main' = main /\ main # "stopped"
        /\ queued' = queued \cup {j}
        /\ UNCHANGED <<finished, delivered, begun>>
        /\ j \in Job
    BY <1>3, MaxJobsAssumption DEF Submit, Working, PoolInv, TypeOK, Job
  <2>2. Running' = Running
    BY <1>3, RunningSame DEF Submit
  <2>3. j \notin InPlay \cup begun
    BY <2>1 DEF PoolInv, PickedUp, InPlay, TypeOK
  <2>4. InPlay' = InPlay \cup {j}
    BY <2>1, <2>2 DEF InPlay
  <2>5. Working' = Working
    BY <2>1 DEF Working
  <2>6. Service!Submit(j)
    BY <2>1, <2>3, <2>4, <2>5 DEF Service!Submit
  <2> QED
    BY <2>1, <2>6 DEF Service!Next
<1>4. CASE Drain
  <2>1. /\ main = "loop" /\ main' = "draining" /\ Working /\ Working'
        /\ finished' = <<>>
        /\ delivered' = delivered \cup Range(finished)
        /\ UNCHANGED <<queued, begun, hand, worker>>
    BY <1>4 DEF Drain, Working
  <2>2. Running' = Running
    BY <2>1, RunningSame
  <2>3. InPlay' = InPlay \ Range(finished) /\ Range(finished) \subseteq InPlay \cap begun
    BY <2>1, <2>2, RangeEmpty DEF InPlay, PoolInv, PickedUp, EachJobOnce
  <2>4. Service!Deliver(Range(finished))
    BY <2>1, <2>3 DEF Service!Deliver, Working
  <2>5. Range(finished) \in SUBSET pend
    BY <2>1, <2>3
  <2> QED
    BY <2>4, <2>5 DEF Service!Next
<1>5. CASE StopClear
  <2>1. /\ main = "loop" /\ main' = "stopping" /\ Working /\ ~Working'
        /\ queued' = {}
        /\ UNCHANGED <<finished, delivered, begun, hand, worker>>
    BY <1>5 DEF StopClear, Working
  <2>2. Running' = Running
    BY <2>1, RunningSame
  <2>3. InPlay' = InPlay \cap begun
    BY <2>1, <2>2 DEF InPlay, PoolInv, PickedUp
  <2>4. Service!Close
    BY <2>1, <2>3 DEF Service!Close
  <2> QED
    BY <2>4 DEF Service!Next
<1>6. CASE StopJoined
  <2>1. main' = "stopped" /\ ~Working /\ ~Working' /\ UNCHANGED <<delivered, begun>>
    BY <1>6 DEF StopJoined, Working
  <2>2. Working = FALSE /\ Working' = FALSE
    BY <1>6 DEF StopJoined, Working
  <2>3. (IF main = "stopped" THEN {} ELSE InPlay)' = {}
    BY <2>1
  <2>4. Service!Drop
    BY <2>1, <2>2, <2>3 DEF Service!Drop
  <2> QED
    BY <2>4 DEF Service!Next
<1>7. ASSUME NEW w \in Worker, Take(w) PROVE Service!Next
  <2>1. PICK j \in queued :
          /\ queued' = queued \ {j}
          /\ hand' = [hand EXCEPT ![w] = j]
          /\ begun' = begun \cup {j}
    BY <1>7 DEF Take
  <2>2. /\ worker[w] = "ready"
        /\ worker' = [worker EXCEPT ![w] = "running"]
        /\ UNCHANGED <<finished, delivered, main>>
    BY <1>7 DEF Take
  <2>3. j \in Job
    BY DEF PoolInv, TypeOK
  <2>4. Running' = Running \cup {j}
    BY <2>1, <2>2, <2>3, RunningTake DEF PoolInv
  <2>5. Working /\ Working'
    BY <2>1, <2>2 DEF PoolInv, Phases, Working
  <2>6. InPlay' = InPlay /\ j \in InPlay \ begun
    BY <2>1, <2>2, <2>4 DEF InPlay, PoolInv, PickedUp
  <2>7. Service!Start(j)
    BY <2>1, <2>2, <2>5, <2>6 DEF Service!Start, Working
  <2> QED
    BY <2>3, <2>7 DEF Service!Next
<1>8. ASSUME NEW w \in Worker, Finish(w) PROVE UNCHANGED Service!vars
  <2>1. /\ worker[w] = "running"
        /\ hand' = [hand EXCEPT ![w] = NoJob]
        /\ worker' = [worker EXCEPT ![w] = "ready"]
        /\ finished' = Append(finished, hand[w])
        /\ UNCHANGED <<queued, begun, delivered, main>>
    BY <1>8 DEF Finish
  <2>2. hand[w] \in Running /\ Running' = Running \ {hand[w]}
    BY <2>1, RunningFinish DEF PoolInv
  <2>3. hand[w] \in Job /\ finished \in Seq(Job)
    BY <2>1 DEF PoolInv, TypeOK, NoJob
  <2>4. Range(finished') = Range(finished) \cup {hand[w]}
    BY <2>1, <2>3, RangeAppend
  <2>5. InPlay' = InPlay
    BY <2>1, <2>2, <2>4 DEF InPlay
  <2> QED
    BY <2>1, <2>5, <1>1 DEF Working
<1>9. CASE NotifyOne
  <2>1. \A w \in Worker : worker[w] = "running" <=> worker'[w] = "running"
    BY <1>9 DEF NotifyOne, Waiting, PoolInv, TypeOK
  <2> QED
    BY <1>2, <1>9, <2>1, RunningSame DEF NotifyOne
<1>10. ASSUME NEW w \in Worker,
              RequestStop(w) \/ Wait(w) \/ Exit(w) \/ SpuriousWake(w)
       PROVE  UNCHANGED Service!vars
  <2>1. \A v \in Worker : worker[v] = "running" <=> worker'[v] = "running"
    BY <1>10 DEF RequestStop, Wait, Exit, SpuriousWake, PoolInv, TypeOK
  <2> QED
    BY <1>2, <1>10, <2>1, RunningSame DEF RequestStop, Wait, Exit, SpuriousWake
<1>11. CASE Complete
  <2>1. UNCHANGED <<queued, finished, begun, delivered, hand, worker>>
    BY <1>11 DEF Complete
  <2>2. Running' = Running
    BY <2>1, RunningSame
  <2>3. main # "stopped" /\ main' # "stopped" /\ Working /\ Working'
    BY <1>11 DEF Complete, Working
  <2> QED
    BY <1>1, <2>1, <2>2, <2>3 DEF InPlay
<1>12. ASSUME UNCHANGED <<queued, finished, begun, delivered, main, hand, worker>>
       PROVE  UNCHANGED Service!vars
  BY <1>2, <1>12, RunningSame
<1> QED
  BY <1>3, <1>4, <1>5, <1>6, <1>7, <1>8, <1>9, <1>10, <1>11, <1>12
     DEF Next, Main, Thread, vars, Reprioritise, Stopped

LEMMA ServiceInit == Init => Service!Init
BY RangeEmpty DEF Init, Service!Init, InPlay, Running, Working

\* The pool implements the abstract service: a job is started and delivered at
\* most once, delivered only after it was started, and neither once the pool
\* is being stopped.
THEOREM PoolImplementsService == Spec => ImplementsJobService
BY ServiceInit, ServiceStep, PoolInvariant, PTL
   DEF Spec, ImplementsJobService, Service!Spec

=============================================================================
