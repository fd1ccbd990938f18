------------------------------- MODULE GpuSync ------------------------------
(***************************************************************************)
(* What Vulkan asks of the commands of one queue, followed on one image or *)
(* buffer: that every access finds it in the layout it names and ordered   *)
(* after the accesses it must not overtake, and what it finds in it.       *)
(* Commands run as they like unless a barrier orders them, in the same     *)
(* submission or a later one.  Stages come as coarse as the engine's       *)
(* barriers name them.                                                     *)
(***************************************************************************)
EXTENDS Naturals, FiniteSets, Sequences

Stages == {"copy", "blit", "depth", "colour", "compute", "fragment", "host"}

\* A resource: its layout; what it holds; the stage of the last write, or of
\* the semaphore or the transition in its place; where that write is visible;
\* where what follows waits for the reads each stage has made since; and what
\* has gone wrong.
Fresh(layout) ==
  [layout |-> layout, holds |-> "nothing", writer |-> "nobody", visible |-> {},
   after |-> [s \in Stages |-> Stages], faults |-> {}]

\* An image out of vkAcquireNextImageKHR, its semaphore waited for at a stage.
Acquired(stage) == [Fresh("undefined") EXCEPT !.writer = "semaphore", !.visible = {stage}]

\* vkDeviceWaitIdle, or a fence: nothing is left to wait for.
Settled(r) == [r EXCEPT !.writer = "nobody", !.visible = {}, !.after = [s \in Stages |-> Stages]]

-----------------------------------------------------------------------------
(* Barriers: sets of dependencies, which take effect together *)

\* flush: the source access mask names the writes.
Transition(image, from, to, src, dst, flush) ==
  [of |-> image, from |-> from, to |-> to, src |-> src, dst |-> dst, flush |-> flush]

Memory(src, dst, flush) == Transition("memory", "any", "any", src, dst, flush)

\* The first scope of d reaches the reads made at s.
Reaches(r, d, s) == s \in d.src \/ r.after[s] \cap d.src # {}

\* It reaches the last write, and what was written is or is made available.
Flushes(r, d) == r.visible \cap d.src # {} \/ (d.flush /\ r.writer \in d.src)

Ordered(r, d) ==
  /\ r.writer = "nobody" \/ Flushes(r, d)
  /\ \A s \in Stages : r.after[s] = Stages \/ Reaches(r, d, s)

\* A transition reads and writes the image.
Moved(r, d) ==
  [layout |-> d.to,
   holds |-> IF d.from = "undefined" THEN "nothing" ELSE r.holds,
   writer |-> "transition", visible |-> d.dst,
   after |-> [s \in Stages |-> Stages],
   faults |-> r.faults
     \cup (IF d.from \in {"undefined", r.layout} THEN {} ELSE {"layout"})
     \cup (IF Ordered(r, d) THEN {} ELSE {"unordered"})]

\* What the dependencies of others, and the memory barriers, do for it.
Waited(r, ds) ==
  [r EXCEPT
     !.visible = @ \cup UNION {d.dst : d \in {e \in ds : e.of = "memory" /\ Flushes(r, e)}},
     !.after = [s \in Stages |->
                  @[s] \cup UNION {d.dst : d \in {e \in ds : Reaches(r, e, s)}}]]

AfterBarrier(r, image, ds) ==
  IF \E d \in ds : d.of = image
  THEN Moved(r, CHOOSE d \in ds : d.of = image)
  ELSE Waited(r, ds)

-----------------------------------------------------------------------------
(* Passes and copies: sets of accesses *)

Read(stage, of, layout, contents) ==
  [of |-> of, stage |-> stage, layout |-> layout, contents |-> contents, writes |-> FALSE]

Write(stage, of, layout, holds) ==
  [of |-> of, stage |-> stage, layout |-> layout, contents |-> {holds}, writes |-> TRUE]

Update(stage, of, layout, contents, holds) ==
  {Read(stage, of, layout, contents), Write(stage, of, layout, holds)}

Faults(r, a) ==
  (IF a.layout = r.layout THEN {} ELSE {"layout"})
  \cup (IF r.writer = "nobody" \/ a.stage \in r.visible THEN {} ELSE {"unordered"})
  \cup (IF a.writes /\ \E s \in Stages : a.stage \notin r.after[s] THEN {"unordered"} ELSE {})
  \cup (IF ~a.writes /\ r.holds \notin a.contents THEN {"stale"} ELSE {})

AfterAccesses(r, as) ==
  LET faults == r.faults \cup UNION {Faults(r, a) : a \in as}
      readers == {a.stage : a \in {x \in as : ~x.writes}}
  IN
  IF \E a \in as : a.writes
  THEN LET w == CHOOSE a \in as : a.writes
       IN [Fresh(r.layout) EXCEPT !.holds = CHOOSE h \in w.contents : TRUE,
                                  !.writer = w.stage, !.faults = faults]
  ELSE [r EXCEPT !.faults = faults,
                 !.after = [s \in Stages |-> IF s \in readers THEN {} ELSE @[s]]]

-----------------------------------------------------------------------------

Barrier(ds) == [op |-> "barrier", what |-> ds]
Pass(as) == [op |-> "pass", what |-> as]

\* What a command does to the resource.
After(r, of, command) ==
  IF command.op = "barrier" THEN AfterBarrier(r, of, command.what)
  ELSE LET mine == {a \in command.what : a.of = of}
       IN IF mine = {} THEN r ELSE AfterAccesses(r, mine)

\* What a command buffer does.
Run(r, of, commands) ==
  LET after[k \in 0 .. Len(commands)] ==
        IF k = 0 THEN r ELSE After(after[k - 1], of, commands[k])
  IN after[Len(commands)]

=============================================================================
