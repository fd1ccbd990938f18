----------------------------- MODULE Transforms -----------------------------
(***************************************************************************)
(* world/transform: each entity's Transform, relative to its parent's,     *)
(* composed down the hierarchy into its WorldTransform, once a frame.      *)
(*                                                                         *)
(* Space is a line: a position is a number, a rotation 1 or -1.  Scales,   *)
(* which are not inherited, and warnings are left out.                     *)
(***************************************************************************)
EXTENDS Integers, Sequences, SequencesExt

CONSTANTS
  Entity,
  Null,         \* entt::null
  MaxDepth,     \* kMaxDepth
  Orders        \* orders of Entity in which its storage may be met

VARIABLES
  transform,    \* the entities with a Transform: position, rotation, parent
  world         \* their WorldTransforms, as the last pass left them

\* The pose `local` gives on top of that of its parent.
On(above, local) ==
  [position |-> above.position + above.rotation * local.position,
   rotation |-> above.rotation * local.rotation]

AsRoot(local) == [position |-> local.position, rotation |-> local.rotation]

\* The parent of an entity, if it has one that is still there.
Above(e) == IF transform[e].parent \in DOMAIN transform THEN transform[e].parent ELSE Null

MutantClimb(done, e) == [chain |-> <<e>>, above |-> Above(e)]

\* Up from an entity to the first ancestor composed in this pass, to a root, to
\* a child of what is gone, or as far as a hierarchy is taken to go.
Ascent(done, e) ==
  LET at[n \in 0 .. MaxDepth] ==
        IF n = 0 THEN e
        ELSE LET x == at[n - 1] IN IF x \in done \cup {Null} THEN x ELSE Above(x)
  IN at

\* The entities on the way, which are then placed on the last, or as roots.
Climb(done, e) ==
  LET at == Ascent(done, e)
      ends == {n \in 0 .. MaxDepth : at[n] \in done \cup {Null}}
      length == IF ends = {} THEN MaxDepth ELSE Min(ends)
  IN [chain |-> [n \in 1 .. length |-> at[n - 1]],
      above |-> IF ends = {} THEN Null ELSE at[length]]

\* Down again, parents first.
Descent(composed, climb) ==
  LET length == Len(climb.chain)
      after[n \in 0 .. length] ==
        IF n = 0 THEN composed
        ELSE LET now == after[n - 1]
                 x == climb.chain[length + 1 - n]
                 above == IF n = 1 THEN climb.above ELSE climb.chain[length + 2 - n]
             IN [now EXCEPT ![x] = IF above = Null THEN AsRoot(transform[x])
                                   ELSE On(now[above], transform[x])]
  IN after

Descend(composed, climb) == Descent(composed, climb)[Len(climb.chain)]

\* One pass over the storage.  No WorldTransform has the pass's number before.
Pass(order) ==
  LET after[n \in 0 .. Len(order)] ==
        IF n = 0
        THEN [composed |-> [e \in DOMAIN transform |-> AsRoot(transform[e])], done |-> {}]
        ELSE IF order[n] \notin DOMAIN transform THEN after[n - 1]
        ELSE LET now == after[n - 1]
                 climb == Climb(now.done, order[n])
             IN [composed |-> Descend(now.composed, climb),
                 done |-> now.done \cup ToSet(climb.chain)]
  IN after

ComposedIn(order) == Pass(order)[Len(order)].composed

PropagateTransforms == \E order \in Orders : world' = ComposedIn(order)

=============================================================================
