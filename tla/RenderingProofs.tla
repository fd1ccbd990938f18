--------------------------- MODULE RenderingProofs ---------------------------
(***************************************************************************)
(* Proofs about Rendering.  First the handles of the bindless set, from    *)
(* the free list to a texture of ImGui's, to the slot that retires it and  *)
(* back, for any number of handles, textures and frames in flight.  Then   *)
(* the frame's commands: what each part of Renderer::record does to each   *)
(* resource, or that it leaves it alone; each resource through a frame;    *)
(* and frame after frame, for any scenes, airs and mip levels.             *)
(***************************************************************************)
EXTENDS Rendering, SequenceTheorems, FiniteSetTheorems, WellFoundedInduction, TLAPS

\* What an image of the bindless set may be, and the set itself.
Images == (Names \X (0 .. 1)) \cup {<<"material", 0>>, None}

BindlessSet ==
  [owner : [1 .. MaxHandles -> Images], free : Seq(1 .. MaxHandles), next : 1 .. MaxHandles + 1]

Texture == [status : {"none", "wanted", "ok"}, times : 0 .. 1, handle : 0 .. MaxHandles]

HeldBy(textures, retires, streamed) ==
  {textures[t].handle : t \in {u \in Names : textures[u].handle # 0}}
  \cup (UNION {Range(retires[s]) : s \in Slot})
  \cup (IF streamed > 0 THEN {streamed} ELSE {})

\* Each handle that was ever given is in one place, and its owner says in which.
Books(b, textures, retires, streamed) ==
  /\ b \in BindlessSet /\ textures \in [Names -> Texture]
  /\ retires \in [Slot -> Seq(1 .. MaxHandles)] /\ streamed \in -1 .. MaxHandles
  /\ \A t \in Names :
       /\ textures[t].status = "ok" <=> textures[t].handle # 0
       /\ textures[t].handle # 0 => b.owner[textures[t].handle] = Image(t, textures[t])
  /\ streamed > 0 => b.owner[streamed] = <<"material", 0>>
  /\ \A s \in Slot : \A k \in DOMAIN retires[s] :
       /\ b.owner[retires[s][k]] \in Names \X (0 .. 1)
       /\ \A r \in Slot : \A j \in DOMAIN retires[r] :
            retires[s][k] = retires[r][j] => s = r /\ k = j
       /\ \A t \in Names : retires[s][k] # textures[t].handle
  /\ \A k \in DOMAIN b.free : b.owner[b.free[k]] = None
  /\ IsInjective(b.free)
  /\ \A h \in 1 .. MaxHandles :
       h < b.next <=> h \in HeldBy(textures, retires, streamed) \cup Range(b.free)
  /\ \A h \in 1 .. MaxHandles : h >= b.next => b.owner[h] = None

OncePer(b, handles) ==
  \A k, j \in DOMAIN handles : b.owner[handles[k]][1] = b.owner[handles[j]][1] => k = j

\* The frames until a slot is waited for, and frees what it retired.
Until(s) == IF s < frame THEN s - frame + Slots ELSE s - frame

SampledInv ==
  \A s \in Slot : \A e \in sampled[s] :
    /\ e.handle \in 1 .. MaxHandles
    /\ e.image # None /\ bindless.owner[e.handle] = e.image
    /\ \A r \in Slot : e.handle \in Range(retired[r]) => Until(s) < Until(r)

HandlesInv ==
  /\ watch \in Resources /\ write \in 0 .. 1 /\ frame \in Slot
  /\ DOMAIN sampled = Slot
  /\ Books(bindless, ui, retired, material)
  /\ \A s \in Slot : OncePer(bindless, retired[s])
  /\ SampledInv

-----------------------------------------------------------------------------
(* The books, handle by handle *)

LEMMA NamesAre ==
  /\ "nobody" \notin Names /\ "material" \notin Names
  /\ Watched \in Names /\ Len(UiTextures) \in Nat
  /\ \A k \in 1 .. Len(UiTextures) : UiTextures[k] \in Names
  /\ \A k, j \in 1 .. Len(UiTextures) : UiTextures[k] = UiTextures[j] => k = j
  /\ MaxHandles \in Nat /\ Slots \in Nat \ {0}
<1>1. /\ UiTextures \in Seq(Names) /\ UiTextures # <<>>
      /\ IsInjective(UiTextures) /\ Names \cap {"nobody", "material"} = {}
      /\ MaxHandles \in Nat /\ Slots \in Nat \ {0}
  BY RenderingAssumption DEF Names
<1> HIDE DEF Names
<1>2. Len(UiTextures) \in Nat /\ DOMAIN UiTextures = 1 .. Len(UiTextures)
  BY <1>1
<1>3. 1 \in 1 .. Len(UiTextures)
  BY <1>1, <1>2
<1>4. \A k \in 1 .. Len(UiTextures) : UiTextures[k] \in Names
  BY <1>1, <1>2
<1> QED
  BY <1>1, <1>2, <1>3, <1>4 DEF IsInjective, Watched

LEMMA ImagesAre ==
  /\ None \in Images /\ <<"material", 0>> \in Images /\ <<"material", 0>> # None
  /\ \A t \in Names : \A x \in 0 .. 1 :
       /\ <<t, x>> \in Images /\ <<t, x>> # None /\ <<t, x>> # <<"material", 0>>
       /\ <<t, x>>[1] = t
  /\ \A i \in Names \X (0 .. 1) : i # None /\ i # <<"material", 0>> /\ i \in Images /\ i[1] \in Names
BY NamesAre DEF Images, None

LEMMA HeldIs ==
  ASSUME NEW textures, NEW retires, NEW streamed, NEW h
  PROVE  h \in HeldBy(textures, retires, streamed) <=>
           \/ \E t \in Names : textures[t].handle # 0 /\ textures[t].handle = h
           \/ \E s \in Slot : \E k \in DOMAIN retires[s] : retires[s][k] = h
           \/ streamed > 0 /\ streamed = h
<1> DEFINE A == {textures[t].handle : t \in {u \in Names : textures[u].handle # 0}}
           B == UNION {Range(retires[s]) : s \in Slot}
           C == IF streamed > 0 THEN {streamed} ELSE {}
<1>1. HeldBy(textures, retires, streamed) = (A \cup B) \cup C
  BY Zenon DEF HeldBy
<1>2. h \in A <=> \E t \in Names : textures[t].handle # 0 /\ textures[t].handle = h
  OBVIOUS
<1>3. h \in B <=> \E s \in Slot : \E k \in DOMAIN retires[s] : retires[s][k] = h
  <2>1. \A s \in Slot : h \in Range(retires[s]) <=> \E k \in DOMAIN retires[s] : retires[s][k] = h
    BY DEF Range
  <2> QED
    BY <2>1
<1>4. h \in C <=> streamed > 0 /\ streamed = h
  OBVIOUS
<1> HIDE DEF A, B, C
<1> QED
  BY <1>1, <1>2, <1>3, <1>4

LEMMA BooksTypes ==
  ASSUME NEW b, NEW textures, NEW retires, NEW streamed, Books(b, textures, retires, streamed)
  PROVE  /\ b = [owner |-> b.owner, free |-> b.free, next |-> b.next]
         /\ b.owner \in [1 .. MaxHandles -> Images]
         /\ b.free \in Seq(1 .. MaxHandles) /\ b.next \in 1 .. MaxHandles + 1
         /\ Len(b.free) \in Nat /\ DOMAIN b.free = 1 .. Len(b.free)
         /\ \A k \in 1 .. Len(b.free) : b.free[k] \in 1 .. MaxHandles
         /\ textures \in [Names -> Texture]
         /\ \A t \in Names : /\ textures[t].handle \in 0 .. MaxHandles
                             /\ textures[t].times \in 0 .. 1
                             /\ textures[t].status \in {"none", "wanted", "ok"}
         /\ \A s \in Slot : /\ retires[s] \in Seq(1 .. MaxHandles)
                            /\ Len(retires[s]) \in Nat /\ DOMAIN retires[s] = 1 .. Len(retires[s])
                            /\ \A k \in 1 .. Len(retires[s]) : retires[s][k] \in 1 .. MaxHandles
<1>1. /\ b \in BindlessSet /\ textures \in [Names -> Texture]
      /\ retires \in [Slot -> Seq(1 .. MaxHandles)]
  BY DEF Books
<1>2. \A q \in Seq(1 .. MaxHandles) : /\ Len(q) \in Nat /\ DOMAIN q = 1 .. Len(q)
                                      /\ \A k \in 1 .. Len(q) : q[k] \in 1 .. MaxHandles
  <2> SUFFICES ASSUME NEW q \in Seq(1 .. MaxHandles)
               PROVE  /\ Len(q) \in Nat /\ DOMAIN q = 1 .. Len(q)
                      /\ \A k \in 1 .. Len(q) : q[k] \in 1 .. MaxHandles
    OBVIOUS
  <2>1. q \in [1 .. Len(q) -> 1 .. MaxHandles] /\ Len(q) \in Nat
    BY LenProperties
  <2> QED
    BY <2>1
<1>3. /\ b = [owner |-> b.owner, free |-> b.free, next |-> b.next]
      /\ b.owner \in [1 .. MaxHandles -> Images]
      /\ b.free \in Seq(1 .. MaxHandles) /\ b.next \in 1 .. MaxHandles + 1
  BY <1>1 DEF BindlessSet
<1>4. \A t \in Names : /\ textures[t].handle \in 0 .. MaxHandles
                       /\ textures[t].times \in 0 .. 1
                       /\ textures[t].status \in {"none", "wanted", "ok"}
  BY <1>1 DEF Texture
<1>5. \A s \in Slot : retires[s] \in Seq(1 .. MaxHandles)
  BY <1>1
<1> QED
  BY <1>1, <1>2, <1>3, <1>4, <1>5

\* A handle that is held has an owner, one that is free has none.
LEMMA HeldOwned ==
  ASSUME NEW b, NEW textures, NEW retires, NEW streamed, Books(b, textures, retires, streamed)
  PROVE  /\ \A h \in HeldBy(textures, retires, streamed) : h \in 1 .. MaxHandles /\ b.owner[h] # None
         /\ \A h \in 1 .. MaxHandles :
              b.owner[h] # None <=> h \in HeldBy(textures, retires, streamed)
<1>1. ASSUME NEW h \in HeldBy(textures, retires, streamed)
      PROVE  h \in 1 .. MaxHandles /\ b.owner[h] # None
  <2>1. CASE \E t \in Names : textures[t].handle # 0 /\ textures[t].handle = h
    <3>1. PICK t \in Names : textures[t].handle # 0 /\ textures[t].handle = h
      BY <2>1
    <3>2. b.owner[h] = <<t, textures[t].times>>
      BY <3>1 DEF Books, Image
    <3> QED
      BY <3>1, <3>2, BooksTypes, ImagesAre, NamesAre
  <2>2. CASE \E s \in Slot : \E k \in DOMAIN retires[s] : retires[s][k] = h
    <3> PICK s \in Slot : \E k \in DOMAIN retires[s] : retires[s][k] = h
      BY <2>2
    <3>1. PICK k \in DOMAIN retires[s] : retires[s][k] = h
      OBVIOUS
    <3>2. b.owner[h] \in Names \X (0 .. 1)
      BY <3>1 DEF Books
    <3> QED
      BY <3>1, <3>2, BooksTypes, ImagesAre
  <2>3. CASE streamed > 0 /\ streamed = h
    BY <2>3, ImagesAre, NamesAre DEF Books
  <2> QED
    BY <2>1, <2>2, <2>3, HeldIs
<1>2. ASSUME NEW h \in 1 .. MaxHandles, b.owner[h] # None
      PROVE  h \in HeldBy(textures, retires, streamed)
  <2>1. h < b.next
    <3>1. h >= b.next => b.owner[h] = None
      BY DEF Books
    <3>2. b.next \in Int /\ h \in Int
      BY BooksTypes
    <3> HIDE DEF None
    <3> QED
      BY <1>2, <3>1, <3>2
  <2>2. h \notin Range(b.free)
    BY <1>2 DEF Books, Range
  <2> QED
    BY <2>1, <2>2 DEF Books
<1> QED
  BY <1>1, <1>2

\* add_sampled_image gives a handle that nothing holds.
LEMMA AddIs ==
  ASSUME NEW b, NEW textures, NEW retires, NEW streamed, Books(b, textures, retires, streamed),
         ~Exhausted(b), NEW image \in Images \ {None}
  PROVE  LET n == NextHandle(b)
             c == AddSampledImage(b, image)
         IN  /\ n \in 1 .. MaxHandles /\ b.owner[n] = None
             /\ n \notin HeldBy(textures, retires, streamed)
             /\ c \in BindlessSet /\ c.owner = [b.owner EXCEPT ![n] = image]
             /\ IsInjective(c.free)
             /\ \A k \in DOMAIN c.free : c.free[k] # n /\ c.owner[c.free[k]] = None
             /\ \A h \in 1 .. MaxHandles :
                  h < c.next <=> h \in HeldBy(textures, retires, streamed) \cup Range(c.free) \cup {n}
             /\ \A h \in 1 .. MaxHandles : h >= c.next => c.owner[h] = None
<1> DEFINE n == NextHandle(b)
           c == AddSampledImage(b, image)
           H == HeldBy(textures, retires, streamed)
<1>0. /\ b.owner \in [1 .. MaxHandles -> Images] /\ b.free \in Seq(1 .. MaxHandles)
      /\ b.next \in 1 .. MaxHandles + 1 /\ MaxHandles \in Nat
      /\ Len(b.free) \in Nat /\ DOMAIN b.free = 1 .. Len(b.free)
      /\ \A k \in 1 .. Len(b.free) : b.free[k] \in 1 .. MaxHandles
  BY BooksTypes, NamesAre
<1>1. /\ \A k \in DOMAIN b.free : b.owner[b.free[k]] = None
      /\ \A k, j \in DOMAIN b.free : b.free[k] = b.free[j] => k = j
      /\ \A h \in 1 .. MaxHandles : h < b.next <=> h \in H \cup Range(b.free)
      /\ \A h \in 1 .. MaxHandles : h >= b.next => b.owner[h] = None
  BY DEF Books, IsInjective
<1>2. \A h \in H : h \in 1 .. MaxHandles /\ b.owner[h] # None
  BY HeldOwned
<1> HIDE DEF H
<1>3. CASE b.free # <<>>
  <2> DEFINE l == Len(b.free)
             q == Front(b.free)
  <2>1. l \in 1 .. l /\ l > 0
    BY <1>0, <1>3
  <2>2. n = b.free[l] /\ c.owner = [b.owner EXCEPT ![n] = image] /\ c.free = q /\ c.next = b.next
        /\ c = [owner |-> c.owner, free |-> c.free, next |-> c.next]
    BY <1>3 DEF NextHandle, AddSampledImage, Last
  <2>3. q \in Seq(1 .. MaxHandles) /\ Len(q) = l - 1 /\ \A k \in 1 .. l - 1 : q[k] = b.free[k]
    BY <1>0, <2>1 DEF Front
  <2> HIDE DEF n, c, q
  <2>4. DOMAIN q = 1 .. l - 1
    BY <2>3
  <2>5. n \in 1 .. MaxHandles /\ b.owner[n] = None /\ n \notin H
    <3>1. n \in 1 .. MaxHandles /\ l \in DOMAIN b.free
      BY <1>0, <2>1, <2>2
    <3> QED
      BY <1>1, <1>2, <2>2, <3>1
  <2>6. Range(b.free) = Range(q) \cup {n}
    <3>1. Range(b.free) = {b.free[k] : k \in 1 .. l} /\ Range(q) = {b.free[k] : k \in 1 .. l - 1}
      BY <1>0, <2>3, <2>4 DEF Range
    <3>2. \A k \in 1 .. l : k \in 1 .. l - 1 \/ k = l
      BY <1>0
    <3> QED
      BY <1>0, <2>1, <2>2, <3>1, <3>2
  <2>7. \A k \in 1 .. l - 1 : k \in 1 .. l /\ k # l
    BY <1>0
  <2>8. \A k \in DOMAIN c.free : c.free[k] # n /\ c.owner[c.free[k]] = None
    <3> SUFFICES ASSUME NEW k \in 1 .. l - 1 PROVE q[k] # n /\ c.owner[q[k]] = None
      BY <2>2, <2>4
    <3>1. k \in DOMAIN b.free /\ l \in DOMAIN b.free /\ k # l
      BY <1>0, <2>1, <2>7
    <3>2. q[k] = b.free[k] /\ q[k] \in 1 .. MaxHandles
      BY <1>0, <2>3, <2>7
    <3>3. q[k] # n
      BY <1>1, <2>2, <3>1, <3>2
    <3> QED
      BY <1>0, <1>1, <2>2, <3>1, <3>2, <3>3
  <2>9. IsInjective(c.free)
    BY <1>0, <1>1, <2>2, <2>3, <2>4, <2>7 DEF IsInjective
  <2>10. \A h \in 1 .. MaxHandles : h >= c.next => c.owner[h] = None
    BY <1>0, <1>1, <2>1, <2>2, <2>5 DEF Range
  <2>11. \A h \in 1 .. MaxHandles : h < c.next <=> h \in H \cup Range(c.free) \cup {n}
    BY <1>1, <2>2, <2>6
  <2>12. c \in BindlessSet
    BY <1>0, <2>2, <2>3 DEF BindlessSet
  <2> QED
    BY <2>2, <2>5, <2>8, <2>9, <2>10, <2>11, <2>12 DEF c, n, H
<1>4. CASE b.free = <<>>
  <2>1. n = b.next /\ c.owner = [b.owner EXCEPT ![n] = image] /\ c.free = <<>> /\ c.next = n + 1
        /\ c = [owner |-> c.owner, free |-> c.free, next |-> c.next]
    BY <1>4 DEF NextHandle, AddSampledImage
  <2> HIDE DEF n, c
  <2>2. n \in 1 .. MaxHandles
    BY <1>0, <1>4, <2>1 DEF Exhausted
  <2>3. b.owner[n] = None /\ n \notin H
    BY <1>0, <1>1, <1>2, <2>1, <2>2
  <2>4. Range(c.free) = {} /\ Range(b.free) = {} /\ c.free \in Seq(1 .. MaxHandles)
        /\ DOMAIN c.free = {}
    BY <1>4, <2>1 DEF Range
  <2>5. \A h \in 1 .. MaxHandles : h < n + 1 <=> h < n \/ h = n
    BY <2>2, <1>0
  <2>6. \A h \in 1 .. MaxHandles : h < c.next <=> h \in H \cup Range(c.free) \cup {n}
    BY <1>1, <2>1, <2>4, <2>5
  <2>7. \A h \in 1 .. MaxHandles : h >= c.next => c.owner[h] = None
    BY <1>0, <1>1, <2>1, <2>2
  <2>8. c \in BindlessSet
    <3>1. c.owner \in [1 .. MaxHandles -> Images] /\ c.next \in 1 .. MaxHandles + 1
      BY <1>0, <2>1, <2>2
    <3>2. c.free \in Seq(1 .. MaxHandles)
      BY <2>4
    <3> QED
      BY <2>1, <3>1, <3>2 DEF BindlessSet
  <2>9. IsInjective(c.free)
    BY <2>4 DEF IsInjective
  <2> QED
    BY <2>1, <2>2, <2>3, <2>4, <2>6, <2>7, <2>8, <2>9 DEF c, n, H
<1> QED
  BY <1>3, <1>4

\* No owner but that of the handle given, or of those released, is another's.
OwnersStay(b, c) == \A h \in 1 .. MaxHandles : b.owner[h] # None => c.owner[h] = b.owner[h]

LEMMA CreateKeeps ==
  ASSUME NEW b, NEW textures, NEW retires, NEW streamed, Books(b, textures, retires, streamed),
         ~Exhausted(b), NEW t \in Names, textures[t].handle = 0, NEW x \in 0 .. 1
  PROVE  LET made == [status |-> "ok", times |-> x, handle |-> NextHandle(b)]
             c == AddSampledImage(b, <<t, x>>)
         IN  Books(c, [textures EXCEPT ![t] = made], retires, streamed) /\ OwnersStay(b, c)
<1> DEFINE n == NextHandle(b)
           made == [status |-> "ok", times |-> x, handle |-> n]
           c == AddSampledImage(b, <<t, x>>)
           T == [textures EXCEPT ![t] = made]
           H == HeldBy(textures, retires, streamed)
<1>1. <<t, x>> \in Images \ {None} /\ <<t, x>> # <<"material", 0>>
  BY ImagesAre
<1>2. /\ n \in 1 .. MaxHandles /\ b.owner[n] = None /\ n \notin H
      /\ c \in BindlessSet /\ c.owner = [b.owner EXCEPT ![n] = <<t, x>>]
      /\ IsInjective(c.free)
      /\ \A k \in DOMAIN c.free : c.free[k] # n /\ c.owner[c.free[k]] = None
      /\ \A h \in 1 .. MaxHandles : h < c.next <=> h \in H \cup Range(c.free) \cup {n}
      /\ \A h \in 1 .. MaxHandles : h >= c.next => c.owner[h] = None
  BY <1>1, AddIs
<1> HIDE DEF n, c
<1>3. T \in [Names -> Texture]
  BY <1>2, BooksTypes, NamesAre DEF Texture
<1>4. T[t] = made /\ \A u \in Names : u # t => T[u] = textures[u]
  BY BooksTypes
<1> HIDE DEF T
<1>5. made.handle = n /\ n # 0 /\ n > 0 /\ made.status = "ok" /\ made.times = x
  BY <1>2
<1> HIDE DEF made
<1>6. \A h : h \in HeldBy(T, retires, streamed) <=> h \in H \/ h = n
  <2> SUFFICES ASSUME NEW h PROVE h \in HeldBy(T, retires, streamed) <=> h \in H \/ h = n
    OBVIOUS
  <2>1. (\E u \in Names : T[u].handle # 0 /\ T[u].handle = h)
          <=> (\E u \in Names : textures[u].handle # 0 /\ textures[u].handle = h) \/ h = n
    BY <1>4, <1>5
  <2> QED
    BY <2>1, HeldIs
<1>7. \A h \in H : h \in 1 .. MaxHandles /\ h # n /\ c.owner[h] = b.owner[h]
  BY <1>2, HeldOwned, BooksTypes
<1>8. \A u \in Names : /\ T[u].status = "ok" <=> T[u].handle # 0
                       /\ T[u].handle # 0 => c.owner[T[u].handle] = Image(u, T[u])
  <2>1. ASSUME NEW u \in Names, u # t, textures[u].handle # 0
        PROVE  c.owner[textures[u].handle] = Image(u, textures[u])
    BY <1>7, <2>1, HeldIs DEF Books
  <2>2. c.owner[n] = <<t, x>>
    BY <1>2, BooksTypes
  <2>3. \A u \in Names : textures[u].status = "ok" <=> textures[u].handle # 0
    BY DEF Books
  <2>4. T[t].status = "ok" /\ T[t].handle = n /\ Image(t, T[t]) = <<t, x>>
    BY <1>4, <1>5 DEF Image
  <2>5. ASSUME NEW u \in Names, u # t
        PROVE  /\ T[u].status = "ok" <=> T[u].handle # 0
               /\ T[u].handle # 0 => c.owner[T[u].handle] = Image(u, T[u])
    BY <1>4, <2>1, <2>3, <2>5
  <2> QED
    BY <1>5, <2>2, <2>4, <2>5
<1>9. streamed > 0 => c.owner[streamed] = <<"material", 0>>
  BY <1>7, HeldIs DEF Books
<1>10. ASSUME NEW s \in Slot, NEW k \in DOMAIN retires[s]
       PROVE  /\ c.owner[retires[s][k]] \in Names \X (0 .. 1)
              /\ \A r \in Slot : \A j \in DOMAIN retires[r] :
                   retires[s][k] = retires[r][j] => s = r /\ k = j
              /\ \A u \in Names : retires[s][k] # T[u].handle
  <2>1. retires[s][k] \in H
    BY HeldIs
  <2> QED
    BY <1>4, <1>5, <1>7, <2>1 DEF Books
<1>11. \A h \in 1 .. MaxHandles :
         h < c.next <=> h \in HeldBy(T, retires, streamed) \cup Range(c.free)
  BY <1>2, <1>6
<1>12. retires \in [Slot -> Seq(1 .. MaxHandles)] /\ streamed \in -1 .. MaxHandles
  BY DEF Books
<1>13. Books(c, T, retires, streamed)
  BY <1>2, <1>3, <1>8, <1>9, <1>10, <1>11, <1>12 DEF Books
<1>14. OwnersStay(b, c)
  BY <1>2, BooksTypes DEF OwnersStay
<1> QED
  BY <1>13, <1>14 DEF T, made, c, n

LEMMA WantKeeps ==
  ASSUME NEW b, NEW textures, NEW retires, NEW streamed, Books(b, textures, retires, streamed),
         NEW t \in Names, textures[t].handle = 0, NEW status \in {"none", "wanted"}
  PROVE  \A T : /\ T \in [Names -> Texture] /\ T[t].handle = 0 /\ T[t].status = status
                /\ \A u \in Names : u # t => T[u] = textures[u]
                => Books(b, T, retires, streamed)
<1> SUFFICES ASSUME NEW T \in [Names -> Texture], T[t].handle = 0, T[t].status = status,
                    \A u \in Names : u # t => T[u] = textures[u]
             PROVE  Books(b, T, retires, streamed)
  OBVIOUS
<1>1. \A h : h \in HeldBy(T, retires, streamed) <=> h \in HeldBy(textures, retires, streamed)
  <2> SUFFICES ASSUME NEW h
               PROVE  h \in HeldBy(T, retires, streamed) <=> h \in HeldBy(textures, retires, streamed)
    OBVIOUS
  <2>1. \A u \in Names : T[u].handle = textures[u].handle
    OBVIOUS
  <2> QED
    BY <2>1, HeldIs
<1>2. HeldBy(T, retires, streamed) = HeldBy(textures, retires, streamed)
  BY <1>1
<1>3. \A u \in Names :
        /\ T[u].status = "ok" <=> T[u].handle # 0
        /\ T[u].handle # 0 => b.owner[T[u].handle] = Image(u, T[u])
        /\ T[u].handle = textures[u].handle
  BY DEF Books
<1>4. ASSUME NEW s \in Slot, NEW k \in DOMAIN retires[s]
      PROVE  /\ b.owner[retires[s][k]] \in Names \X (0 .. 1)
             /\ \A r \in Slot : \A j \in DOMAIN retires[r] :
                  retires[s][k] = retires[r][j] => s = r /\ k = j
             /\ \A u \in Names : retires[s][k] # T[u].handle
  BY <1>3 DEF Books
<1>5. /\ b \in BindlessSet /\ retires \in [Slot -> Seq(1 .. MaxHandles)]
      /\ streamed \in -1 .. MaxHandles
      /\ streamed > 0 => b.owner[streamed] = <<"material", 0>>
      /\ \A k \in DOMAIN b.free : b.owner[b.free[k]] = None
      /\ IsInjective(b.free)
      /\ \A h \in 1 .. MaxHandles :
           h < b.next <=> h \in HeldBy(textures, retires, streamed) \cup Range(b.free)
      /\ \A h \in 1 .. MaxHandles : h >= b.next => b.owner[h] = None
  BY DEF Books
<1> QED
  BY <1>2, <1>3, <1>4, <1>5 DEF Books

LEMMA DroppedIs ==
  ASSUME NEW textures \in [Names -> Texture], NEW t \in Names
  PROVE  /\ Dropped(textures, t) \in [Names -> Texture]
         /\ Dropped(textures, t)[t].handle = 0 /\ Dropped(textures, t)[t].status = "none"
         /\ \A u \in Names : u # t => Dropped(textures, t)[u] = textures[u]
<1> DEFINE T == Dropped(textures, t)
<1>1. MaxHandles \in Nat /\ 0 \in 0 .. MaxHandles
  BY NamesAre
<1>2. textures[t] \in Texture
  OBVIOUS
<1>3. [[textures[t] EXCEPT !.status = "none"] EXCEPT !.handle = 0] \in Texture
  BY <1>1, <1>2 DEF Texture
<1>4. /\ T = [textures EXCEPT ![t] = T[t]]
      /\ T[t] = [[textures[t] EXCEPT !.status = "none"] EXCEPT !.handle = 0]
  BY DEF Dropped
<1>5. T[t].handle = 0 /\ T[t].status = "none"
  BY <1>2, <1>4 DEF Texture
<1> HIDE DEF T
<1>6. T \in [Names -> Texture] /\ \A u \in Names : u # t => T[u] = textures[u]
  BY <1>3, <1>4
<1> QED
  BY <1>5, <1>6 DEF T

\* A texture that is destroyed waits with a slot.
LEMMA DestroyKeeps ==
  ASSUME NEW b, NEW textures, NEW retires, NEW streamed, Books(b, textures, retires, streamed),
         NEW t \in Names, textures[t].handle # 0, NEW s \in Slot
  PROVE  Books(b, Dropped(textures, t),
               [retires EXCEPT ![s] = Append(retires[s], textures[t].handle)], streamed)
<1> DEFINE n == textures[t].handle
           T == Dropped(textures, t)
           q == Append(retires[s], n)
           l == Len(retires[s])
           R == [retires EXCEPT ![s] = q]
<1>0. n \in 1 .. MaxHandles /\ l \in Nat /\ DOMAIN retires[s] = 1 .. l
      /\ retires[s] \in Seq(1 .. MaxHandles) /\ retires \in [Slot -> Seq(1 .. MaxHandles)]
  <2>1. textures[t].handle \in 0 .. MaxHandles /\ textures[t].handle # 0 /\ MaxHandles \in Nat
    BY BooksTypes, NamesAre
  <2>2. retires \in [Slot -> Seq(1 .. MaxHandles)]
    BY DEF Books
  <2>3. l \in Nat /\ DOMAIN retires[s] = 1 .. l /\ retires[s] \in Seq(1 .. MaxHandles)
    BY BooksTypes
  <2>4. n \in 1 .. MaxHandles
    BY <2>1
  <2> QED
    BY <2>2, <2>3, <2>4
<1>1. /\ T \in [Names -> Texture] /\ T[t].handle = 0 /\ T[t].status = "none"
      /\ \A u \in Names : u # t => T[u] = textures[u]
  BY BooksTypes, DroppedIs
<1>2. /\ q \in Seq(1 .. MaxHandles) /\ DOMAIN q = 1 .. l + 1 /\ q[l + 1] = n
      /\ \A k \in 1 .. l : q[k] = retires[s][k]
  BY <1>0
<1>3. /\ R \in [Slot -> Seq(1 .. MaxHandles)] /\ R[s] = q
      /\ \A r \in Slot : r # s => R[r] = retires[r]
  BY <1>0, <1>2
<1>4. /\ b.owner[n] \in Names \X (0 .. 1)
      /\ \A u \in Names : u # t => textures[u].handle # n
      /\ \A r \in Slot : \A j \in DOMAIN retires[r] : retires[r][j] # n
  <2>1. b.owner[n] = <<t, textures[t].times>>
    BY DEF Books, Image
  <2>2. \A u \in Names : textures[u].handle = n => b.owner[n] = <<u, textures[u].times>>
    BY <1>0 DEF Books, Image
  <2>3. \A u \in Names : textures[u].times \in 0 .. 1
    BY BooksTypes
  <2>4. b.owner[n] \in Names \X (0 .. 1)
    BY <2>1, <2>3
  <2>5. \A u \in Names : textures[u].handle = n => u = t
    BY <2>1, <2>2
  <2>6. \A r \in Slot : \A j \in DOMAIN retires[r] : retires[r][j] # n
    BY DEF Books
  <2> QED
    BY <2>4, <2>5, <2>6
<1> HIDE DEF n, T, q, R, l
<1>5. \A r \in Slot : \A k \in DOMAIN R[r] :
        \/ r = s /\ k = l + 1 /\ R[r][k] = n
        \/ k \in DOMAIN retires[r] /\ R[r][k] = retires[r][k] /\ (r = s => k # l + 1)
  <2>1. \A k \in 1 .. l + 1 : k = l + 1 \/ (k \in 1 .. l /\ k # l + 1)
    BY <1>0
  <2> QED
    BY <1>0, <1>2, <1>3, <2>1
<1>6. \A r \in Slot : \A k \in DOMAIN retires[r] : k \in DOMAIN R[r] /\ R[r][k] = retires[r][k]
  <2>1. \A k \in 1 .. l : k \in 1 .. l + 1
    BY <1>0
  <2> QED
    BY <1>0, <1>2, <1>3, <2>1
<1>7. \A h : h \in HeldBy(T, R, streamed) <=> h \in HeldBy(textures, retires, streamed)
  <2> SUFFICES ASSUME NEW h
               PROVE  h \in HeldBy(T, R, streamed) <=> h \in HeldBy(textures, retires, streamed)
    OBVIOUS
  <2>1. l + 1 \in DOMAIN R[s] /\ R[s][l + 1] = n
    BY <1>0, <1>2, <1>3
  <2>2. (\E u \in Names : textures[u].handle # 0 /\ textures[u].handle = h)
          <=> (\E u \in Names : T[u].handle # 0 /\ T[u].handle = h) \/ h = n
    BY <1>0, <1>1 DEF n
  <2>3. (\E r \in Slot : \E k \in DOMAIN R[r] : R[r][k] = h)
          <=> (\E r \in Slot : \E k \in DOMAIN retires[r] : retires[r][k] = h) \/ h = n
    BY <1>5, <1>6, <2>1
  <2> QED
    BY <2>2, <2>3, HeldIs
<1>8. HeldBy(T, R, streamed) = HeldBy(textures, retires, streamed)
  BY <1>7
<1>9. \A u \in Names : /\ T[u].status = "ok" <=> T[u].handle # 0
                       /\ T[u].handle # 0 => b.owner[T[u].handle] = Image(u, T[u])
  BY <1>1 DEF Books
<1>10. ASSUME NEW r \in Slot, NEW k \in DOMAIN R[r]
       PROVE  /\ b.owner[R[r][k]] \in Names \X (0 .. 1)
              /\ \A i \in Slot : \A j \in DOMAIN R[i] : R[r][k] = R[i][j] => r = i /\ k = j
              /\ \A u \in Names : R[r][k] # T[u].handle
  <2>1. CASE r = s /\ k = l + 1 /\ R[r][k] = n
    <3>1. \A i \in Slot : \A j \in DOMAIN R[i] : R[i][j] = n => i = s /\ j = l + 1
      BY <1>4, <1>5
    <3>2. \A u \in Names : T[u].handle # n
      BY <1>0, <1>1, <1>4
    <3> QED
      BY <1>4, <2>1, <3>1, <3>2
  <2>2. CASE k \in DOMAIN retires[r] /\ R[r][k] = retires[r][k] /\ (r = s => k # l + 1)
    <3>1. \A i \in Slot : \A j \in DOMAIN R[i] : R[r][k] = R[i][j] => r = i /\ k = j
      BY <1>4, <1>5, <2>2 DEF Books
    <3>2. R[r][k] \in 1 .. MaxHandles
      BY <2>2, BooksTypes
    <3>3. \A u \in Names : R[r][k] # T[u].handle
      BY <1>1, <2>2, <3>2 DEF Books
    <3> QED
      BY <2>2, <3>1, <3>3 DEF Books
  <2> QED
    BY <1>5, <2>1, <2>2
<1>11. Books(b, T, R, streamed)
  BY <1>1, <1>3, <1>8, <1>9, <1>10 DEF Books
<1> QED
  BY <1>11 DEF T, R, q, n

\* What waited with a slot is free when the slot has been waited for.
LEMMA ReleaseKeeps ==
  ASSUME NEW b, NEW textures, NEW retires, NEW streamed, Books(b, textures, retires, streamed),
         NEW s \in Slot
  PROVE  LET c == ReleaseSampledImages(b, retires[s])
         IN  /\ Books(c, textures, [retires EXCEPT ![s] = <<>>], streamed)
             /\ \A h \in 1 .. MaxHandles : h \notin Range(retires[s]) => c.owner[h] = b.owner[h]
<1> DEFINE q == retires[s]
           c == ReleaseSampledImages(b, q)
           R == [retires EXCEPT ![s] = <<>>]
           H == HeldBy(textures, retires, streamed)
           l == Len(b.free)
<1>0. /\ b.owner \in [1 .. MaxHandles -> Images] /\ b.free \in Seq(1 .. MaxHandles)
      /\ b.next \in 1 .. MaxHandles + 1
      /\ l \in Nat /\ DOMAIN b.free = 1 .. l
      /\ \A k \in 1 .. l : b.free[k] \in 1 .. MaxHandles
      /\ q \in Seq(1 .. MaxHandles) /\ Len(q) \in Nat /\ DOMAIN q = 1 .. Len(q)
      /\ \A k \in 1 .. Len(q) : q[k] \in 1 .. MaxHandles
      /\ retires \in [Slot -> Seq(1 .. MaxHandles)]
  <2>1. retires \in [Slot -> Seq(1 .. MaxHandles)]
    BY DEF Books
  <2> QED
    BY <2>1, BooksTypes
<1>1. /\ c.owner = [h \in 1 .. MaxHandles |-> IF h \in Range(q) THEN None ELSE b.owner[h]]
      /\ c.free = b.free \o q /\ c.next = b.next
      /\ c = [owner |-> c.owner, free |-> c.free, next |-> c.next]
  BY DEF ReleaseSampledImages
<1> HIDE DEF c
<1>2. /\ c.free \in Seq(1 .. MaxHandles) /\ Len(c.free) = l + Len(q)
      /\ DOMAIN c.free = 1 .. l + Len(q)
      /\ \A k \in 1 .. l : c.free[k] = b.free[k]
      /\ \A k \in l + 1 .. l + Len(q) : c.free[k] = q[k - l]
  <2>1. \A k \in 1 .. l + Len(q) : c.free[k] = IF k <= l THEN b.free[k] ELSE q[k - l]
    BY <1>0, <1>1
  <2>2. c.free \in Seq(1 .. MaxHandles) /\ Len(c.free) = l + Len(q) /\ DOMAIN c.free = 1 .. l + Len(q)
    BY <1>0, <1>1
  <2> HIDE DEF q, l
  <2>3. \A k \in 1 .. l : k \in 1 .. l + Len(q) /\ k <= l
    BY <1>0
  <2>4. \A k \in l + 1 .. l + Len(q) : k \in 1 .. l + Len(q) /\ ~(k <= l)
    BY <1>0
  <2>5. \A k \in 1 .. l : c.free[k] = b.free[k]
    BY <2>1, <2>3
  <2>6. \A k \in l + 1 .. l + Len(q) : c.free[k] = q[k - l]
    BY <2>1, <2>4
  <2> QED
    BY <2>2, <2>5, <2>6
<1>3. /\ R \in [Slot -> Seq(1 .. MaxHandles)] /\ R[s] = <<>> /\ DOMAIN R[s] = {}
      /\ \A r \in Slot : r # s => R[r] = retires[r]
  BY <1>0
<1>4. \A k \in 1 .. Len(q) :
        /\ q[k] \in H /\ q[k] \in Range(q) /\ b.owner[q[k]] # None
        /\ \A t \in Names : q[k] # textures[t].handle
        /\ \A r \in Slot : \A j \in DOMAIN retires[r] : q[k] = retires[r][j] => r = s /\ k = j
        /\ streamed > 0 => q[k] # streamed
        /\ \A j \in 1 .. l : b.free[j] # q[k]
  <2> SUFFICES ASSUME NEW k \in 1 .. Len(q)
               PROVE  /\ q[k] \in H /\ q[k] \in Range(q) /\ b.owner[q[k]] # None
                      /\ \A t \in Names : q[k] # textures[t].handle
                      /\ \A r \in Slot : \A j \in DOMAIN retires[r] :
                           q[k] = retires[r][j] => r = s /\ k = j
                      /\ streamed > 0 => q[k] # streamed
                      /\ \A j \in 1 .. l : b.free[j] # q[k]
    OBVIOUS
  <2>1. k \in DOMAIN retires[s]
    BY <1>0
  <2>2. /\ b.owner[q[k]] \in Names \X (0 .. 1)
        /\ \A r \in Slot : \A j \in DOMAIN retires[r] : q[k] = retires[r][j] => r = s /\ k = j
        /\ \A t \in Names : q[k] # textures[t].handle
    BY <2>1 DEF Books
  <2>3. q[k] \in H
    BY <2>1, HeldIs
  <2>4. b.owner[q[k]] # None /\ b.owner[q[k]] # <<"material", 0>>
    BY <2>2, ImagesAre
  <2>5. streamed > 0 => q[k] # streamed
    BY <2>4 DEF Books
  <2>6. \A j \in 1 .. l : b.free[j] # q[k]
    <3>1. \A j \in DOMAIN b.free : b.owner[b.free[j]] = None
      BY DEF Books
    <3> QED
      BY <1>0, <2>4, <3>1
  <2>7. q[k] \in Range(q)
    BY <2>1 DEF Range
  <2> QED
    BY <2>2, <2>3, <2>4, <2>5, <2>6, <2>7
<1>5. \A h : h \in Range(q) <=> \E k \in 1 .. Len(q) : q[k] = h
  BY <1>0 DEF Range
<1>6. \A h \in 1 .. MaxHandles : h \notin Range(q) => c.owner[h] = b.owner[h]
  BY <1>1
<1>7. \A h : h \in H <=> h \in HeldBy(textures, R, streamed) \/ h \in Range(q)
  <2> SUFFICES ASSUME NEW h
               PROVE  h \in H <=> h \in HeldBy(textures, R, streamed) \/ h \in Range(q)
    OBVIOUS
  <2>1. (\E r \in Slot : \E k \in DOMAIN retires[r] : retires[r][k] = h)
          <=> (\E r \in Slot : \E k \in DOMAIN R[r] : R[r][k] = h) \/ h \in Range(q)
    BY <1>0, <1>3, <1>5
  <2>2. h \in H
          <=> \/ \E t \in Names : textures[t].handle # 0 /\ textures[t].handle = h
              \/ \E r \in Slot : \E k \in DOMAIN retires[r] : retires[r][k] = h
              \/ streamed > 0 /\ streamed = h
    BY HeldIs
  <2> HIDE DEF R, H, q
  <2>3. h \in HeldBy(textures, R, streamed)
          <=> \/ \E t \in Names : textures[t].handle # 0 /\ textures[t].handle = h
              \/ \E r \in Slot : \E k \in DOMAIN R[r] : R[r][k] = h
              \/ streamed > 0 /\ streamed = h
    BY HeldIs
  <2> QED
    BY <2>1, <2>2, <2>3
<1>8. \A h \in HeldBy(textures, R, streamed) :
        h \in 1 .. MaxHandles /\ h \notin Range(q) /\ c.owner[h] = b.owner[h]
  <2> SUFFICES ASSUME NEW h \in HeldBy(textures, R, streamed) PROVE h \in 1 .. MaxHandles /\ h \notin Range(q)
    BY <1>6
  <2>1. h \in 1 .. MaxHandles
    BY <1>7, HeldOwned
  <2>2. CASE \E t \in Names : textures[t].handle # 0 /\ textures[t].handle = h
    BY <1>4, <1>5, <2>1, <2>2
  <2>3. CASE \E r \in Slot : \E k \in DOMAIN R[r] : R[r][k] = h
    BY <1>3, <1>4, <1>5, <2>1, <2>3
  <2>4. CASE streamed > 0 /\ streamed = h
    BY <1>4, <1>5, <2>1, <2>4
  <2> HIDE DEF R, q
  <2>5. \/ \E t \in Names : textures[t].handle # 0 /\ textures[t].handle = h
        \/ \E r \in Slot : \E k \in DOMAIN R[r] : R[r][k] = h
        \/ streamed > 0 /\ streamed = h
    BY HeldIs
  <2> QED
    BY <2>2, <2>3, <2>4, <2>5
<1>9. Range(c.free) = Range(b.free) \cup Range(q)
  <2>1. \A h : h \in Range(c.free) <=> \E k \in 1 .. l + Len(q) : c.free[k] = h
    BY <1>2 DEF Range
  <2>2. \A h : h \in Range(b.free) <=> \E k \in 1 .. l : b.free[k] = h
    BY <1>0 DEF Range
  <2>3. \A k \in 1 .. l : k \in 1 .. l + Len(q)
    BY <1>0
  <2>4. \A k \in 1 .. Len(q) : k + l \in l + 1 .. l + Len(q) /\ (k + l) - l = k
                               /\ k + l \in 1 .. l + Len(q)
    BY <1>0
  <2>5. \A k \in 1 .. l + Len(q) : k \in 1 .. l \/ (k \in l + 1 .. l + Len(q) /\ k - l \in 1 .. Len(q))
    BY <1>0
  <2> HIDE DEF q, l
  <2>6. \A k \in 1 .. Len(q) : c.free[k + l] = q[k]
    BY <1>2, <2>4
  <2>7. ASSUME NEW h, h \in Range(c.free) PROVE h \in Range(b.free) \/ h \in Range(q)
    BY <1>2, <1>5, <2>1, <2>2, <2>5, <2>7
  <2>8. ASSUME NEW h, h \in Range(b.free) PROVE h \in Range(c.free)
    BY <1>2, <2>1, <2>2, <2>3, <2>8
  <2>9. ASSUME NEW h, h \in Range(q) PROVE h \in Range(c.free)
    BY <1>5, <2>1, <2>4, <2>6, <2>9
  <2> QED
    BY <2>7, <2>8, <2>9
<1>10. IsInjective(c.free)
  <2>1. IsInjective(b.free)
    BY DEF Books
  <2>2. \A j, k \in 1 .. l : b.free[j] = b.free[k] => j = k
    BY <1>0, <2>1 DEF IsInjective
  <2>3. \A j, k \in 1 .. Len(q) : q[j] = q[k] => j = k
    BY <1>0, <1>4
  <2>4. \A k \in 1 .. l + Len(q) : k \in 1 .. l \/ (k \in l + 1 .. l + Len(q) /\ k - l \in 1 .. Len(q))
    BY <1>0
  <2> SUFFICES ASSUME NEW j \in 1 .. l + Len(q), NEW k \in 1 .. l + Len(q), c.free[j] = c.free[k]
               PROVE  j = k
    BY <1>2 DEF IsInjective
  <2> HIDE DEF q, l
  <2>5. CASE j \in 1 .. l /\ k \in 1 .. l
    BY <1>2, <2>2, <2>5
  <2>6. CASE j \in 1 .. l /\ k \in l + 1 .. l + Len(q) /\ k - l \in 1 .. Len(q)
    BY <1>2, <1>4, <2>6
  <2>7. CASE k \in 1 .. l /\ j \in l + 1 .. l + Len(q) /\ j - l \in 1 .. Len(q)
    BY <1>2, <1>4, <2>7
  <2>8. CASE /\ j \in l + 1 .. l + Len(q) /\ j - l \in 1 .. Len(q)
             /\ k \in l + 1 .. l + Len(q) /\ k - l \in 1 .. Len(q)
    <3>1. j - l = k - l
      BY <1>2, <2>3, <2>8
    <3> QED
      BY <1>0, <3>1
  <2> QED
    BY <2>4, <2>5, <2>6, <2>7, <2>8
<1>11. \A k \in DOMAIN c.free : c.owner[c.free[k]] = None
  <2> SUFFICES ASSUME NEW h \in Range(c.free) PROVE c.owner[h] = None
    BY DEF Range
  <2>1. CASE h \in Range(q)
    BY <1>0, <1>1, <1>5, <2>1
  <2>2. CASE h \in Range(b.free)
    <3>1. PICK k \in 1 .. l : b.free[k] = h
      BY <1>0, <2>2 DEF Range
    <3>2. b.owner[h] = None /\ h \in 1 .. MaxHandles
      BY <1>0, <3>1 DEF Books
    <3> QED
      BY <1>1, <3>2
  <2> QED
    BY <1>9, <2>1, <2>2
<1>12. c \in BindlessSet
  <2>1. c.owner \in [1 .. MaxHandles -> Images]
    <3>1. None \in Images
      BY ImagesAre
    <3> HIDE DEF q
    <3> QED
      BY <1>0, <1>1, <3>1
  <2> QED
    BY <1>0, <1>1, <1>2, <2>1 DEF BindlessSet
<1>13. \A h \in 1 .. MaxHandles :
         h < c.next <=> h \in HeldBy(textures, R, streamed) \cup Range(c.free)
  <2>1. \A h \in 1 .. MaxHandles : h < b.next <=> h \in H \cup Range(b.free)
    BY DEF Books
  <2> QED
    BY <1>1, <1>7, <1>9, <2>1
<1>14. \A h \in 1 .. MaxHandles : h >= c.next => c.owner[h] = None
  <2>1. \A h \in 1 .. MaxHandles : h >= b.next => b.owner[h] = None
    BY DEF Books
  <2> QED
    BY <1>1, <2>1
<1>15. /\ textures \in [Names -> Texture] /\ streamed \in -1 .. MaxHandles
       /\ \A t \in Names : textures[t].status = "ok" <=> textures[t].handle # 0
  BY DEF Books
<1>16. \A t \in Names : textures[t].handle # 0 => c.owner[textures[t].handle] = Image(t, textures[t])
  <2>1. \A t \in Names : textures[t].handle # 0 => textures[t].handle \in HeldBy(textures, R, streamed)
    BY HeldIs
  <2>2. \A t \in Names : textures[t].handle # 0 => b.owner[textures[t].handle] = Image(t, textures[t])
    BY DEF Books
  <2> QED
    BY <1>8, <2>1, <2>2
<1>17. streamed > 0 => c.owner[streamed] = <<"material", 0>>
  <2>1. streamed > 0 => streamed \in HeldBy(textures, R, streamed)
    BY HeldIs
  <2> QED
    BY <1>8, <2>1 DEF Books
<1>18. ASSUME NEW r \in Slot, NEW k \in DOMAIN R[r]
       PROVE  /\ c.owner[R[r][k]] \in Names \X (0 .. 1)
              /\ \A i \in Slot : \A j \in DOMAIN R[i] : R[r][k] = R[i][j] => r = i /\ k = j
              /\ \A t \in Names : R[r][k] # textures[t].handle
  <2>1. r # s /\ R[r] = retires[r] /\ k \in DOMAIN retires[r]
    BY <1>3
  <2>2. R[r][k] \in HeldBy(textures, R, streamed)
    BY HeldIs
  <2>3. c.owner[R[r][k]] = b.owner[R[r][k]]
    BY <1>8, <2>2
  <2>4. \A i \in Slot : \A j \in DOMAIN R[i] : i # s /\ R[i] = retires[i]
    BY <1>3
  <2> HIDE DEF R, q
  <2>5. /\ b.owner[R[r][k]] \in Names \X (0 .. 1)
        /\ \A i \in Slot : \A j \in DOMAIN retires[i] : R[r][k] = retires[i][j] => r = i /\ k = j
        /\ \A t \in Names : R[r][k] # textures[t].handle
    BY <2>1 DEF Books
  <2> QED
    BY <2>3, <2>4, <2>5
<1> HIDE DEF R, H, q, l
<1>19. Books(c, textures, R, streamed)
  BY <1>3, <1>10, <1>11, <1>12, <1>13, <1>14, <1>15, <1>16, <1>17, <1>18 DEF Books
<1> QED
  BY <1>6, <1>19 DEF c, R, q

\* stream_textures: the texture lands and is held, or is left out for good.
LEMMA StreamKeeps ==
  ASSUME NEW b, NEW textures, NEW retires, Books(b, textures, retires, 0)
  PROVE  LET streamed == StreamTexture(b)
         IN  /\ Books(streamed.bindless, textures, retires, streamed.material)
             /\ OwnersStay(b, streamed.bindless)
<1>1. CASE Exhausted(b)
  <2>1. StreamTexture(b) = [bindless |-> b, material |-> -1]
    BY <1>1 DEF StreamTexture
  <2>2. HeldBy(textures, retires, -1) = HeldBy(textures, retires, 0)
    BY DEF HeldBy
  <2>3. -1 \in -1 .. MaxHandles /\ ~(-1 > 0)
    BY NamesAre
  <2>4. Books(b, textures, retires, -1)
    BY <2>2, <2>3 DEF Books
  <2> QED
    BY <2>1, <2>4 DEF OwnersStay
<1>2. CASE ~Exhausted(b)
  <2> DEFINE n == NextHandle(b)
             image == <<"material", 0>>
             c == AddSampledImage(b, image)
             H == HeldBy(textures, retires, 0)
  <2>0. StreamTexture(b) = [bindless |-> c, material |-> n]
    BY <1>2 DEF StreamTexture
  <2>1. image \in Images \ {None}
    BY ImagesAre
  <2>2. /\ n \in 1 .. MaxHandles /\ b.owner[n] = None /\ n \notin H
        /\ c \in BindlessSet /\ c.owner = [b.owner EXCEPT ![n] = image]
        /\ IsInjective(c.free)
        /\ \A k \in DOMAIN c.free : c.free[k] # n /\ c.owner[c.free[k]] = None
        /\ \A h \in 1 .. MaxHandles : h < c.next <=> h \in H \cup Range(c.free) \cup {n}
        /\ \A h \in 1 .. MaxHandles : h >= c.next => c.owner[h] = None
    BY <1>2, <2>1, AddIs
  <2> HIDE DEF n, c
  <2>3. \A h : h \in HeldBy(textures, retires, n) <=> h \in H \/ h = n
    BY <2>2, HeldIs
  <2>4. \A h \in H : h \in 1 .. MaxHandles /\ h # n /\ c.owner[h] = b.owner[h]
    BY <2>2, HeldOwned, BooksTypes
  <2>5. \A t \in Names : /\ textures[t].status = "ok" <=> textures[t].handle # 0
                         /\ textures[t].handle # 0 =>
                              c.owner[textures[t].handle] = Image(t, textures[t])
    BY <2>4, HeldIs DEF Books
  <2>6. c.owner[n] = image
    BY <2>2, BooksTypes
  <2>7. ASSUME NEW s \in Slot, NEW k \in DOMAIN retires[s]
        PROVE  /\ c.owner[retires[s][k]] \in Names \X (0 .. 1)
               /\ \A r \in Slot : \A j \in DOMAIN retires[r] :
                    retires[s][k] = retires[r][j] => s = r /\ k = j
               /\ \A u \in Names : retires[s][k] # textures[u].handle
    <3>1. retires[s][k] \in H
      BY HeldIs
    <3> QED
      BY <2>4, <3>1 DEF Books
  <2>8. \A h \in 1 .. MaxHandles :
          h < c.next <=> h \in HeldBy(textures, retires, n) \cup Range(c.free)
    BY <2>2, <2>3
  <2>9. /\ retires \in [Slot -> Seq(1 .. MaxHandles)] /\ textures \in [Names -> Texture]
        /\ n \in -1 .. MaxHandles
    BY <2>2 DEF Books
  <2> HIDE DEF H
  <2>10. Books(c, textures, retires, n)
    BY <2>2, <2>5, <2>6, <2>7, <2>8, <2>9 DEF Books
  <2>11. OwnersStay(b, c)
    BY <2>2, BooksTypes DEF OwnersStay
  <2> QED
    BY <2>0, <2>10, <2>11
<1> QED
  BY <1>1, <1>2

-----------------------------------------------------------------------------
(* The UI's textures, one after the other *)

\* No request but one that a texture's status allows.
Allowed(requests) ==
  \A t \in Names : /\ requests[t] = "create" => ui[t].handle = 0
                   /\ requests[t] \in {"nothing", "create", "update", "destroy"}

\* When the first n of them are done, and b was the set before.
Updating(b, streamed, n, p) ==
  /\ Books(p.bindless, p.textures, [retired EXCEPT ![frame] = p.retires], streamed)
  /\ \A i \in 1 .. Len(UiTextures) : i > n => p.textures[UiTextures[i]] = ui[UiTextures[i]]
  /\ OncePer(p.bindless, p.retires)
  /\ \A j \in DOMAIN p.retires :
       \E i \in 1 .. Len(UiTextures) : i <= n /\ p.bindless.owner[p.retires[j]][1] = UiTextures[i]
  /\ OwnersStay(b, p.bindless)

LEMMA OwnersStayOn ==
  ASSUME NEW b, NEW c, NEW d, OwnersStay(b, c), OwnersStay(c, d)
  PROVE  OwnersStay(b, d)
BY DEF OwnersStay

\* A step that retires nothing.
LEMMA StaysUpdating ==
  ASSUME NEW b, NEW streamed, NEW n \in Nat, n + 1 <= Len(UiTextures), NEW p, NEW q,
         Updating(b, streamed, n, p), frame \in Slot, retired \in [Slot -> Seq(1 .. MaxHandles)],
         q.retires = p.retires, OwnersStay(p.bindless, q.bindless),
         Books(q.bindless, q.textures, [retired EXCEPT ![frame] = q.retires], streamed),
         \A u \in Names : u # UiTextures[n + 1] => q.textures[u] = p.textures[u]
  PROVE  Updating(b, streamed, n + 1, q)
<1>1. Len(UiTextures) \in Nat /\ \A k \in 1 .. Len(UiTextures) : UiTextures[k] \in Names
  BY NamesAre
<1>2. \A i \in 1 .. Len(UiTextures) : i > n + 1 => q.textures[UiTextures[i]] = ui[UiTextures[i]]
  <2> SUFFICES ASSUME NEW i \in 1 .. Len(UiTextures), i > n + 1
               PROVE  q.textures[UiTextures[i]] = ui[UiTextures[i]]
    OBVIOUS
  <2>1. i > n /\ n + 1 \in 1 .. Len(UiTextures) /\ i # n + 1
    BY <1>1
  <2>2. UiTextures[i] # UiTextures[n + 1] /\ UiTextures[i] \in Names
    BY <2>1, NamesAre
  <2> QED
    BY <2>1, <2>2 DEF Updating
<1>3. \A j \in DOMAIN p.retires : q.bindless.owner[p.retires[j]] = p.bindless.owner[p.retires[j]]
  <2> SUFFICES ASSUME NEW j \in DOMAIN p.retires
               PROVE  q.bindless.owner[p.retires[j]] = p.bindless.owner[p.retires[j]]
    OBVIOUS
  <2> DEFINE R == [retired EXCEPT ![frame] = p.retires]
  <2>1. R[frame] = p.retires
    OBVIOUS
  <2> HIDE DEF R
  <2>2. Books(p.bindless, p.textures, R, streamed)
    BY DEF Updating, R
  <2>3. p.retires[j] \in HeldBy(p.textures, R, streamed)
    BY <2>1, HeldIs
  <2> QED
    BY <2>2, <2>3, HeldOwned DEF OwnersStay
<1>4. OncePer(q.bindless, q.retires)
  <2>1. \A j, k \in DOMAIN p.retires :
          p.bindless.owner[p.retires[j]][1] = p.bindless.owner[p.retires[k]][1] => j = k
    BY DEF OncePer, Updating
  <2> SUFFICES ASSUME NEW j \in DOMAIN p.retires, NEW k \in DOMAIN p.retires,
                      q.bindless.owner[p.retires[j]][1] = q.bindless.owner[p.retires[k]][1]
               PROVE  j = k
    BY DEF OncePer
  <2>2. /\ q.bindless.owner[p.retires[j]] = p.bindless.owner[p.retires[j]]
        /\ q.bindless.owner[p.retires[k]] = p.bindless.owner[p.retires[k]]
    BY <1>3
  <2> QED
    BY <2>1, <2>2
<1>5. \A j \in DOMAIN q.retires :
        \E i \in 1 .. Len(UiTextures) :
          i <= n + 1 /\ q.bindless.owner[q.retires[j]][1] = UiTextures[i]
  <2> SUFFICES ASSUME NEW j \in DOMAIN p.retires
               PROVE  \E i \in 1 .. Len(UiTextures) :
                        i <= n + 1 /\ q.bindless.owner[p.retires[j]][1] = UiTextures[i]
    OBVIOUS
  <2>1. PICK i \in 1 .. Len(UiTextures) : i <= n /\ p.bindless.owner[p.retires[j]][1] = UiTextures[i]
    BY DEF Updating
  <2>2. i <= n + 1
    BY <2>1, <1>1
  <2> QED
    BY <1>3, <2>1, <2>2
<1>6. OwnersStay(b, q.bindless)
  BY OwnersStayOn DEF Updating
<1> QED
  BY <1>2, <1>4, <1>5, <1>6 DEF Updating

LEMMA StepsUpdating ==
  ASSUME NEW b, NEW streamed, NEW n \in Nat, n + 1 <= Len(UiTextures), NEW p,
         Updating(b, streamed, n, p), frame \in Slot, retired \in [Slot -> Seq(1 .. MaxHandles)],
         NEW requests, Allowed(requests)
  PROVE  Updating(b, streamed, n + 1,
                  UpdateTexture(p, UiTextures[n + 1], requests[UiTextures[n + 1]]))
<1> DEFINE t == UiTextures[n + 1]
           T == p.textures
           R == [retired EXCEPT ![frame] = p.retires]
           q == UpdateTexture(p, t, requests[t])
<1>1. n + 1 \in 1 .. Len(UiTextures) /\ n + 1 > n /\ Len(UiTextures) \in Nat
  BY NamesAre
<1>2. t \in Names /\ T[t] = ui[t]
  BY <1>1, NamesAre DEF Updating
<1>3. Books(p.bindless, T, R, streamed)
  BY DEF Updating
<1>4. /\ requests[t] \in {"nothing", "create", "update", "destroy"}
      /\ requests[t] = "create" => T[t].handle = 0
  BY <1>2 DEF Allowed
<1>5. T[t].handle \in 0 .. MaxHandles /\ T[t].times \in 0 .. 1 /\ T \in [Names -> Texture]
  BY <1>2, <1>3, BooksTypes
<1>6. OwnersStay(p.bindless, p.bindless)
  BY DEF OwnersStay
<1>7. CASE requests[t] \in {"nothing", "update"}
  <2>1. q = p
    BY <1>7 DEF UpdateTexture
  <2> HIDE DEF q, t
  <2> QED
    BY <1>3, <1>6, <2>1, StaysUpdating DEF t, q
<1>8. CASE requests[t] = "create" /\ Exhausted(p.bindless)
  <2>1. q = [textures |-> [T EXCEPT ![t].status = "wanted"],
             bindless |-> p.bindless, retires |-> p.retires]
    BY <1>8 DEF UpdateTexture, Creates
  <2>2. /\ q.textures = [T EXCEPT ![t] = [T[t] EXCEPT !.status = "wanted"]]
        /\ q.bindless = p.bindless /\ q.retires = p.retires
    BY <2>1
  <2> HIDE DEF q
  <2>3. [T[t] EXCEPT !.status = "wanted"] \in Texture
        /\ [T[t] EXCEPT !.status = "wanted"].handle = T[t].handle
        /\ [T[t] EXCEPT !.status = "wanted"].status = "wanted"
    BY <1>2, <1>5 DEF Texture
  <2>4. /\ q.textures \in [Names -> Texture] /\ q.textures[t].handle = 0
        /\ q.textures[t].status = "wanted"
        /\ \A u \in Names : u # t => q.textures[u] = T[u]
    BY <1>2, <1>4, <1>5, <1>8, <2>2, <2>3
  <2>5. T[t].handle = 0 /\ t \in Names
    BY <1>2, <1>4, <1>8
  <2> HIDE DEF t, T, R
  <2>6. Books(p.bindless, q.textures, R, streamed)
    BY <1>3, <2>4, <2>5, WantKeeps
  <2> QED
    BY <1>6, <2>2, <2>4, <2>6, StaysUpdating DEF t, T, R, q
<1>9. CASE requests[t] = "create" /\ ~Exhausted(p.bindless)
  <2> DEFINE x == 1 - T[t].times
             made == [status |-> "ok", times |-> x, handle |-> NextHandle(p.bindless)]
  <2>1. x \in 0 .. 1
    BY <1>5
  <2>2. q = [textures |-> [T EXCEPT ![t] = made],
             bindless |-> AddSampledImage(p.bindless, <<t, x>>), retires |-> p.retires]
    BY <1>9 DEF UpdateTexture, Creates, Image
  <2>3. /\ Books(AddSampledImage(p.bindless, <<t, x>>), [T EXCEPT ![t] = made], R, streamed)
        /\ OwnersStay(p.bindless, AddSampledImage(p.bindless, <<t, x>>))
    <3> HIDE DEF t, T, R, x
    <3> QED
      BY <1>2, <1>3, <1>4, <1>9, <2>1, CreateKeeps
  <2>4. /\ q.textures = [T EXCEPT ![t] = made] /\ q.retires = p.retires
        /\ q.bindless = AddSampledImage(p.bindless, <<t, x>>)
    BY <2>2
  <2> HIDE DEF q, made, x
  <2>5. \A u \in Names : u # t => q.textures[u] = T[u]
    BY <1>5, <2>4
  <2> HIDE DEF t, T
  <2>6. Books(q.bindless, q.textures, R, streamed) /\ OwnersStay(p.bindless, q.bindless)
    BY <2>3, <2>4
  <2> QED
    BY <2>4, <2>5, <2>6, StaysUpdating DEF t, T, q
<1>10. CASE requests[t] = "destroy" /\ T[t].handle = 0
  <2>1. q = [textures |-> Dropped(T, t), bindless |-> p.bindless, retires |-> p.retires]
    BY <1>10 DEF UpdateTexture, Destroys
  <2>2. /\ q.textures = Dropped(T, t) /\ q.bindless = p.bindless /\ q.retires = p.retires
    BY <2>1
  <2> HIDE DEF q
  <2>3. /\ q.textures \in [Names -> Texture] /\ q.textures[t].handle = 0
        /\ q.textures[t].status = "none"
        /\ \A u \in Names : u # t => q.textures[u] = T[u]
    BY <1>2, <1>5, <2>2, DroppedIs
  <2> HIDE DEF t, T, R
  <2>4. Books(q.bindless, q.textures, R, streamed)
    BY <1>2, <1>3, <1>10, <2>2, <2>3, WantKeeps
  <2> QED
    BY <1>6, <2>2, <2>3, <2>4, StaysUpdating DEF t, T, R, q
<1>11. CASE requests[t] = "destroy" /\ T[t].handle # 0
  <2> DEFINE h == T[t].handle
             l == Len(p.retires)
             S == Append(p.retires, h)
  <2>1. q = [textures |-> Dropped(T, t), bindless |-> p.bindless, retires |-> S]
    BY <1>11 DEF UpdateTexture, Destroys
  <2>2. q.textures = Dropped(T, t) /\ q.bindless = p.bindless /\ q.retires = S
    BY <2>1
  <2> HIDE DEF q
  <2>3. R[frame] = p.retires
    OBVIOUS
  <2>4. [R EXCEPT ![frame] = S] = [retired EXCEPT ![frame] = S]
    OBVIOUS
  <2>5. p.retires \in Seq(1 .. MaxHandles) /\ l \in Nat /\ DOMAIN p.retires = 1 .. l
        /\ \A k \in 1 .. l : p.retires[k] \in 1 .. MaxHandles
    <3> HIDE DEF T, R
    <3>1. R[frame] \in Seq(1 .. MaxHandles)
      BY <1>3, BooksTypes
    <3> QED
      BY <1>3, <2>3, <3>1, BooksTypes
  <2> HIDE DEF R
  <2>6. Books(p.bindless, Dropped(T, t), [R EXCEPT ![frame] = Append(R[frame], h)], streamed)
    <3> HIDE DEF T, t
    <3> QED
      BY <1>2, <1>3, <1>11, DestroyKeeps DEF h
  <2>7. Books(q.bindless, q.textures, [retired EXCEPT ![frame] = q.retires], streamed)
    BY <2>2, <2>3, <2>4, <2>6
  <2>8. \A u \in Names : u # t => q.textures[u] = T[u]
    BY <1>2, <1>5, <2>2, DroppedIs
  <2>9. \A i \in 1 .. Len(UiTextures) : i > n + 1 => q.textures[UiTextures[i]] = ui[UiTextures[i]]
    <3> SUFFICES ASSUME NEW i \in 1 .. Len(UiTextures), i > n + 1
                 PROVE  q.textures[UiTextures[i]] = ui[UiTextures[i]]
      OBVIOUS
    <3>1. i > n /\ i # n + 1
      BY <1>1
    <3>2. UiTextures[i] # t /\ UiTextures[i] \in Names
      BY <1>1, <3>1, NamesAre
    <3> QED
      BY <2>8, <3>1, <3>2 DEF Updating
  <2>10. p.bindless.owner[h][1] = t
    <3>1. p.bindless.owner[h] = <<t, T[t].times>>
      BY <1>2, <1>3, <1>11 DEF Books, Image
    <3> QED
      BY <1>2, <1>5, <3>1
  <2>11. /\ DOMAIN S = 1 .. l + 1 /\ S[l + 1] = h
         /\ \A k \in 1 .. l : S[k] = p.retires[k]
    <3> HIDE DEF T
    <3>1. h \in 1 .. MaxHandles
      BY <1>5, <1>11 DEF T
    <3> HIDE DEF h
    <3> QED
      BY <2>5, <3>1
  <2> HIDE DEF S, h, T, t, l
  <2>12. \A k \in DOMAIN S : (k \in 1 .. l /\ S[k] = p.retires[k]) \/ (k = l + 1 /\ S[k] = h)
    <3>1. \A k \in 1 .. l + 1 : k \in 1 .. l \/ k = l + 1
      BY <2>5
    <3> QED
      BY <2>11, <3>1
  <2>13. \A k \in 1 .. l :
           \E i \in 1 .. Len(UiTextures) :
             i <= n /\ p.bindless.owner[p.retires[k]][1] = UiTextures[i] /\ UiTextures[i] # t
    <3> SUFFICES ASSUME NEW k \in 1 .. l
                 PROVE  \E i \in 1 .. Len(UiTextures) :
                          i <= n /\ p.bindless.owner[p.retires[k]][1] = UiTextures[i] /\ UiTextures[i] # t
      OBVIOUS
    <3>1. PICK i \in 1 .. Len(UiTextures) :
            i <= n /\ p.bindless.owner[p.retires[k]][1] = UiTextures[i]
      BY <2>5 DEF Updating
    <3>2. i # n + 1
      BY <3>1
    <3> QED
      BY <1>1, <3>1, <3>2, NamesAre DEF t
  <2>14. OncePer(q.bindless, q.retires)
    <3>1. \A j, k \in 1 .. l :
            p.bindless.owner[p.retires[j]][1] = p.bindless.owner[p.retires[k]][1] => j = k
      BY <2>5 DEF OncePer, Updating
    <3>2. \A k \in 1 .. l : p.bindless.owner[p.retires[k]][1] # t
      BY <2>13
    <3> SUFFICES ASSUME NEW j \in DOMAIN S, NEW k \in DOMAIN S,
                        p.bindless.owner[S[j]][1] = p.bindless.owner[S[k]][1]
                 PROVE  j = k
      BY <2>2 DEF OncePer
    <3> QED
      BY <2>10, <2>12, <3>1, <3>2
  <2>15. \A j \in DOMAIN q.retires :
           \E i \in 1 .. Len(UiTextures) :
             i <= n + 1 /\ q.bindless.owner[q.retires[j]][1] = UiTextures[i]
    <3>1. \A i \in 1 .. Len(UiTextures) : i <= n => i <= n + 1
      OBVIOUS
    <3>2. \A k \in 1 .. l : \E i \in 1 .. Len(UiTextures) :
            i <= n + 1 /\ p.bindless.owner[p.retires[k]][1] = UiTextures[i]
      BY <2>13, <3>1
    <3>3. t = UiTextures[n + 1] /\ n + 1 <= n + 1
      BY DEF t
    <3> QED
      BY <1>1, <2>2, <2>10, <2>12, <3>2, <3>3
  <2>16. OwnersStay(b, q.bindless)
    BY <2>2 DEF Updating
  <2>17. Updating(b, streamed, n + 1, q)
    BY <2>7, <2>9, <2>14, <2>15, <2>16 DEF Updating
  <2> QED
    BY <2>17 DEF q, t
<1> QED
  BY <1>4, <1>7, <1>8, <1>9, <1>10, <1>11

-----------------------------------------------------------------------------
(* Induction, by the least counterexample *)

LEMMA LeastNumber ==
  ASSUME NEW S \in SUBSET Nat, S # {}
  PROVE  \E m \in S : \A k \in S : m <= k
<1> DEFINE R == OpToRel(<, Nat)
<1>1. IsWellFoundedOn(R, Nat)
  BY NatLessThanWellFounded
<1>2. \A x, y \in Nat : <<y, x>> \in R <=> y < x
  BY DEF OpToRel
<1> HIDE DEF R
<1>3. PICK m \in S : \A k \in S : ~(<<k, m>> \in R)
  BY <1>1, WFMin
<1>4. \A k \in S : ~(k < m)
  BY <1>2, <1>3
<1>5. \A k \in S : m <= k
  BY <1>4
<1> QED
  BY <1>5

LEMMA Induct ==
  ASSUME NEW S, 0 \in S, \A n \in Nat : n \in S => n + 1 \in S
  PROVE  \A n \in Nat : n \in S
<1> SUFFICES ASSUME Nat \ S # {} PROVE FALSE
  OBVIOUS
<1>1. PICK m \in Nat \ S : \A k \in Nat \ S : m <= k
  BY LeastNumber
<1>2. m - 1 \in Nat /\ m - 1 \in S
  BY <1>1
<1> QED
  BY <1>2

\* The textures as update_texture leaves them, one after the other.
UpdatesTo(b, requests, f, n) ==
  f = [k \in 0 .. n |->
         IF k = 0 THEN [bindless |-> FreeRetired(b), textures |-> ui, retires |-> <<>>]
         ELSE UpdateTexture(f[k - 1], UiTextures[k], requests[UiTextures[k]])]

LEMMA UpdatesExist ==
  ASSUME NEW b, NEW requests
  PROVE  \A n \in Nat : \E f : UpdatesTo(b, requests, f, n)
<1> DEFINE S == {n \in Nat : \E f : UpdatesTo(b, requests, f, n)}
           start == [bindless |-> FreeRetired(b), textures |-> ui, retires |-> <<>>]
<1>1. 0 \in S
  <2>1. UpdatesTo(b, requests, [k \in 0 .. 0 |-> start], 0)
    BY DEF UpdatesTo
  <2> QED
    BY <2>1
<1>2. ASSUME NEW n \in Nat, n \in S PROVE n + 1 \in S
  <2>1. PICK f : UpdatesTo(b, requests, f, n)
    BY <1>2
  <2> DEFINE Next1(g, k) == IF k = 0 THEN start
                            ELSE UpdateTexture(g[k - 1], UiTextures[k], requests[UiTextures[k]])
             g == [k \in 0 .. n + 1 |-> IF k <= n THEN f[k] ELSE Next1(f, k)]
  <2>2. f = [k \in 0 .. n |-> Next1(f, k)]
    BY <2>1 DEF UpdatesTo
  <2>3. \A k \in 0 .. n : f[k] = Next1(f, k) /\ g[k] = f[k]
    <3> HIDE DEF Next1
    <3> QED
      BY <2>2
  <2>4. \A k \in 0 .. n + 1 : g[k] = Next1(g, k)
    <3> SUFFICES ASSUME NEW k \in 0 .. n + 1 PROVE g[k] = Next1(g, k)
      OBVIOUS
    <3>1. CASE k = 0
      <4>1. 0 \in 0 .. n /\ g[0] = f[0] /\ f[0] = Next1(f, 0)
        <5> HIDE DEF g, Next1
        <5> QED
          BY <2>3
      <4> HIDE DEF g
      <4> QED
        BY <3>1, <4>1
    <3>2. CASE k # 0
      <4>1. k - 1 \in 0 .. n /\ g[k - 1] = f[k - 1]
        BY <3>2, <2>3
      <4>2. Next1(g, k) = Next1(f, k)
        BY <3>2, <4>1
      <4>3. g[k] = IF k <= n THEN f[k] ELSE Next1(f, k)
        OBVIOUS
      <4>4. k <= n => f[k] = Next1(f, k)
        <5> HIDE DEF Next1, g
        <5> QED
          BY <2>3
      <4> QED
        BY <4>2, <4>3, <4>4
    <3> QED
      BY <3>1, <3>2
  <2>5. UpdatesTo(b, requests, g, n + 1)
    <3>1. g = [k \in 0 .. n + 1 |-> Next1(g, k)]
      <4> HIDE DEF Next1
      <4> QED
        BY <2>4
    <3> QED
      BY <3>1 DEF UpdatesTo
  <2> QED
    BY <2>5
<1> HIDE DEF S
<1>3. \A n \in Nat : n \in S
  BY <1>1, <1>2, Induct
<1> QED
  BY <1>3 DEF S

LEMMA PrepareIs ==
  ASSUME NEW b, NEW requests
  PROVE  \E f : UpdatesTo(b, requests, f, Len(UiTextures)) /\ Prepare(b, requests) = f[Len(UiTextures)]
<1>1. Len(UiTextures) \in Nat
  BY NamesAre
<1>2. \E f : UpdatesTo(b, requests, f, Len(UiTextures))
  BY <1>1, UpdatesExist
<1>3. Prepare(b, requests) = (CHOOSE f : UpdatesTo(b, requests, f, Len(UiTextures)))[Len(UiTextures)]
  BY DEF Prepare, UpdatesTo
<1> QED
  BY <1>2, <1>3

\* prepare: what waited is freed, and the books are right when the textures are done.
LEMMA PrepareKeeps ==
  ASSUME NEW b, NEW streamed, NEW requests, Books(b, ui, retired, streamed), frame \in Slot,
         Allowed(requests)
  PROVE  Updating(FreeRetired(b), streamed, Len(UiTextures), Prepare(b, requests))
<1> DEFINE l == Len(UiTextures)
           c == FreeRetired(b)
           start == [bindless |-> c, textures |-> ui, retires |-> <<>>]
<1>1. l \in Nat
  BY NamesAre
<1>2. PICK f : UpdatesTo(b, requests, f, l) /\ Prepare(b, requests) = f[l]
  BY PrepareIs
<1>3. retired \in [Slot -> Seq(1 .. MaxHandles)]
  BY DEF Books
<1>4. f[0] = start
  BY <1>1, <1>2 DEF UpdatesTo
<1>5. Updating(c, streamed, 0, f[0])
  <2>1. Books(c, ui, [retired EXCEPT ![frame] = <<>>], streamed)
    BY ReleaseKeeps DEF FreeRetired
  <2>2. OwnersStay(c, c)
    BY DEF OwnersStay
  <2>3. OncePer(c, <<>>)
    BY DEF OncePer
  <2>4. start.bindless = c /\ start.textures = ui /\ start.retires = <<>>
    OBVIOUS
  <2> HIDE DEF c, start
  <2>5. \A j \in DOMAIN start.retires : FALSE
    BY <2>4
  <2> QED
    BY <1>4, <2>1, <2>2, <2>3, <2>4, <2>5 DEF Updating
<1> DEFINE S == {n \in Nat : n <= l => Updating(c, streamed, n, f[n])}
<1> HIDE DEF c, start
<1>6. 0 \in S
  BY <1>5
<1>7. ASSUME NEW n \in Nat, n \in S PROVE n + 1 \in S
  <2> SUFFICES ASSUME n + 1 <= l PROVE Updating(c, streamed, n + 1, f[n + 1])
    OBVIOUS
  <2>1. n <= l /\ n + 1 \in 0 .. l /\ n + 1 # 0 /\ (n + 1) - 1 = n
    BY <1>1
  <2>2. f[n + 1] = UpdateTexture(f[n], UiTextures[n + 1], requests[UiTextures[n + 1]])
    BY <1>2, <2>1 DEF UpdatesTo
  <2>3. Updating(c, streamed, n, f[n])
    BY <1>7, <2>1
  <2> QED
    BY <1>3, <2>2, <2>3, StepsUpdating
<1> HIDE DEF S
<1>8. \A n \in Nat : n \in S
  BY <1>6, <1>7, Induct
<1> QED
  BY <1>1, <1>2, <1>8 DEF S, c

LEMMA RequestsAllowed ==
  ASSUME NEW requests \in Requests, Books(bindless, ui, retired, material)
  PROVE  Allowed(requests)
<1>1. \A t \in Names : ui[t].status = "ok" <=> ui[t].handle # 0
  BY DEF Books
<1>2. CASE watch = Ui
  BY <1>1, <1>2 DEF Requests, Wants, Allowed
<1>3. CASE watch # Ui
  <2>1. requests = [t \in Names |-> "nothing"]
    BY <1>3 DEF Requests
  <2> QED
    BY <2>1 DEF Allowed
<1> QED
  BY <1>2, <1>3

-----------------------------------------------------------------------------
(* The frame *)

\* The slots are waited for in turn.
LEMMA UntilNext ==
  ASSUME frame \in Slot, frame' = (frame + 1) % Slots, NEW s \in Slot
  PROVE  /\ frame' \in Slot
         /\ Until(s) \in 0 .. Slots - 1
         /\ s # frame => Until(s)' = Until(s) - 1
         /\ s = frame => Until(s) = 0 /\ Until(s)' = Slots - 1
<1>1. Slots \in Nat \ {0} /\ frame \in 0 .. Slots - 1 /\ s \in 0 .. Slots - 1
  BY NamesAre DEF Slot
<1>2. frame' = IF frame = Slots - 1 THEN 0 ELSE frame + 1
  <2>1. CASE frame = Slots - 1
    <3>1. frame + 1 = Slots
      BY <1>1, <2>1
    <3>2. Slots % Slots = 0
      BY <1>1
    <3> QED
      BY <2>1, <3>1, <3>2
  <2>2. CASE frame # Slots - 1
    <3>1. frame + 1 \in 0 .. Slots - 1
      BY <1>1, <2>2
    <3>2. (frame + 1) % Slots = frame + 1
      BY <1>1, <3>1
    <3> QED
      BY <2>2, <3>2
  <2> QED
    BY <2>1, <2>2
<1>3. frame' \in Slot
  BY <1>1, <1>2 DEF Slot
<1>4. Until(s)' = IF s < frame' THEN s - frame' + Slots ELSE s - frame'
  BY DEF Until
<1> QED
  BY <1>1, <1>2, <1>3, <1>4 DEF Until

\* A draw leaves the owner of each handle that does not wait with its slot.
LEMMA DrawIs ==
  ASSUME HandlesInv, NEW s, NEW lands \in {FALSE, MayLand}, NEW requests \in Requests,
         Draw(s, lands, requests)
  PROVE  /\ Books(bindless, ui, retired, material)'
         /\ \A r \in Slot : r # frame => retired'[r] = retired[r]
         /\ OncePer(bindless', retired'[frame])
         /\ sampled' = [sampled EXCEPT ![frame] = Samples(ui', material')]
         /\ frame' = (frame + 1) % Slots /\ write' \in 0 .. 1 /\ watch' = watch
         /\ \A h \in 1 .. MaxHandles :
              bindless.owner[h] # None /\ h \notin Range(retired[frame])
                => bindless'.owner[h] = bindless.owner[h]
<1> DEFINE streamed == IF lands THEN StreamTexture(bindless)
                       ELSE [bindless |-> bindless, material |-> material]
           b == streamed.bindless
           p == Prepare(b, requests)
<1>1. /\ material' = streamed.material
      /\ bindless' = p.bindless /\ ui' = p.textures
      /\ retired' = [retired EXCEPT ![frame] = p.retires]
      /\ sampled' = [sampled EXCEPT ![frame] = Samples(p.textures, streamed.material)]
      /\ frame' = (frame + 1) % Slots /\ write' = HistoryWritten /\ watch' = watch
  BY DEF Draw
<1>2. Books(bindless, ui, retired, material) /\ frame \in Slot /\ write \in 0 .. 1
  BY DEF HandlesInv
<1>3. Books(b, ui, retired, streamed.material) /\ OwnersStay(bindless, b)
  <2>1. CASE lands
    <3>1. material = 0
      BY <2>1 DEF MayLand
    <3> QED
      BY <1>2, <2>1, <3>1, StreamKeeps
  <2>2. CASE ~lands
    BY <1>2, <2>2 DEF OwnersStay
  <2> QED
    BY <2>1, <2>2
<1> HIDE DEF streamed, b
<1>4. Updating(FreeRetired(b), streamed.material, Len(UiTextures), p)
  BY <1>2, <1>3, RequestsAllowed, PrepareKeeps
<1> HIDE DEF p
<1>5. Books(p.bindless, p.textures, [retired EXCEPT ![frame] = p.retires], streamed.material)
      /\ OncePer(p.bindless, p.retires) /\ OwnersStay(FreeRetired(b), p.bindless)
  BY <1>4 DEF Updating
<1>6. Books(bindless, ui, retired, material)' <=> Books(bindless', ui', retired', material')
  BY DEF Books, HeldBy, BindlessSet, Images, Texture, Image
<1>7. retired \in [Slot -> Seq(1 .. MaxHandles)]
  BY <1>2 DEF Books
<1>8. retired'[frame] = p.retires /\ \A r \in Slot : r # frame => retired'[r] = retired[r]
  BY <1>1, <1>2, <1>7
<1>9. write' \in 0 .. 1
  BY <1>1, <1>2 DEF HistoryWritten
<1>10. ASSUME NEW h \in 1 .. MaxHandles, bindless.owner[h] # None, h \notin Range(retired[frame])
       PROVE  bindless'.owner[h] = bindless.owner[h]
  <2>1. b.owner[h] = bindless.owner[h]
    BY <1>3, <1>10 DEF OwnersStay
  <2>2. FreeRetired(b).owner[h] = b.owner[h]
    BY <1>10 DEF FreeRetired, ReleaseSampledImages
  <2>3. p.bindless.owner[h] = FreeRetired(b).owner[h]
    BY <1>5, <1>10, <2>1, <2>2 DEF OwnersStay
  <2> QED
    BY <1>1, <2>1, <2>2, <2>3
<1> QED
  BY <1>1, <1>5, <1>6, <1>8, <1>9, <1>10

LEMMA DrawKeeps ==
  ASSUME HandlesInv, NEW s, NEW lands \in {FALSE, MayLand}, NEW requests \in Requests,
         Draw(s, lands, requests)
  PROVE  HandlesInv'
<1>1. /\ Books(bindless, ui, retired, material)'
      /\ \A r \in Slot : r # frame => retired'[r] = retired[r]
      /\ OncePer(bindless', retired'[frame])
      /\ sampled' = [sampled EXCEPT ![frame] = Samples(ui', material')]
      /\ frame' = (frame + 1) % Slots /\ write' \in 0 .. 1 /\ watch' = watch
      /\ \A h \in 1 .. MaxHandles :
           bindless.owner[h] # None /\ h \notin Range(retired[frame])
             => bindless'.owner[h] = bindless.owner[h]
  BY DrawIs
<1>2. /\ Books(bindless, ui, retired, material) /\ frame \in Slot /\ watch \in Resources
      /\ DOMAIN sampled = Slot
      /\ \A r \in Slot : OncePer(bindless, retired[r])
      /\ SampledInv
  BY DEF HandlesInv
<1>3. frame' \in Slot /\ watch' \in Resources' /\ DOMAIN sampled' = Slot
  BY <1>1, <1>2, UntilNext DEF Resources, Screen, Buffers
<1>4. ASSUME NEW r \in Slot PROVE OncePer(bindless', retired'[r])
  <2>1. CASE r = frame
    BY <1>1, <2>1
  <2>2. CASE r # frame
    <3>1. ASSUME NEW k \in DOMAIN retired[r]
          PROVE  bindless'.owner[retired[r][k]] = bindless.owner[retired[r][k]]
      <4>1. retired[r][k] \in HeldBy(ui, retired, material)
        BY HeldIs
      <4>2. retired[r][k] \in 1 .. MaxHandles /\ bindless.owner[retired[r][k]] # None
        BY <1>2, <4>1, HeldOwned
      <4>3. retired[r][k] \notin Range(retired[frame])
        BY <1>2, <2>2 DEF Books, Range
      <4> QED
        BY <1>1, <4>2, <4>3
    <3>2. \A j, k \in DOMAIN retired[r] :
            bindless.owner[retired[r][j]][1] = bindless.owner[retired[r][k]][1] => j = k
      BY <1>2 DEF OncePer
    <3> SUFFICES ASSUME NEW j \in DOMAIN retired[r], NEW k \in DOMAIN retired[r],
                        bindless'.owner[retired[r][j]][1] = bindless'.owner[retired[r][k]][1]
                 PROVE  j = k
      BY <1>1, <2>2 DEF OncePer
    <3>3. /\ bindless'.owner[retired[r][j]] = bindless.owner[retired[r][j]]
          /\ bindless'.owner[retired[r][k]] = bindless.owner[retired[r][k]]
      BY <3>1
    <3> QED
      BY <3>2, <3>3
  <2> QED
    BY <2>1, <2>2
<1>5. ASSUME NEW r \in Slot, NEW e \in sampled'[r]
      PROVE  /\ e.handle \in 1 .. MaxHandles
             /\ e.image # None /\ bindless'.owner[e.handle] = e.image
             /\ \A i \in Slot : e.handle \in Range(retired'[i]) => Until(r)' < Until(i)'
  <2>1. CASE r = frame
    <3>1. e \in Samples(ui', material')
      BY <1>1, <1>2, <2>1
    <3>2. \/ \E t \in Names : /\ ui'[t].handle # 0
                              /\ e = [handle |-> ui'[t].handle, image |-> Image(t, ui'[t])]
          \/ material' > 0 /\ e = [handle |-> material', image |-> <<"material", 0>>]
      <4>1. \A t \in Names : ui'[t].status = "ok" => ui'[t].handle # 0
        BY <1>1 DEF Books
      <4> QED
        BY <3>1, <4>1 DEF Samples
    <3>3. e.handle \in HeldBy(ui', retired', material') /\ bindless'.owner[e.handle] = e.image
      <4>1. /\ \A t \in Names : ui'[t].handle # 0 => bindless'.owner[ui'[t].handle] = Image(t, ui'[t])
            /\ material' > 0 => bindless'.owner[material'] = <<"material", 0>>
        BY <1>1 DEF Books, Image
      <4> QED
        BY <3>2, <4>1, HeldIs
    <3>4. e.handle \in 1 .. MaxHandles /\ bindless'.owner[e.handle] # None
      <4>1. Books(bindless', ui', retired', material')
        BY <1>1 DEF Books, HeldBy, BindlessSet, Images, Texture, Image
      <4> QED
        BY <3>3, <4>1, HeldOwned
    <3>5. \A i \in Slot : e.handle \notin Range(retired'[i])
      <4>1. \A i \in Slot : \A k \in DOMAIN retired'[i] :
              /\ bindless'.owner[retired'[i][k]] \in Names \X (0 .. 1)
              /\ \A t \in Names : retired'[i][k] # ui'[t].handle
        BY <1>1 DEF Books
      <4>2. ASSUME NEW i \in Slot, NEW k \in DOMAIN retired'[i] PROVE retired'[i][k] # e.handle
        BY <3>2, <3>3, <4>1, ImagesAre
      <4> QED
        BY <4>2 DEF Range
    <3> QED
      BY <3>3, <3>4, <3>5
  <2>2. CASE r # frame
    <3>1. e \in sampled[r]
      BY <1>1, <1>2, <2>2
    <3>2. /\ e.handle \in 1 .. MaxHandles
          /\ e.image # None /\ bindless.owner[e.handle] = e.image
          /\ \A i \in Slot : e.handle \in Range(retired[i]) => Until(r) < Until(i)
      BY <1>2, <3>1 DEF SampledInv
    <3>3. /\ Until(r) \in 0 .. Slots - 1 /\ Until(r)' = Until(r) - 1
          /\ Until(frame) = 0
          /\ \A i \in Slot : i # frame => Until(i) \in 0 .. Slots - 1 /\ Until(i)' = Until(i) - 1
      BY <1>1, <1>2, <2>2, UntilNext
    <3>4. e.handle \notin Range(retired[frame])
      BY <1>2, <3>2, <3>3
    <3>5. bindless'.owner[e.handle] = e.image
      BY <1>1, <3>2, <3>4
    <3>6. ASSUME NEW i \in Slot, e.handle \in Range(retired'[i]) PROVE Until(r)' < Until(i)'
      <4>1. CASE i # frame
        <5>1. Until(r) < Until(i) /\ Until(i) \in 0 .. Slots - 1 /\ Until(i)' = Until(i) - 1
          BY <1>1, <3>2, <3>3, <3>6, <4>1
        <5> QED
          BY <3>3, <5>1
      <4>2. CASE i = frame
        <5>1. Until(i)' = Slots - 1
          BY <1>1, <1>2, <4>2, UntilNext
        <5> QED
          BY <3>3, <5>1, NamesAre
      <4> QED
        BY <4>1, <4>2
    <3> QED
      BY <3>2, <3>5, <3>6
  <2> QED
    BY <2>1, <2>2
<1>6. SampledInv'
  BY <1>5 DEF SampledInv, Slot
<1>7. \A r \in Slot : OncePer(bindless, retired[r])'
  BY <1>4 DEF OncePer
<1> QED
  BY <1>1, <1>3, <1>6, <1>7 DEF HandlesInv, Slot

LEMMA OthersKeep ==
  ASSUME HandlesInv,
         \/ \E on \in BOOLEAN : SetTaa(on)
         \/ ResetTaa \/ OnSwapchainChanged \/ UNCHANGED vars
  PROVE  HandlesInv'
<1>1. UNCHANGED <<textureVars, frame, watch, write>>
  BY DEF SetTaa, ResetTaa, OnSwapchainChanged, vars, rememberedVars
<1>2. /\ watch \in Resources /\ write \in 0 .. 1 /\ frame \in Slot
      /\ Books(bindless, ui, retired, material)
      /\ \A s \in Slot : OncePer(bindless, retired[s])
  BY DEF HandlesInv
<1>3. Books(bindless, ui, retired, material)'
  <2>1. Books(bindless', ui', retired', material')
    BY <1>1, <1>2 DEF textureVars
  <2> QED
    BY <2>1 DEF Books, HeldBy, BindlessSet, Images, Texture, Image
<1>4. \A s \in Slot : OncePer(bindless, retired[s])'
  BY <1>1, <1>2 DEF OncePer, textureVars
<1>5. DOMAIN sampled' = Slot /\ SampledInv'
  <2>1. CASE UNCHANGED sampled
    BY <1>1, <2>1 DEF HandlesInv, SampledInv, Until, Slot, textureVars
  <2>2. CASE sampled' = [s \in Slot |-> {}]
    BY <2>2 DEF SampledInv, Slot
  <2> QED
    BY <2>1, <2>2 DEF SetTaa, ResetTaa, OnSwapchainChanged, vars
<1>6. watch' \in Resources' /\ frame' \in Slot' /\ write' \in 0 .. 1
  BY <1>1, <1>2 DEF Resources, Screen, Buffers, Slot
<1> QED
  BY <1>3, <1>4, <1>5, <1>6 DEF HandlesInv, Slot

LEMMA InitHandles == Init => HandlesInv
<1> SUFFICES ASSUME Init PROVE HandlesInv
  OBVIOUS
<1>1. /\ watch \in Resources /\ write = 0 /\ material = 0 /\ frame = 0
      /\ bindless = [owner |-> [h \in 1 .. MaxHandles |-> None], free |-> <<>>, next |-> 1]
      /\ ui = [t \in Names |-> Unused] /\ retired = [s \in Slot |-> <<>>]
      /\ sampled = [s \in Slot |-> {}]
  BY DEF Init
<1>2. MaxHandles \in Nat /\ Slots \in Nat \ {0}
  BY NamesAre
<1>3. frame \in Slot /\ write \in 0 .. 1 /\ material \in -1 .. MaxHandles /\ ~(material > 0)
  BY <1>1, <1>2 DEF Slot
<1>4. /\ bindless.owner = [h \in 1 .. MaxHandles |-> None]
      /\ bindless.free = <<>> /\ bindless.next = 1
      /\ bindless = [owner |-> bindless.owner, free |-> bindless.free, next |-> bindless.next]
  BY <1>1
<1>5. bindless \in BindlessSet
  <2>1. bindless.owner \in [1 .. MaxHandles -> Images]
    BY <1>4, ImagesAre
  <2>2. bindless.free \in Seq(1 .. MaxHandles) /\ bindless.next \in 1 .. MaxHandles + 1
    BY <1>2, <1>4
  <2> QED
    BY <1>4, <2>1, <2>2 DEF BindlessSet
<1>6. ui \in [Names -> Texture] /\ \A t \in Names : ui[t].handle = 0 /\ ui[t].status = "none"
  BY <1>1, <1>2 DEF Texture, Unused
<1>7. retired \in [Slot -> Seq(1 .. MaxHandles)] /\ \A s \in Slot : DOMAIN retired[s] = {}
  BY <1>1
<1>8. \A h : h \notin HeldBy(ui, retired, material)
  BY <1>3, <1>6, <1>7, HeldIs
<1>9. DOMAIN bindless.free = {} /\ Range(bindless.free) = {} /\ IsInjective(bindless.free)
  BY <1>4 DEF Range, IsInjective
<1>10. Books(bindless, ui, retired, material)
  BY <1>2, <1>3, <1>4, <1>5, <1>6, <1>7, <1>8, <1>9 DEF Books
<1>11. (\A s \in Slot : OncePer(bindless, retired[s])) /\ SampledInv /\ DOMAIN sampled = Slot
  BY <1>1, <1>7 DEF OncePer, SampledInv
<1> QED
  BY <1>1, <1>3, <1>10, <1>11 DEF HandlesInv

LEMMA NextHandles == HandlesInv /\ [Next]_vars => HandlesInv'
<1> SUFFICES ASSUME HandlesInv, [Next]_vars PROVE HandlesInv'
  OBVIOUS
<1>1. CASE Draws
  BY <1>1, DrawKeeps DEF Draws
<1>2. CASE ~Draws
  BY <1>2, OthersKeep DEF Next
<1> QED
  BY <1>1, <1>2

LEMMA AtMostOne ==
  ASSUME NEW S, \A x, y \in S : x = y
  PROVE  Cardinality(S) <= 1
<1>1. CASE S = {}
  BY <1>1, FS_EmptySet
<1>2. ASSUME NEW x \in S PROVE Cardinality(S) = 1
  <2>1. S = {x}
    OBVIOUS
  <2> QED
    BY <2>1, FS_Singleton
<1> QED
  BY <1>1, <1>2

\* Handle by handle is as good as the sums.
LEMMA BooksBalance ==
  ASSUME NEW b, NEW textures, NEW retires, NEW streamed, Books(b, textures, retires, streamed)
  PROVE  /\ HeldBy(textures, retires, streamed) \cup Range(b.free) = 1 .. b.next - 1
         /\ Cardinality(HeldBy(textures, retires, streamed)) + Len(b.free) = b.next - 1
         /\ Len(b.free) \in 0 .. MaxHandles
<1> DEFINE H == HeldBy(textures, retires, streamed)
           F == Range(b.free)
           l == Len(b.free)
           n == b.next - 1
<1>1. /\ b.next \in 1 .. MaxHandles + 1 /\ MaxHandles \in Nat
      /\ l \in Nat /\ DOMAIN b.free = 1 .. l /\ b.free \in Seq(1 .. MaxHandles)
      /\ \A k \in 1 .. l : b.free[k] \in 1 .. MaxHandles
  BY BooksTypes, NamesAre
<1>2. n \in Nat /\ n <= MaxHandles /\ b.next = n + 1
  BY <1>1
<1>3. \A h \in H : h \in 1 .. MaxHandles /\ b.owner[h] # None
  BY HeldOwned
<1>4. \A h \in F : h \in 1 .. MaxHandles /\ b.owner[h] = None
  BY <1>1 DEF Books, Range
<1>5. \A h \in 1 .. MaxHandles : h < b.next <=> h \in H \cup F
  BY DEF Books
<1> HIDE DEF H, F
<1>6. H \cup F = 1 .. n
  <2>1. ASSUME NEW h, h \in H \cup F PROVE h \in 1 .. n
    <3>1. h \in 1 .. MaxHandles /\ h < b.next
      BY <1>3, <1>4, <1>5, <2>1
    <3> QED
      BY <1>2, <3>1
  <2>2. ASSUME NEW h \in 1 .. n PROVE h \in H \cup F
    <3> HIDE DEF n
    <3>1. h \in 1 .. MaxHandles /\ h < b.next
      BY <1>1, <1>2
    <3> QED
      BY <1>5, <3>1
  <2> QED
    BY <2>1, <2>2
<1>7. H \cap F = {}
  BY <1>3, <1>4
<1>8. IsFiniteSet(1 .. n) /\ Cardinality(1 .. n) = n
  BY <1>2, FS_Interval
<1>9. H \in SUBSET (1 .. n) /\ F \in SUBSET (1 .. n)
  BY <1>6
<1>10. IsFiniteSet(H) /\ IsFiniteSet(F)
  BY <1>8, <1>9, FS_Subset
<1>11. Cardinality(H) \in Nat /\ Cardinality(F) \in Nat
  BY <1>10, FS_CardinalityType
<1>12. Cardinality(H \cup F) = Cardinality(H) + Cardinality(F)
  <2>1. Cardinality(H \cup F) = Cardinality(H) + Cardinality(F) - Cardinality(H \cap F)
    BY <1>10, FS_Union
  <2>2. Cardinality(H \cap F) = 0
    BY <1>7, FS_EmptySet
  <2> QED
    BY <1>11, <2>1, <2>2
<1>13. Cardinality(F) = l
  <2>1. IsFiniteSet(1 .. l) /\ Cardinality(1 .. l) = l
    <3>1. l \in Nat
      BY <1>1
    <3> HIDE DEF l
    <3> QED
      BY <3>1, FS_Interval
  <2>2. b.free \in [1 .. l -> F] /\ \A h \in F : \E k \in 1 .. l : b.free[k] = h
    BY <1>1, LenProperties DEF F, Range
  <2>3. IsInjective(b.free)
    BY DEF Books
  <2>4. b.free \in Bijection(1 .. l, F)
    BY <1>1, <2>2, <2>3 DEF Bijection, Injection, Surjection, IsInjective
  <2>5. ExistsBijection(1 .. l, F)
    BY <2>4 DEF ExistsBijection
  <2> QED
    BY <2>1, <2>5, FS_Bijection
<1>14. Cardinality(H) + l = n
  BY <1>6, <1>8, <1>12, <1>13
<1>15. l \in 0 .. MaxHandles
  BY <1>1, <1>2, <1>11, <1>14
<1> QED
  BY <1>6, <1>14, <1>15 DEF H, F

LEMMA HandlesInvHolds == HandlesInv => HandlesHold
<1> SUFFICES ASSUME HandlesInv PROVE HandlesHold
  OBVIOUS
<1>1. /\ watch \in Resources /\ write \in 0 .. 1 /\ frame \in Slot
      /\ Books(bindless, ui, retired, material)
      /\ \A s \in Slot : OncePer(bindless, retired[s])
      /\ SampledInv
  BY DEF HandlesInv
<1>2. SampledUntilDone
  BY <1>1 DEF SampledInv, SampledUntilDone
<1>3. Held = HeldBy(ui, retired, material)
  BY DEF Held, HeldBy
<1>4. /\ Held \cup Range(bindless.free) = 1 .. bindless.next - 1
      /\ Cardinality(Held) + Len(bindless.free) = bindless.next - 1
      /\ Len(bindless.free) \in 0 .. MaxHandles
  BY <1>1, <1>3, BooksBalance
<1>5. material \in -1 .. MaxHandles /\ IsInjective(bindless.free)
  BY <1>1 DEF Books
<1>6. bindless.free \in SeqOf(1 .. MaxHandles, MaxHandles)
  <2>1. bindless.free \in [1 .. Len(bindless.free) -> 1 .. MaxHandles]
    BY <1>1, BooksTypes, LenProperties
  <2> QED
    BY <1>4, <2>1 DEF SeqOf
<1>7. \A h \in 1 .. MaxHandles : bindless.owner[h] # None <=> h \in Held
  BY <1>1, <1>3, HeldOwned
<1>8. ASSUME NEW s \in Slot, NEW t \in Names
      PROVE  Cardinality({k \in DOMAIN retired[s] : bindless.owner[retired[s][k]][1] = t}) <= 1
  <2> DEFINE S == {k \in DOMAIN retired[s] : bindless.owner[retired[s][k]][1] = t}
  <2>1. \A j, k \in S : j = k
    BY <1>1 DEF OncePer
  <2> HIDE DEF S
  <2>2. Cardinality(S) <= 1
    BY <2>1, AtMostOne
  <2> QED
    BY <2>2 DEF S
<1>9. HandlesAccounted
  BY <1>1, <1>4, <1>5, <1>6, <1>7, <1>8 DEF HandlesAccounted
<1> QED
  BY <1>2, <1>9 DEF HandlesHold

\* However textures come and go, with any number of handles, of the UI's
\* textures and of frames in flight: no handle of the bindless set is lost or
\* given twice, and none is given on while a frame that samples it may run.
THEOREM HandlesStayRight == Spec => []HandlesHold
<1>1. Spec => []HandlesInv
  BY InitHandles, NextHandles, PTL DEF Spec
<1> QED
  BY <1>1, HandlesInvHolds, PTL

-----------------------------------------------------------------------------
(* A resource, as the commands find it *)

IsState(r) ==
  /\ r = [layout |-> r.layout, holds |-> r.holds, writer |-> r.writer, visible |-> r.visible,
          after |-> r.after, faults |-> r.faults]
  /\ r.after \in [Stages -> SUBSET Stages]

\* Nothing wrong so far, in this layout and holding one of these; its last write
\* is visible to seen, busy may have read it since, and free needs not wait for them.
Fine(r, layout, holds, seen, busy, free) ==
  /\ IsState(r) /\ r.faults = {} /\ r.layout = layout /\ r.holds \in holds
  /\ r.writer = "nobody" \/ seen \subseteq r.visible
  /\ \A s \in Stages : free \subseteq r.after[s] /\ (s \in busy \/ r.after[s] = Stages)

\* Just written by a stage, and visible to none.
Wrote(r, layout, holds, stage) ==
  /\ IsState(r) /\ r.faults = {} /\ r.layout = layout /\ r.holds \in holds
  /\ r.writer = stage /\ \A s \in Stages : r.after[s] = Stages

\* What an image out of which nothing is kept needs, to be put in a layout after
\* these stages.
Movable(r, src) ==
  /\ IsState(r) /\ r.faults = {}
  /\ r.writer = "nobody" \/ r.visible \cap src # {}
  /\ \A s \in Stages : s \in src \/ r.after[s] = Stages

\* What barriers for others may do to it: only more is visible, and more waits.
AtLeast(q, r) ==
  /\ IsState(q) /\ q.layout = r.layout /\ q.holds = r.holds /\ q.writer = r.writer
  /\ q.faults = r.faults /\ r.visible \subseteq q.visible
  /\ \A s \in Stages : r.after[s] \subseteq q.after[s]

LEMMA LeastKeeps ==
  ASSUME NEW q, NEW r, AtLeast(q, r)
  PROVE  /\ \A layout, holds, seen, busy, free :
              Fine(r, layout, holds, seen, busy, free) => Fine(q, layout, holds, seen, busy, free)
         /\ \A layout, holds, stage :
              Wrote(r, layout, holds, stage) => Wrote(q, layout, holds, stage)
         /\ \A src : Movable(r, src) => Movable(q, src)
<1>1. \A s \in Stages : r.after[s] \subseteq q.after[s] /\ q.after[s] \subseteq Stages
  BY DEF AtLeast, IsState
<1>2. \A s \in Stages : r.after[s] = Stages => q.after[s] = Stages
  BY <1>1
<1> QED
  BY <1>1, <1>2 DEF AtLeast, Fine, Wrote, Movable

LEMMA LeastSelf == \A r : IsState(r) => AtLeast(r, r)
BY DEF AtLeast

LEMMA LeastOn == \A p, q, r : AtLeast(q, r) /\ AtLeast(p, q) => AtLeast(p, r)
BY DEF AtLeast

LEMMA LooserFine ==
  ASSUME NEW r, NEW layout, NEW holds, NEW seen, NEW busy, NEW free,
         Fine(r, layout, holds, seen, busy, free),
         NEW more, holds \subseteq more, NEW less, less \subseteq seen,
         NEW busier, busy \subseteq busier
  PROVE  Fine(r, layout, more, less, busier, {})
BY DEF Fine

LEMMA FineMoves ==
  ASSUME NEW r, NEW layout, NEW holds, NEW seen, NEW busy, NEW free,
         Fine(r, layout, holds, seen, busy, free), NEW src, busy \subseteq src, seen \cap src # {}
  PROVE  Movable(r, src)
BY DEF Fine, Movable

-----------------------------------------------------------------------------
(* One command *)

\* A barrier that does not name it.
LEMMA WaitedLeast ==
  ASSUME NEW r, IsState(r), NEW ds, \A d \in ds : d.dst \subseteq Stages
  PROVE  AtLeast(Waited(r, ds), r)
<1> DEFINE V == UNION {d.dst : d \in {e \in ds : e.of = "memory" /\ Flushes(r, e)}}
           W(s) == UNION {d.dst : d \in {e \in ds : Reaches(r, e, s)}}
           q == Waited(r, ds)
<1>1. /\ q.layout = r.layout /\ q.holds = r.holds /\ q.writer = r.writer /\ q.faults = r.faults
      /\ q.visible = r.visible \cup V
      /\ q.after = [s \in Stages |-> r.after[s] \cup W(s)]
      /\ q = [layout |-> q.layout, holds |-> q.holds, writer |-> q.writer, visible |-> q.visible,
              after |-> q.after, faults |-> q.faults]
  <2> HIDE DEF V, W
  <2>1. r = [layout |-> r.layout, holds |-> r.holds, writer |-> r.writer, visible |-> r.visible,
             after |-> r.after, faults |-> r.faults]
    BY DEF IsState
  <2>2. q = [r EXCEPT !.visible = @ \cup V, !.after = [s \in Stages |-> @[s] \cup W(s)]]
    BY DEF Waited, V, W
  <2> QED
    BY <2>1, <2>2
<1>2. \A s \in Stages : W(s) \subseteq Stages /\ r.after[s] \subseteq Stages
  BY DEF IsState
<1> HIDE DEF V, W
<1>3. q.after \in [Stages -> SUBSET Stages]
  <2> HIDE DEF q
  <2> QED
    BY <1>1, <1>2
<1>4. \A s \in Stages : r.after[s] \subseteq q.after[s]
  <2> HIDE DEF q
  <2> QED
    BY <1>1
<1>5. r.visible \subseteq q.visible
  BY <1>1
<1>6. IsState(q)
  <2> HIDE DEF q
  <2> QED
    BY <1>1, <1>3 DEF IsState
<1> QED
  BY <1>1, <1>4, <1>5, <1>6 DEF AtLeast

LEMMA OthersBarrier ==
  ASSUME NEW r, IsState(r), NEW w, NEW ds, \A d \in ds : d.of # w /\ d.dst \subseteq Stages
  PROVE  /\ After(r, w, Barrier(ds)) = Waited(r, ds)
         /\ AtLeast(After(r, w, Barrier(ds)), r)
<1>1. Barrier(ds).op = "barrier" /\ Barrier(ds).what = ds
  BY DEF Barrier
<1>2. After(r, w, Barrier(ds)) = AfterBarrier(r, w, ds)
  BY <1>1 DEF After
<1>3. AfterBarrier(r, w, ds) = Waited(r, ds)
  BY DEF AfterBarrier
<1> QED
  BY <1>2, <1>3, WaitedLeast

LEMMA OthersPass ==
  ASSUME NEW r, NEW w, NEW uses, \A a \in uses : a.of # w
  PROVE  After(r, w, Pass(uses)) = r
<1>1. Pass(uses).op = "pass" /\ Pass(uses).what = uses
  BY DEF Pass
<1>2. {a \in uses : a.of = w} = {}
  OBVIOUS
<1> QED
  BY <1>1, <1>2 DEF After

\* A transition of its own.
LEMMA BarrierMoves ==
  ASSUME NEW r, NEW w, NEW ds, NEW d, {e \in ds : e.of = w} = {d}
  PROVE  After(r, w, Barrier(ds)) = Moved(r, d)
<1>1. Barrier(ds).op = "barrier" /\ Barrier(ds).what = ds
  BY DEF Barrier
<1>2. After(r, w, Barrier(ds)) = AfterBarrier(r, w, ds)
  BY <1>1 DEF After
<1>3. d \in ds /\ d.of = w /\ \A e \in ds : e.of = w => e = d
  OBVIOUS
<1>4. (CHOOSE e \in ds : e.of = w) = d
  BY <1>3
<1> QED
  BY <1>2, <1>3, <1>4 DEF AfterBarrier

LEMMA MovedIs ==
  ASSUME NEW r, r.faults = {}, NEW d, Ordered(r, d), d.from \in {"undefined", r.layout}
  PROVE  /\ IsState(Moved(r, d)) /\ Moved(r, d).faults = {} /\ Moved(r, d).layout = d.to
         /\ Moved(r, d).holds = IF d.from = "undefined" THEN "nothing" ELSE r.holds
         /\ Moved(r, d).visible = d.dst
         /\ \A s \in Stages : Moved(r, d).after[s] = Stages
<1>1. Moved(r, d).faults = {}
  BY DEF Moved
<1> QED
  BY <1>1 DEF Moved, IsState

\* It is what a barrier does to it: this and no other.
Moves(ds, w, from, to, src, dst, flush) ==
  {e \in ds : e.of = w} = {Transition(w, from, to, src, dst, flush)}

LEMMA MovesFromAny ==
  ASSUME NEW r, NEW w, NEW ds, NEW to, NEW src, NEW dst, NEW flush, Movable(r, src),
         Moves(ds, w, "undefined", to, src, dst, flush)
  PROVE  Fine(After(r, w, Barrier(ds)), to, {"nothing"}, dst, {}, Stages)
<1> DEFINE d == Transition(w, "undefined", to, src, dst, flush)
<1>1. d.from = "undefined" /\ d.to = to /\ d.src = src /\ d.dst = dst /\ d.flush = flush
  BY DEF Transition
<1>2. After(r, w, Barrier(ds)) = Moved(r, d)
  BY BarrierMoves DEF Moves
<1> HIDE DEF d
<1>3. Ordered(r, d)
  BY <1>1 DEF Ordered, Movable, Flushes, Reaches
<1>4. r.faults = {}
  BY DEF Movable
<1> QED
  BY <1>1, <1>2, <1>3, <1>4, MovedIs DEF Fine

LEMMA MovesWritten ==
  ASSUME NEW r, NEW w, NEW ds, NEW from, NEW to, NEW src, NEW dst, NEW holds, NEW stage,
         Wrote(r, from, holds, stage), stage \in src, from # "undefined",
         Moves(ds, w, from, to, src, dst, TRUE)
  PROVE  Fine(After(r, w, Barrier(ds)), to, holds, dst, {}, Stages)
<1> DEFINE d == Transition(w, from, to, src, dst, TRUE)
<1>1. d.from = from /\ d.to = to /\ d.src = src /\ d.dst = dst /\ d.flush = TRUE
  BY DEF Transition
<1>2. After(r, w, Barrier(ds)) = Moved(r, d)
  BY BarrierMoves DEF Moves
<1> HIDE DEF d
<1>3. Ordered(r, d)
  BY <1>1 DEF Ordered, Wrote, Flushes, Reaches
<1>4. r.faults = {} /\ r.layout = from /\ r.holds \in holds
  BY DEF Wrote
<1> QED
  BY <1>1, <1>2, <1>3, <1>4, MovedIs DEF Fine

LEMMA MovesFine ==
  ASSUME NEW r, NEW w, NEW ds, NEW from, NEW to, NEW src, NEW dst, NEW holds, NEW flush,
         NEW seen, NEW busy, NEW free,
         Fine(r, from, holds, seen, busy, free), busy \subseteq src, seen \cap src # {},
         from # "undefined",
         Moves(ds, w, from, to, src, dst, flush)
  PROVE  Fine(After(r, w, Barrier(ds)), to, holds, dst, {}, Stages)
<1> DEFINE d == Transition(w, from, to, src, dst, flush)
<1>1. d.from = from /\ d.to = to /\ d.src = src /\ d.dst = dst /\ d.flush = flush
  BY DEF Transition
<1>2. After(r, w, Barrier(ds)) = Moved(r, d)
  BY BarrierMoves DEF Moves
<1> HIDE DEF d
<1>3. Ordered(r, d)
  BY <1>1 DEF Ordered, Fine, Flushes, Reaches
<1>4. r.faults = {} /\ r.layout = from /\ r.holds \in holds
  BY DEF Fine
<1> QED
  BY <1>1, <1>2, <1>3, <1>4, MovedIs DEF Fine

\* A memory barrier among others': it flushes what a stage wrote.
LEMMA MemoryFlushes ==
  ASSUME NEW r, NEW w, w # "memory", NEW ds, \A e \in ds : e.of # w /\ e.dst \subseteq Stages,
         NEW src, NEW dst, Memory(src, dst, TRUE) \in ds,
         NEW layout, NEW holds, NEW stage \in src, Wrote(r, layout, holds, stage)
  PROVE  Fine(After(r, w, Barrier(ds)), layout, holds, dst, {}, Stages)
<1> DEFINE d == Memory(src, dst, TRUE)
           q == After(r, w, Barrier(ds))
<1>1. d.of = "memory" /\ d.src = src /\ d.dst = dst /\ d.flush = TRUE
  BY DEF Memory, Transition
<1>2. q = Waited(r, ds) /\ AtLeast(q, r)
  BY OthersBarrier DEF Wrote
<1>3. Flushes(r, d)
  BY <1>1 DEF Flushes, Wrote
<1>4. dst \subseteq q.visible
  <2> DEFINE V == UNION {e.dst : e \in {x \in ds : x.of = "memory" /\ Flushes(r, x)}}
  <2>1. dst \subseteq V
    <3> HIDE DEF d
    <3>1. d \in ds
      BY DEF d
    <3> QED
      BY <1>1, <1>3, <3>1
  <2>2. r = [layout |-> r.layout, holds |-> r.holds, writer |-> r.writer, visible |-> r.visible,
             after |-> r.after, faults |-> r.faults]
    BY DEF Wrote, IsState
  <2>3. Waited(r, ds).visible = r.visible \cup V
    <3>1. Waited(r, ds) = [r EXCEPT !.visible = @ \cup V, !.after = Waited(r, ds).after]
      <4> DEFINE A == [s \in Stages |->
                         r.after[s] \cup UNION {e.dst : e \in {x \in ds : Reaches(r, x, s)}}]
      <4>1. Waited(r, ds) = [r EXCEPT !.visible = @ \cup V, !.after = A]
        BY DEF Waited
      <4> HIDE DEF A, V
      <4> QED
        BY <2>2, <4>1
    <3> HIDE DEF V
    <3> QED
      BY <2>2, <3>1
  <2> QED
    BY <1>2, <2>1, <2>3
<1>5. Wrote(q, layout, holds, stage)
  BY <1>2, LeastKeeps
<1> HIDE DEF d
<1> QED
  BY <1>4, <1>5 DEF Fine, Wrote

\* Or lets a stage write again, after it has read.
LEMMA MemoryFrees ==
  ASSUME NEW r, NEW w, NEW ds, \A e \in ds : e.of # w /\ e.dst \subseteq Stages,
         NEW src, NEW dst, NEW flush, Memory(src, dst, flush) \in ds,
         NEW layout, NEW holds, NEW seen, NEW busy, NEW free,
         Fine(r, layout, holds, seen, busy, free), busy \subseteq src, dst \subseteq Stages
  PROVE  Fine(After(r, w, Barrier(ds)), layout, holds, seen, busy, dst)
<1> DEFINE d == Memory(src, dst, flush)
           q == After(r, w, Barrier(ds))
<1>1. d.of = "memory" /\ d.src = src /\ d.dst = dst
  BY DEF Memory, Transition
<1>2. q = Waited(r, ds) /\ AtLeast(q, r)
  BY OthersBarrier DEF Fine
<1>3. \A s \in Stages : dst \subseteq q.after[s]
  <2> DEFINE W(s) == UNION {e.dst : e \in {x \in ds : Reaches(r, x, s)}}
             A == [s \in Stages |-> r.after[s] \cup W(s)]
             V == UNION {e.dst : e \in {x \in ds : x.of = "memory" /\ Flushes(r, x)}}
  <2>1. \A s \in busy : dst \subseteq W(s)
    <3> SUFFICES ASSUME NEW s \in busy PROVE dst \subseteq W(s)
      OBVIOUS
    <3> HIDE DEF d
    <3>1. d \in ds
      BY DEF d
    <3>2. Reaches(r, d, s)
      BY <1>1 DEF Reaches
    <3> QED
      BY <1>1, <3>1, <3>2
  <2>2. r = [layout |-> r.layout, holds |-> r.holds, writer |-> r.writer, visible |-> r.visible,
             after |-> r.after, faults |-> r.faults]
    BY DEF Fine, IsState
  <2>3. Waited(r, ds).after = A
    <3>1. Waited(r, ds) = [r EXCEPT !.visible = @ \cup V, !.after = A]
      BY DEF Waited
    <3> HIDE DEF A, V
    <3> QED
      BY <2>2, <3>1
  <2>4. \A s \in Stages : q.after[s] = r.after[s] \cup W(s)
    <3> HIDE DEF W
    <3> QED
      BY <1>2, <2>3
  <2>5. \A s \in Stages : s \in busy \/ r.after[s] = Stages
    BY DEF Fine
  <2> HIDE DEF W, q
  <2> QED
    BY <2>1, <2>4, <2>5
<1>4. Fine(q, layout, holds, seen, busy, free)
  BY <1>2, LeastKeeps
<1> HIDE DEF d
<1> QED
  BY <1>3, <1>4 DEF Fine

\* A pass that only reads it.
LEMMA PassReads ==
  ASSUME NEW r, NEW w, NEW uses, NEW layout, NEW holds, NEW seen, NEW busy, NEW free,
         Fine(r, layout, holds, seen, busy, free), NEW busier, busy \subseteq busier,
         \A a \in uses : a.of = w =>
           ~a.writes /\ a.layout = layout /\ holds \subseteq a.contents
           /\ a.stage \in seen \cap busier
  PROVE  Fine(After(r, w, Pass(uses)), layout, holds, seen, busier, {})
<1> DEFINE mine == {a \in uses : a.of = w}
           readers == {a.stage : a \in {x \in mine : ~x.writes}}
           faults == r.faults \cup UNION {Faults(r, a) : a \in mine}
           after == [s \in Stages |-> IF s \in readers THEN {} ELSE r.after[s]]
           q == AfterAccesses(r, mine)
<1>1. Pass(uses).op = "pass" /\ Pass(uses).what = uses
  BY DEF Pass
<1>2. After(r, w, Pass(uses)) = IF mine = {} THEN r ELSE q
  BY <1>1 DEF After
<1>3. \A a \in mine : ~a.writes /\ a.layout = layout /\ holds \subseteq a.contents
                      /\ a.stage \in seen /\ a.stage \in busier
  OBVIOUS
<1>4. \A a \in mine : Faults(r, a) = {}
  BY <1>3 DEF Faults, Fine
<1>5. faults = {}
  <2>1. UNION {Faults(r, a) : a \in mine} = {}
    BY <1>4
  <2> QED
    BY <2>1 DEF Fine
<1>6. readers \subseteq busier
  BY <1>3
<1>7. r = [layout |-> r.layout, holds |-> r.holds, writer |-> r.writer, visible |-> r.visible,
           after |-> r.after, faults |-> r.faults]
  BY DEF Fine, IsState
<1>8. r.after \in [Stages -> SUBSET Stages]
  BY DEF Fine, IsState
<1>9. q = [r EXCEPT !.faults = faults, !.after = after]
  <2>1. ~\E a \in mine : a.writes
    BY <1>3
  <2>2. q = [r EXCEPT !.faults = faults,
                      !.after = [s \in Stages |-> IF s \in readers THEN {} ELSE @[s]]]
    BY <2>1 DEF AfterAccesses
  <2> HIDE DEF q, mine, readers, faults
  <2> QED
    BY <2>2
<1>10. /\ q.layout = r.layout /\ q.holds = r.holds /\ q.writer = r.writer
       /\ q.visible = r.visible /\ q.faults = {} /\ q.after = after
       /\ q = [layout |-> q.layout, holds |-> q.holds, writer |-> q.writer, visible |-> q.visible,
               after |-> q.after, faults |-> q.faults]
  <2> HIDE DEF q, after, faults
  <2> QED
    BY <1>5, <1>7, <1>9
<1>11. after \in [Stages -> SUBSET Stages]
  <2> HIDE DEF readers
  <2> QED
    BY <1>8
<1>12. \A s \in Stages : s \in busier \/ after[s] = Stages
  <2> HIDE DEF readers
  <2> QED
    BY <1>6 DEF Fine
<1>13. Fine(q, layout, holds, seen, busier, {})
  <2> HIDE DEF q, after
  <2> QED
    BY <1>10, <1>11, <1>12 DEF Fine, IsState
<1>14. Fine(r, layout, holds, seen, busier, {})
  BY DEF Fine
<1> QED
  BY <1>2, <1>13, <1>14

\* A pass writes it at a stage, whether it reads what it held or not.
Writes(uses, w, layout, holds, stage, held) ==
  /\ \E a \in uses : a.of = w /\ a.writes
  /\ \A a \in uses : a.of = w =>
       /\ a.layout = layout /\ a.stage = stage
       /\ IF a.writes THEN a.contents = {held} ELSE holds \subseteq a.contents

LEMMA PassWrites ==
  ASSUME NEW r, NEW w, NEW uses, NEW layout, NEW holds, NEW seen, NEW busy, NEW free,
         Fine(r, layout, holds, seen, busy, free), NEW stage \in seen \cap free, NEW held,
         Writes(uses, w, layout, holds, stage, held)
  PROVE  Wrote(After(r, w, Pass(uses)), layout, {held}, stage)
<1> DEFINE mine == {a \in uses : a.of = w}
           faults == r.faults \cup UNION {Faults(r, a) : a \in mine}
           v == CHOOSE a \in mine : a.writes
           q == AfterAccesses(r, mine)
<1>1. Pass(uses).op = "pass" /\ Pass(uses).what = uses
  BY DEF Pass
<1>2. mine # {} /\ \E a \in mine : a.writes
  BY DEF Writes
<1>3. After(r, w, Pass(uses)) = q
  BY <1>1, <1>2 DEF After
<1>4. \A a \in mine : /\ a.layout = layout /\ a.stage = stage
                      /\ IF a.writes THEN a.contents = {held} ELSE holds \subseteq a.contents
  BY DEF Writes
<1>5. \A a \in mine : Faults(r, a) = {}
  <2> SUFFICES ASSUME NEW a \in mine PROVE Faults(r, a) = {}
    OBVIOUS
  <2>1. a.layout = r.layout /\ (r.writer = "nobody" \/ a.stage \in r.visible)
    BY <1>4 DEF Fine
  <2>2. \A s \in Stages : a.stage \in r.after[s]
    BY <1>4 DEF Fine
  <2>3. a.writes \/ r.holds \in a.contents
    BY <1>4 DEF Fine
  <2> HIDE DEF mine
  <2> QED
    BY <2>1, <2>2, <2>3 DEF Faults
<1>6. faults = {}
  <2>1. UNION {Faults(r, a) : a \in mine} = {}
    BY <1>5
  <2> QED
    BY <2>1 DEF Fine
<1>7. v \in mine /\ v.writes
  BY <1>2
<1>8. v.contents = {held} /\ v.stage = stage
  BY <1>4, <1>7
<1>9. q = [Fresh(r.layout) EXCEPT !.holds = CHOOSE h \in v.contents : TRUE,
                                  !.writer = v.stage, !.faults = faults]
  BY <1>2 DEF AfterAccesses
<1>10. (CHOOSE h \in v.contents : TRUE) = held
  <2>1. \E h \in v.contents : TRUE
    BY <1>8
  <2>2. (CHOOSE h \in v.contents : TRUE) \in v.contents
    BY <2>1
  <2> HIDE DEF v
  <2> QED
    BY <1>8, <2>2
<1> HIDE DEF v, faults, mine
<1>11. q = [layout |-> r.layout, holds |-> held, writer |-> stage, visible |-> {},
            after |-> [s \in Stages |-> Stages], faults |-> {}]
  <2> HIDE DEF q
  <2> QED
    BY <1>6, <1>8, <1>9, <1>10 DEF Fresh
<1>12. Wrote(q, layout, {held}, stage)
  <2> HIDE DEF q
  <2> QED
    BY <1>11 DEF Wrote, IsState, Fine
<1> QED
  BY <1>3, <1>12

-----------------------------------------------------------------------------
(* A list of commands *)

IsList(C) == \E S : C \in Seq(S)

StepsOf(r, w, C, f) == f[0] = r /\ \A k \in 1 .. Len(C) : f[k] = After(f[k - 1], w, C[k])

StepsTo(r, w, C, f, n) ==
  f = [k \in 0 .. n |-> IF k = 0 THEN r ELSE After(f[k - 1], w, C[k])]

LEMMA StepsExist ==
  ASSUME NEW r, NEW w, NEW C
  PROVE  \A n \in Nat : \E f : StepsTo(r, w, C, f, n)
<1> DEFINE S == {n \in Nat : \E f : StepsTo(r, w, C, f, n)}
<1>1. 0 \in S
  <2>1. StepsTo(r, w, C, [k \in 0 .. 0 |-> r], 0)
    BY DEF StepsTo
  <2> QED
    BY <2>1
<1>2. ASSUME NEW n \in Nat, n \in S PROVE n + 1 \in S
  <2>1. PICK f : StepsTo(r, w, C, f, n)
    BY <1>2
  <2> DEFINE Next1(g, k) == IF k = 0 THEN r ELSE After(g[k - 1], w, C[k])
             g == [k \in 0 .. n + 1 |-> IF k <= n THEN f[k] ELSE Next1(f, k)]
  <2>2. f = [k \in 0 .. n |-> Next1(f, k)]
    BY <2>1 DEF StepsTo
  <2>3. \A k \in 0 .. n : f[k] = Next1(f, k) /\ g[k] = f[k]
    <3> HIDE DEF Next1
    <3> QED
      BY <2>2
  <2>4. \A k \in 0 .. n + 1 : g[k] = Next1(g, k)
    <3> SUFFICES ASSUME NEW k \in 0 .. n + 1 PROVE g[k] = Next1(g, k)
      OBVIOUS
    <3>1. CASE k = 0
      <4>1. 0 \in 0 .. n /\ g[0] = f[0] /\ f[0] = Next1(f, 0)
        <5> HIDE DEF g, Next1
        <5> QED
          BY <2>3
      <4> HIDE DEF g
      <4> QED
        BY <3>1, <4>1
    <3>2. CASE k # 0
      <4>1. k - 1 \in 0 .. n /\ g[k - 1] = f[k - 1]
        BY <3>2, <2>3
      <4>2. Next1(g, k) = Next1(f, k)
        BY <3>2, <4>1
      <4>3. g[k] = IF k <= n THEN f[k] ELSE Next1(f, k)
        OBVIOUS
      <4>4. k <= n => f[k] = Next1(f, k)
        <5> HIDE DEF Next1, g
        <5> QED
          BY <2>3
      <4> QED
        BY <4>2, <4>3, <4>4
    <3> QED
      BY <3>1, <3>2
  <2>5. g = [k \in 0 .. n + 1 |-> Next1(g, k)]
    <3>1. \E h : h = [k \in 0 .. n + 1 |-> Next1(g, k)]
      OBVIOUS
    <3>2. DOMAIN g = 0 .. n + 1
      OBVIOUS
    <3> HIDE DEF Next1
    <3> QED
      BY <2>4
  <2>6. StepsTo(r, w, C, g, n + 1)
    BY <2>5 DEF StepsTo
  <2> QED
    BY <2>6
<1> HIDE DEF S
<1>3. \A n \in Nat : n \in S
  BY <1>1, <1>2, Induct
<1> QED
  BY <1>3 DEF S

LEMMA RunSteps ==
  ASSUME NEW r, NEW w, NEW C, IsList(C)
  PROVE  \E f : StepsOf(r, w, C, f) /\ Run(r, w, C) = f[Len(C)]
<1> DEFINE n == Len(C)
<1>1. n \in Nat
  BY DEF IsList
<1>2. \E f : StepsTo(r, w, C, f, n)
  BY <1>1, StepsExist
<1>3. Run(r, w, C) = (CHOOSE f : StepsTo(r, w, C, f, n))[n]
  BY DEF Run, StepsTo
<1>4. PICK f : StepsTo(r, w, C, f, n) /\ Run(r, w, C) = f[n]
  BY <1>2, <1>3
<1> DEFINE V(k) == IF k = 0 THEN r ELSE After(f[k - 1], w, C[k])
<1>5. f = [k \in 0 .. n |-> V(k)]
  BY <1>4 DEF StepsTo
<1>6. \A k \in 0 .. n : f[k] = V(k)
  <2> HIDE DEF V
  <2> QED
    BY <1>5
<1>7. f[0] = r
  BY <1>1, <1>6
<1>8. \A k \in 1 .. n : f[k] = After(f[k - 1], w, C[k])
  BY <1>1, <1>6
<1> QED
  BY <1>4, <1>7, <1>8 DEF StepsOf

LEMMA StepsRun ==
  ASSUME NEW r, NEW w, NEW C, IsList(C), NEW f, StepsOf(r, w, C, f)
  PROVE  f[Len(C)] = Run(r, w, C)
<1>1. PICK g : StepsOf(r, w, C, g) /\ Run(r, w, C) = g[Len(C)]
  BY RunSteps
<1> DEFINE S == {n \in Nat : n <= Len(C) => f[n] = g[n]}
<1>2. Len(C) \in Nat
  BY DEF IsList
<1>3. 0 \in S
  BY <1>1 DEF StepsOf
<1>4. ASSUME NEW n \in Nat, n \in S PROVE n + 1 \in S
  <2> SUFFICES ASSUME n + 1 <= Len(C) PROVE f[n + 1] = g[n + 1]
    OBVIOUS
  <2>1. n + 1 \in 1 .. Len(C) /\ (n + 1) - 1 = n /\ n <= Len(C)
    BY <1>2
  <2>2. f[n] = g[n]
    BY <1>4, <2>1
  <2>3. f[n + 1] = After(f[n], w, C[n + 1]) /\ g[n + 1] = After(g[n], w, C[n + 1])
    BY <1>1, <2>1 DEF StepsOf
  <2> QED
    BY <2>2, <2>3
<1> HIDE DEF S
<1>5. \A n \in Nat : n \in S
  BY <1>3, <1>4, Induct
<1> QED
  BY <1>1, <1>2, <1>5 DEF S

LEMMA ListsJoin ==
  ASSUME NEW A, NEW B, IsList(A), IsList(B)
  PROVE  /\ IsList(A \o B) /\ Len(A) \in Nat /\ Len(B) \in Nat
         /\ Len(A \o B) = Len(A) + Len(B)
         /\ \A k \in 1 .. Len(A) : (A \o B)[k] = A[k]
         /\ \A k \in 1 .. Len(B) : (A \o B)[Len(A) + k] = B[k]
<1>1. PICK S : A \in Seq(S)
  BY DEF IsList
<1>2. PICK T : B \in Seq(T)
  BY DEF IsList
<1>3. A \in Seq(S \cup T) /\ B \in Seq(S \cup T)
  BY <1>1, <1>2
<1>4. A \o B \in Seq(S \cup T)
  BY <1>3
<1>5. IsList(A \o B)
  BY <1>4 DEF IsList
<1> QED
  BY <1>3, <1>5

LEMMA RunJoins ==
  ASSUME NEW r, NEW w, NEW A, NEW B, IsList(A), IsList(B)
  PROVE  Run(r, w, A \o B) = Run(Run(r, w, A), w, B)
<1> DEFINE C == A \o B
<1>1. /\ IsList(C) /\ Len(A) \in Nat /\ Len(B) \in Nat /\ Len(C) = Len(A) + Len(B)
      /\ \A k \in 1 .. Len(A) : C[k] = A[k]
      /\ \A k \in 1 .. Len(B) : C[Len(A) + k] = B[k]
  BY ListsJoin
<1> HIDE DEF C
<1>2. PICK f : StepsOf(r, w, C, f) /\ Run(r, w, C) = f[Len(C)]
  BY <1>1, RunSteps
<1>3. f[Len(A)] = Run(r, w, A)
  <2>1. StepsOf(r, w, A, f)
    BY <1>1, <1>2 DEF StepsOf
  <2> QED
    BY <2>1, StepsRun
<1> DEFINE g == [k \in 0 .. Len(B) |-> f[Len(A) + k]]
<1>4. StepsOf(f[Len(A)], w, B, g)
  <2>1. g[0] = f[Len(A)]
    BY <1>1
  <2>2. ASSUME NEW k \in 1 .. Len(B) PROVE g[k] = After(g[k - 1], w, B[k])
    <3>1. g[k] = f[Len(A) + k] /\ g[k - 1] = f[Len(A) + (k - 1)]
      BY <1>1
    <3>2. Len(A) + k \in 1 .. Len(C) /\ (Len(A) + k) - 1 = Len(A) + (k - 1)
      BY <1>1
    <3>3. f[Len(A) + k] = After(f[(Len(A) + k) - 1], w, C[Len(A) + k])
      BY <1>2, <3>2 DEF StepsOf
    <3> QED
      BY <1>1, <3>1, <3>2, <3>3
  <2> QED
    BY <2>1, <2>2 DEF StepsOf
<1>5. g[Len(B)] = Run(f[Len(A)], w, B)
  BY <1>4, StepsRun
<1>6. g[Len(B)] = f[Len(C)]
  BY <1>1
<1> QED
  BY <1>2, <1>3, <1>5, <1>6 DEF C

LEMMA RunNothing == \A r, w : Run(r, w, <<>>) = r /\ IsList(<<>>)
<1> SUFFICES ASSUME NEW r, NEW w PROVE Run(r, w, <<>>) = r /\ IsList(<<>>)
  OBVIOUS
<1>1. <<>> \in Seq({})
  OBVIOUS
<1>2. IsList(<<>>) /\ Len(<<>>) = 0
  BY <1>1 DEF IsList
<1>3. StepsOf(r, w, <<>>, [k \in 0 .. 0 |-> r])
  BY <1>2 DEF StepsOf
<1>4. [k \in 0 .. 0 |-> r][Len(<<>>)] = Run(r, w, <<>>)
  BY <1>2, <1>3, StepsRun
<1> QED
  BY <1>2, <1>4

LEMMA OneRuns == \A r, w, a : Run(r, w, <<a>>) = After(r, w, a) /\ IsList(<<a>>)
<1> SUFFICES ASSUME NEW r, NEW w, NEW a
             PROVE  Run(r, w, <<a>>) = After(r, w, a) /\ IsList(<<a>>)
  OBVIOUS
<1> DEFINE f == [k \in 0 .. 1 |-> IF k = 0 THEN r ELSE After(r, w, a)]
<1>1. <<a>> \in Seq({a}) /\ Len(<<a>>) = 1 /\ <<a>>[1] = a
  OBVIOUS
<1>2. IsList(<<a>>)
  BY <1>1 DEF IsList
<1>3. f[0] = r /\ f[1] = After(r, w, a)
  OBVIOUS
<1> HIDE DEF f
<1>4. StepsOf(r, w, <<a>>, f)
  BY <1>1, <1>3 DEF StepsOf
<1>5. f[Len(<<a>>)] = Run(r, w, <<a>>)
  BY <1>2, <1>4, StepsRun
<1> QED
  BY <1>1, <1>2, <1>3, <1>5

LEMMA RunOne == \A r, w, a : Run(r, w, <<a>>) = After(r, w, a)
BY OneRuns

LEMMA ListOne == \A a : IsList(<<a>>)
BY OneRuns

LEMMA TwoRuns ==
  \A r, w, a, b : /\ Run(r, w, <<a, b>>) = After(After(r, w, a), w, b)
                  /\ IsList(<<a, b>>)
<1> SUFFICES ASSUME NEW r, NEW w, NEW a, NEW b
             PROVE  Run(r, w, <<a, b>>) = After(After(r, w, a), w, b) /\ IsList(<<a, b>>)
  OBVIOUS
<1>1. <<a, b>> = <<a>> \o <<b>>
  <2>1. /\ <<a>> \in Seq({a, b}) /\ <<b>> \in Seq({a, b}) /\ <<a, b>> \in Seq({a, b})
        /\ Len(<<a, b>>) = 2 /\ Len(<<a>>) = 1 /\ Len(<<b>>) = 1
    OBVIOUS
  <2>2. (<<a>> \o <<b>>)[1] = a /\ (<<a>> \o <<b>>)[2] = b /\ Len(<<a>> \o <<b>>) = 2
    BY <2>1
  <2>3. <<a>> \o <<b>> \in Seq({a, b})
    BY <2>1
  <2>4. \A k \in 1 .. 2 : (<<a>> \o <<b>>)[k] = <<a, b>>[k]
    <3>1. \A k \in 1 .. 2 : k = 1 \/ k = 2
      OBVIOUS
    <3>2. <<a, b>>[1] = a /\ <<a, b>>[2] = b
      OBVIOUS
    <3> QED
      BY <2>2, <3>1, <3>2
  <2> QED
    BY <2>1, <2>2, <2>3, <2>4, SeqEqual
<1>2. IsList(<<a>>) /\ IsList(<<b>>)
  BY ListOne
<1>3. Run(r, w, <<a>> \o <<b>>) = Run(Run(r, w, <<a>>), w, <<b>>)
  BY <1>2, RunJoins
<1>4. Run(r, w, <<a>>) = After(r, w, a)
  BY RunOne
<1>5. Run(After(r, w, a), w, <<b>>) = After(After(r, w, a), w, b)
  BY RunOne
<1>6. IsList(<<a>> \o <<b>>)
  BY <1>2, ListsJoin
<1> QED
  BY <1>1, <1>3, <1>4, <1>5, <1>6

LEMMA RunTwo == \A r, w, a, b : Run(r, w, <<a, b>>) = After(After(r, w, a), w, b)
BY TwoRuns

LEMMA ListTwo == \A a, b : IsList(<<a, b>>)
BY TwoRuns

LEMMA ThreeRuns ==
  \A r, w, a, b, c : /\ Run(r, w, <<a, b, c>>) = After(After(After(r, w, a), w, b), w, c)
                     /\ IsList(<<a, b, c>>)
<1> SUFFICES ASSUME NEW r, NEW w, NEW a, NEW b, NEW c
             PROVE  /\ Run(r, w, <<a, b, c>>) = After(After(After(r, w, a), w, b), w, c)
                    /\ IsList(<<a, b, c>>)
  OBVIOUS
<1>1. <<a, b, c>> = <<a, b>> \o <<c>>
  OBVIOUS
<1>2. IsList(<<a, b>>) /\ IsList(<<c>>)
  BY ListOne, ListTwo
<1>3. Run(r, w, <<a, b>> \o <<c>>) = Run(Run(r, w, <<a, b>>), w, <<c>>)
  BY <1>2, RunJoins
<1>4. Run(r, w, <<a, b>>) = After(After(r, w, a), w, b)
  BY RunTwo
<1>5. Run(After(After(r, w, a), w, b), w, <<c>>) = After(After(After(r, w, a), w, b), w, c)
  BY RunOne
<1>6. IsList(<<a, b>> \o <<c>>)
  BY <1>2, ListsJoin
<1> QED
  BY <1>1, <1>3, <1>4, <1>5, <1>6

LEMMA RunThree ==
  \A r, w, a, b, c : Run(r, w, <<a, b, c>>) = After(After(After(r, w, a), w, b), w, c)
BY ThreeRuns

LEMMA ListThree == \A a, b, c : IsList(<<a, b, c>>)
BY ThreeRuns

LEMMA FourRuns ==
  \A r, w, a, b, c, d :
    /\ Run(r, w, <<a, b, c, d>>) = After(After(After(After(r, w, a), w, b), w, c), w, d)
    /\ IsList(<<a, b, c, d>>)
<1> SUFFICES ASSUME NEW r, NEW w, NEW a, NEW b, NEW c, NEW d
             PROVE  /\ Run(r, w, <<a, b, c, d>>)
                         = After(After(After(After(r, w, a), w, b), w, c), w, d)
                    /\ IsList(<<a, b, c, d>>)
  OBVIOUS
<1>1. <<a, b, c, d>> = <<a, b, c>> \o <<d>>
  OBVIOUS
<1>2. IsList(<<a, b, c>>) /\ IsList(<<d>>)
  BY ListOne, ListThree
<1>3. Run(r, w, <<a, b, c>> \o <<d>>) = Run(Run(r, w, <<a, b, c>>), w, <<d>>)
  BY <1>2, RunJoins
<1>4. Run(r, w, <<a, b, c>>) = After(After(After(r, w, a), w, b), w, c)
  BY RunThree
<1>5. Run(After(After(After(r, w, a), w, b), w, c), w, <<d>>)
        = After(After(After(After(r, w, a), w, b), w, c), w, d)
  BY RunOne
<1>6. IsList(<<a, b, c>> \o <<d>>)
  BY <1>2, ListsJoin
<1> QED
  BY <1>1, <1>3, <1>4, <1>5, <1>6

LEMMA RunFour ==
  \A r, w, a, b, c, d :
    Run(r, w, <<a, b, c, d>>) = After(After(After(After(r, w, a), w, b), w, c), w, d)
BY FourRuns

LEMMA ListFour == \A a, b, c, d : IsList(<<a, b, c, d>>)
BY FourRuns

LEMMA FiveAre ==
  \A a, b, c, d, e : <<a, b, c, d, e>> = <<a, b, c, d>> \o <<e>>
<1> SUFFICES ASSUME NEW a, NEW b, NEW c, NEW d, NEW e
             PROVE  <<a, b, c, d, e>> = <<a, b, c, d>> \o <<e>>
  OBVIOUS
<1> DEFINE S == {a, b, c, d, e}
           A == <<a, b, c, d>>
           B == <<e>>
           C == <<a, b, c, d, e>>
<1>1. A \in Seq(S) /\ B \in Seq(S) /\ C \in Seq(S)
  OBVIOUS
<1>2. Len(A) = 4 /\ Len(B) = 1 /\ Len(C) = 5
  OBVIOUS
<1>3. A[1] = a /\ A[2] = b /\ A[3] = c /\ A[4] = d /\ B[1] = e
  OBVIOUS
<1>4. C[1] = a /\ C[2] = b /\ C[3] = c /\ C[4] = d /\ C[5] = e
  OBVIOUS
<1> HIDE DEF A, B, C, S
<1>5. IsList(A) /\ IsList(B)
  BY <1>1 DEF IsList
<1>6. /\ Len(A \o B) = 5
      /\ \A k \in 1 .. 4 : (A \o B)[k] = A[k]
      /\ \A k \in 1 .. 1 : (A \o B)[4 + k] = B[k]
  <2>1. /\ Len(A \o B) = Len(A) + Len(B)
        /\ \A k \in 1 .. Len(A) : (A \o B)[k] = A[k]
        /\ \A k \in 1 .. Len(B) : (A \o B)[Len(A) + k] = B[k]
    BY <1>5, ListsJoin
  <2>2. Len(A) + Len(B) = 5
    BY <1>2
  <2> QED
    BY <1>2, <2>1, <2>2, Zenon
<1>7. A \o B \in Seq(S)
  BY <1>1, ConcatProperties
<1>8. \A k \in 1 .. 5 : (A \o B)[k] = C[k]
  <2>1. (A \o B)[5] = B[1]
    <3>1. 1 \in 1 .. 1 /\ 4 + 1 = 5
      OBVIOUS
    <3> QED
      BY <1>6, <3>1
  <2>2. \A k \in 1 .. 5 : k = 1 \/ k = 2 \/ k = 3 \/ k = 4 \/ k = 5
    OBVIOUS
  <2>3. 1 \in 1 .. 4 /\ 2 \in 1 .. 4 /\ 3 \in 1 .. 4 /\ 4 \in 1 .. 4
    OBVIOUS
  <2> QED
    BY <1>3, <1>4, <1>6, <2>1, <2>2, <2>3
<1>9. C = A \o B
  BY <1>1, <1>2, <1>6, <1>7, <1>8, SeqEqual
<1> QED
  BY <1>9 DEF A, B, C

-----------------------------------------------------------------------------
(* Commands that leave a resource alone, or only read it *)

\* At these stages, in this layout, whichever of these it holds.
OnlyReads(c, w, layout, holds, stages) ==
  \A x \in c.what :
    IF c.op = "barrier" THEN x.of # w /\ x.dst \subseteq Stages
    ELSE x.of = w => /\ ~x.writes /\ x.layout = layout /\ holds \subseteq x.contents
                     /\ x.stage \in stages

Reads(C, w, layout, holds, stages) ==
  IsList(C) /\ \A k \in 1 .. Len(C) : OnlyReads(C[k], w, layout, holds, stages)

Quiet(C, w) == Reads(C, w, "any", {}, {})

LEMMA BarrierReads ==
  ASSUME NEW ds, NEW w, NEW layout, NEW holds, NEW stages,
         \A d \in ds : d.of # w /\ d.dst \subseteq Stages
  PROVE  OnlyReads(Barrier(ds), w, layout, holds, stages)
BY DEF OnlyReads, Barrier

LEMMA PassOnlyReads ==
  ASSUME NEW uses, NEW w, NEW layout, NEW holds, NEW stages,
         \A a \in uses : a.of = w => /\ ~a.writes /\ a.layout = layout /\ holds \subseteq a.contents
                                   /\ a.stage \in stages
  PROVE  OnlyReads(Pass(uses), w, layout, holds, stages)
BY DEF OnlyReads, Pass

LEMMA ReadsNone ==
  ASSUME NEW w, NEW layout, NEW holds, NEW stages
  PROVE  Reads(<<>>, w, layout, holds, stages)
<1>1. IsList(<<>>) /\ Len(<<>>) = 0
  BY RunNothing
<1> QED
  BY <1>1 DEF Reads

LEMMA ReadsOne ==
  ASSUME NEW w, NEW layout, NEW holds, NEW stages, NEW a, OnlyReads(a, w, layout, holds, stages)
  PROVE  Reads(<<a>>, w, layout, holds, stages)
<1>1. IsList(<<a>>)
  BY ListOne
<1>2. Len(<<a>>) = 1 /\ <<a>>[1] = a
  OBVIOUS
<1> QED
  BY <1>1, <1>2 DEF Reads

LEMMA ReadsTwo ==
  ASSUME NEW w, NEW layout, NEW holds, NEW stages,
         NEW a, OnlyReads(a, w, layout, holds, stages),
         NEW b, OnlyReads(b, w, layout, holds, stages)
  PROVE  Reads(<<a, b>>, w, layout, holds, stages)
<1>1. IsList(<<a, b>>)
  BY ListTwo
<1>2. Len(<<a, b>>) = 2 /\ <<a, b>>[1] = a /\ <<a, b>>[2] = b
  OBVIOUS
<1>3. \A k \in 1 .. 2 : k = 1 \/ k = 2
  OBVIOUS
<1> QED
  BY <1>1, <1>2, <1>3 DEF Reads

LEMMA ReadsThree ==
  ASSUME NEW w, NEW layout, NEW holds, NEW stages,
         NEW a, OnlyReads(a, w, layout, holds, stages),
         NEW b, OnlyReads(b, w, layout, holds, stages),
         NEW c, OnlyReads(c, w, layout, holds, stages)
  PROVE  Reads(<<a, b, c>>, w, layout, holds, stages)
<1>1. IsList(<<a, b, c>>)
  BY ListThree
<1>2. Len(<<a, b, c>>) = 3 /\ <<a, b, c>>[1] = a /\ <<a, b, c>>[2] = b /\ <<a, b, c>>[3] = c
  OBVIOUS
<1>3. \A k \in 1 .. 3 : k = 1 \/ k = 2 \/ k = 3
  OBVIOUS
<1> QED
  BY <1>1, <1>2, <1>3 DEF Reads

LEMMA ReadsFour ==
  ASSUME NEW w, NEW layout, NEW holds, NEW stages,
         NEW a, OnlyReads(a, w, layout, holds, stages),
         NEW b, OnlyReads(b, w, layout, holds, stages),
         NEW c, OnlyReads(c, w, layout, holds, stages),
         NEW d, OnlyReads(d, w, layout, holds, stages)
  PROVE  Reads(<<a, b, c, d>>, w, layout, holds, stages)
<1>1. IsList(<<a, b, c, d>>)
  BY ListFour
<1>2. /\ Len(<<a, b, c, d>>) = 4 /\ <<a, b, c, d>>[1] = a /\ <<a, b, c, d>>[2] = b
      /\ <<a, b, c, d>>[3] = c /\ <<a, b, c, d>>[4] = d
  OBVIOUS
<1>3. \A k \in 1 .. 4 : k = 1 \/ k = 2 \/ k = 3 \/ k = 4
  OBVIOUS
<1> QED
  BY <1>1, <1>2, <1>3 DEF Reads

LEMMA ReadsJoin ==
  ASSUME NEW w, NEW layout, NEW holds, NEW stages,
         NEW A, Reads(A, w, layout, holds, stages), NEW B, Reads(B, w, layout, holds, stages)
  PROVE  Reads(A \o B, w, layout, holds, stages)
<1> DEFINE C == A \o B
<1>1. /\ IsList(C) /\ Len(A) \in Nat /\ Len(B) \in Nat /\ Len(C) = Len(A) + Len(B)
      /\ \A k \in 1 .. Len(A) : C[k] = A[k]
      /\ \A k \in 1 .. Len(B) : C[Len(A) + k] = B[k]
  BY ListsJoin DEF Reads
<1> HIDE DEF C
<1>2. ASSUME NEW k \in 1 .. Len(C) PROVE OnlyReads(C[k], w, layout, holds, stages)
  <2>1. CASE k <= Len(A)
    <3>1. k \in 1 .. Len(A)
      BY <1>1, <2>1
    <3> QED
      BY <1>1, <3>1 DEF Reads
  <2>2. CASE k > Len(A)
    <3>1. k - Len(A) \in 1 .. Len(B) /\ Len(A) + (k - Len(A)) = k
      BY <1>1, <2>2
    <3>2. C[k] = B[k - Len(A)]
      BY <1>1, <3>1
    <3> QED
      BY <3>1, <3>2 DEF Reads
  <2> QED
    BY <1>1, <2>1, <2>2
<1>3. Reads(C, w, layout, holds, stages)
  BY <1>1, <1>2 DEF Reads
<1> QED
  BY <1>3 DEF C

LEMMA ReadsOnly ==
  ASSUME NEW w, NEW layout, NEW holds, NEW stages, NEW b, NEW C,
         b => Reads(C, w, layout, holds, stages)
  PROVE  Reads(Only(b, C), w, layout, holds, stages)
BY ReadsNone DEF Only

LEMMA QuietReads ==
  ASSUME NEW C, NEW w, Quiet(C, w), NEW layout, NEW holds, NEW stages
  PROVE  Reads(C, w, layout, holds, stages)
BY DEF Quiet, Reads, OnlyReads

\* One that leaves it alone.
LEMMA SilentLeast ==
  ASSUME NEW r, IsState(r), NEW w, NEW c, OnlyReads(c, w, "any", {}, {})
  PROVE  AtLeast(After(r, w, c), r)
<1>1. CASE c.op = "barrier"
  <2>1. \A d \in c.what : d.of # w /\ d.dst \subseteq Stages
    BY <1>1 DEF OnlyReads
  <2>2. After(r, w, c) = Waited(r, c.what)
    BY <1>1, <2>1 DEF After, AfterBarrier
  <2> QED
    BY <2>1, <2>2, WaitedLeast
<1>2. CASE c.op # "barrier"
  <2>1. {a \in c.what : a.of = w} = {}
    BY <1>2 DEF OnlyReads
  <2>2. After(r, w, c) = r
    BY <1>2, <2>1 DEF After
  <2> QED
    BY <2>2, LeastSelf
<1> QED
  BY <1>1, <1>2

LEMMA QuietKeeps ==
  ASSUME NEW r, IsState(r), NEW w, NEW C, Quiet(C, w)
  PROVE  AtLeast(Run(r, w, C), r)
<1>1. IsList(C)
  BY DEF Quiet, Reads
<1>2. PICK f : StepsOf(r, w, C, f) /\ Run(r, w, C) = f[Len(C)]
  BY <1>1, RunSteps
<1> DEFINE S == {n \in Nat : n <= Len(C) => AtLeast(f[n], r)}
<1>3. Len(C) \in Nat
  BY <1>1 DEF IsList
<1>4. 0 \in S
  BY <1>2, LeastSelf DEF StepsOf
<1>5. ASSUME NEW n \in Nat, n \in S PROVE n + 1 \in S
  <2> SUFFICES ASSUME n + 1 <= Len(C) PROVE AtLeast(f[n + 1], r)
    OBVIOUS
  <2>1. n + 1 \in 1 .. Len(C) /\ (n + 1) - 1 = n /\ n <= Len(C)
    BY <1>3
  <2>2. AtLeast(f[n], r)
    BY <1>5, <2>1
  <2>3. f[n + 1] = After(f[n], w, C[n + 1])
    BY <1>2, <2>1 DEF StepsOf
  <2>4. OnlyReads(C[n + 1], w, "any", {}, {})
    BY <2>1 DEF Quiet, Reads
  <2>5. IsState(f[n])
    BY <2>2 DEF AtLeast
  <2>6. AtLeast(f[n + 1], f[n])
    BY <2>3, <2>4, <2>5, SilentLeast
  <2> QED
    BY <2>2, <2>6, LeastOn
<1> HIDE DEF S
<1>6. \A n \in Nat : n \in S
  BY <1>4, <1>5, Induct
<1> QED
  BY <1>2, <1>3, <1>6 DEF S

\* One that reads it where its last write is visible.
LEMMA ReadFine ==
  ASSUME NEW r, NEW w, NEW c, NEW layout, NEW holds, NEW seen, NEW busy, NEW free,
         Fine(r, layout, holds, seen, busy, free), NEW stages, stages \subseteq seen \cap busy,
         OnlyReads(c, w, layout, holds, stages)
  PROVE  Fine(After(r, w, c), layout, holds, seen, busy, {})
<1>1. CASE c.op = "barrier"
  <2>1. \A d \in c.what : d.of # w /\ d.dst \subseteq Stages
    BY <1>1 DEF OnlyReads
  <2>2. After(r, w, c) = Waited(r, c.what)
    BY <1>1, <2>1 DEF After, AfterBarrier
  <2>3. AtLeast(After(r, w, c), r)
    BY <2>1, <2>2, WaitedLeast DEF Fine
  <2>4. Fine(After(r, w, c), layout, holds, seen, busy, free)
    BY <2>3, LeastKeeps
  <2> QED
    BY <2>4 DEF Fine
<1>2. CASE c.op # "barrier"
  <2>1. Pass(c.what).op = "pass" /\ Pass(c.what).what = c.what
    BY DEF Pass
  <2>2. After(r, w, c) = After(r, w, Pass(c.what))
    BY <1>2, <2>1 DEF After
  <2>3. \A a \in c.what : a.of = w =>
          ~a.writes /\ a.layout = layout /\ holds \subseteq a.contents /\ a.stage \in seen \cap busy
    BY <1>2 DEF OnlyReads
  <2>4. Fine(After(r, w, Pass(c.what)), layout, holds, seen, busy, {})
    BY <2>3, PassReads
  <2> QED
    BY <2>2, <2>4
<1> QED
  BY <1>1, <1>2

LEMMA ReadsKeep ==
  ASSUME NEW r, NEW w, NEW C, NEW layout, NEW holds, NEW seen, NEW busy,
         Fine(r, layout, holds, seen, busy, {}), NEW stages, stages \subseteq seen \cap busy,
         Reads(C, w, layout, holds, stages)
  PROVE  Fine(Run(r, w, C), layout, holds, seen, busy, {})
<1>1. IsList(C)
  BY DEF Reads
<1>2. PICK f : StepsOf(r, w, C, f) /\ Run(r, w, C) = f[Len(C)]
  BY <1>1, RunSteps
<1> DEFINE S == {n \in Nat : n <= Len(C) => Fine(f[n], layout, holds, seen, busy, {})}
<1>3. Len(C) \in Nat
  BY <1>1 DEF IsList
<1>4. 0 \in S
  BY <1>2 DEF StepsOf
<1>5. ASSUME NEW n \in Nat, n \in S PROVE n + 1 \in S
  <2> SUFFICES ASSUME n + 1 <= Len(C) PROVE Fine(f[n + 1], layout, holds, seen, busy, {})
    OBVIOUS
  <2>1. n + 1 \in 1 .. Len(C) /\ (n + 1) - 1 = n /\ n <= Len(C)
    BY <1>3
  <2>2. Fine(f[n], layout, holds, seen, busy, {})
    BY <1>5, <2>1
  <2>3. f[n + 1] = After(f[n], w, C[n + 1])
    BY <1>2, <2>1 DEF StepsOf
  <2>4. OnlyReads(C[n + 1], w, layout, holds, stages)
    BY <2>1 DEF Reads
  <2> QED
    BY <2>2, <2>3, <2>4, ReadFine
<1> HIDE DEF S
<1>6. \A n \in Nat : n \in S
  BY <1>4, <1>5, Induct
<1> QED
  BY <1>2, <1>3, <1>6 DEF S

-----------------------------------------------------------------------------
(* What each part of the frame leaves alone, and what it only reads *)

LEMMA EntryQuiet ==
  ASSUME NEW f, NEW w, w \notin {"gbuffer", "hdr", "depth"}, w # "shadow" \/ ~f.shadows
  PROVE  Quiet(Entry(f), w)
<1> DEFINE ds == {Transition("gbuffer", "undefined", "colour", Compute, Colour, FALSE),
                  Transition("hdr", "undefined", "colour", Fragment, Colour, FALSE),
                  Transition("depth", "undefined", "depth", Compute \cup Depth, Depth, FALSE)}
                 \cup (IF f.shadows
                       THEN {Transition("shadow", "undefined", "depth", Compute, Depth, FALSE)}
                       ELSE {})
<1>1. \A d \in ds : d.of # w /\ d.dst \subseteq Stages
  BY DEF Transition, Colour, Depth, Stages
<1>2. Entry(f) = <<Barrier(ds)>>
  BY DEF Entry
<1> HIDE DEF ds
<1> QED
  BY <1>1, <1>2, BarrierReads, ReadsOne DEF Quiet

LEMMA ShadowsQuiet ==
  ASSUME NEW f, NEW w, w # "shadow" \/ ~f.shadows
  PROVE  Quiet(Shadows(f), w)
<1> DEFINE uses == {Write("depth", "shadow", "depth", "now")}
<1>1. f.shadows => Quiet(<<Pass(uses)>>, w)
  <2> SUFFICES ASSUME f.shadows PROVE Quiet(<<Pass(uses)>>, w)
    OBVIOUS
  <2>1. \A a \in uses : a.of # w
    BY DEF Write
  <2> HIDE DEF uses
  <2> QED
    BY <2>1, PassOnlyReads, ReadsOne DEF Quiet
<1>2. Shadows(f) = Only(f.shadows, <<Pass(uses)>>)
  BY DEF Shadows
<1> HIDE DEF uses
<1> QED
  BY <1>1, <1>2, ReadsOnly DEF Quiet

LEMMA GBufferReadsLevels ==
  ASSUME NEW f, NEW w, w \notin {"gbuffer", "hdr", "depth"}
  PROVE  /\ Reads(GBuffer(f), w, "read", {"data"}, Fragment)
         /\ ~f.landed \/ w \notin Range(Level) => Quiet(GBuffer(f), w)
<1> DEFINE uses == {Write("colour", "gbuffer", "colour", "now"),
                    Write("colour", "hdr", "colour", "now"),
                  Write("depth", "depth", "depth", "now")}
                 \cup {Read("fragment", l, "read", {"data"}) :
                         l \in IF f.landed THEN Range(Level) ELSE {}}
<1>1. \A a \in uses : a.of = w =>
        ~a.writes /\ a.layout = "read" /\ {"data"} \subseteq a.contents /\ a.stage \in Fragment
  BY DEF Read, Write, Fragment
<1>2. ~f.landed \/ w \notin Range(Level) => \A a \in uses : a.of # w
  BY DEF Read, Write
<1>3. GBuffer(f) = <<Pass(uses)>>
  BY DEF GBuffer
<1> HIDE DEF uses
<1> QED
  BY <1>1, <1>2, <1>3, PassOnlyReads, ReadsOne DEF Quiet

LEMMA ReadableQuiet ==
  ASSUME NEW f, NEW w, w \notin {"gbuffer", "hdr", "depth", "memory"}, w # "shadow" \/ ~f.shadows
  PROVE  Quiet(Readable(f), w)
<1> DEFINE ds == {Transition("gbuffer", "colour", "read", Colour, Compute, TRUE),
                  Transition("hdr", "colour", "general", Colour, Compute, TRUE),
                  Transition("depth", "depth", "read", Depth, Compute \cup Depth, TRUE),
                  ComputeToCompute(FALSE)}
                 \cup (IF f.shadows
                       THEN {Transition("shadow", "depth", "read", Depth, Compute, TRUE)}
                       ELSE {})
<1>1. \A d \in ds : d.of # w /\ d.dst \subseteq Stages
  BY DEF Transition, ComputeToCompute, Memory, Colour, Compute, Depth, Stages
<1>2. Readable(f) = <<Barrier(ds)>>
  BY DEF Readable
<1> HIDE DEF ds
<1> QED
  BY <1>1, <1>2, BarrierReads, ReadsOne DEF Quiet

LutTable == {"transmittance", "multiscatter"}

LEMMA LutReadsAre ==
  ASSUME NEW f
  PROVE  \A a \in LutReads(f) :
           /\ a.of \in LutTable /\ ~a.writes /\ a.layout = "read" /\ a.contents = {f.air}
           /\ a.stage = "compute"
BY DEF LutReads, Read, LutTable

LEMMA RebuildQuiet ==
  ASSUME NEW f, NEW w, w \notin LutTable
  PROVE  Quiet(RebuildLuts(f), w)
<1> DEFINE from == IF f.lut # NoAir THEN "read" ELSE "undefined"
           ready(l) == Barrier({Transition(l, "general", "read", Compute, Compute, TRUE)})
           ds == {Transition(l, from, "general", Compute, Compute, FALSE) :
                    l \in {"transmittance", "multiscatter"}}
           uses == {Write("compute", "transmittance", "general", f.air)}
           bs == {Read("compute", "transmittance", "read", {f.air}),
                  Write("compute", "multiscatter", "general", f.air)}
           C == <<Barrier(ds), Pass(uses), ready("transmittance"), Pass(bs), ready("multiscatter")>>
<1>1. RebuildLuts(f) = Only(f.lut # f.air, C)
  BY DEF RebuildLuts
<1>2. OnlyReads(Barrier(ds), w, "any", {}, {})
  <2>1. \A d \in ds : d.of # w /\ d.dst \subseteq Stages
    BY DEF Transition, Compute, Stages, LutTable
  <2> HIDE DEF ds
  <2> QED
    BY <2>1, BarrierReads
<1>3. OnlyReads(Pass(uses), w, "any", {}, {}) /\ OnlyReads(Pass(bs), w, "any", {}, {})
  <2>1. (\A a \in uses : a.of # w) /\ (\A a \in bs : a.of # w)
    BY DEF Read, Write, LutTable
  <2> HIDE DEF uses, bs
  <2> QED
    BY <2>1, PassOnlyReads
<1>4. ASSUME NEW l \in LutTable PROVE OnlyReads(ready(l), w, "any", {}, {})
  <2>1. \A d \in {Transition(l, "general", "read", Compute, Compute, TRUE)} :
          d.of # w /\ d.dst \subseteq Stages
    BY DEF Transition, Compute, Stages
  <2> QED
    BY <2>1, BarrierReads
<1>5. OnlyReads(ready("transmittance"), w, "any", {}, {})
      /\ OnlyReads(ready("multiscatter"), w, "any", {}, {})
  BY <1>4 DEF LutTable
<1> HIDE DEF ds, uses, bs, ready
<1>6. Quiet(<<Barrier(ds), Pass(uses), ready("transmittance"), Pass(bs)>>, w)
  BY <1>2, <1>3, <1>5, ReadsFour DEF Quiet
<1>7. Quiet(<<ready("multiscatter")>>, w)
  BY <1>5, ReadsOne DEF Quiet
<1>8. C = <<Barrier(ds), Pass(uses), ready("transmittance"), Pass(bs)>> \o <<ready("multiscatter")>>
  BY FiveAre
<1>9. Quiet(C, w)
  BY <1>6, <1>7, <1>8, ReadsJoin DEF Quiet
<1> HIDE DEF C
<1> QED
  BY <1>1, <1>9, ReadsOnly DEF Quiet

LEMMA SkyAmbientReads ==
  ASSUME NEW f, NEW w, w \notin {"ambient", "memory"}
  PROVE  /\ Reads(SkyAmbient(f), w, "read", {f.air}, Compute)
         /\ w \notin LutTable => Quiet(SkyAmbient(f), w)
<1> DEFINE ds == {ComputeToCompute(FALSE)}
           uses == {Write("compute", "ambient", "buffer", "now")} \cup LutReads(f)
<1>1. \A d \in ds : d.of # w /\ d.dst \subseteq Stages
  BY DEF ComputeToCompute, Memory, Transition, Compute, Stages
<1>2. \A a \in uses : a.of = w =>
        ~a.writes /\ a.layout = "read" /\ {f.air} \subseteq a.contents /\ a.stage \in Compute
  BY LutReadsAre DEF Write, Compute
<1>3. w \notin LutTable => \A a \in uses : a.of # w
  BY LutReadsAre DEF Write
<1>4. SkyAmbient(f) = <<Barrier(ds), Pass(uses)>>
  BY DEF SkyAmbient
<1> HIDE DEF ds, uses
<1>5. Reads(SkyAmbient(f), w, "read", {f.air}, Compute)
  BY <1>1, <1>2, <1>4, BarrierReads, PassOnlyReads, ReadsTwo
<1>6. w \notin LutTable => Quiet(SkyAmbient(f), w)
  BY <1>1, <1>3, <1>4, BarrierReads, PassOnlyReads, ReadsTwo DEF Quiet
<1> QED
  BY <1>5, <1>6

LEMMA SkyViewReads ==
  ASSUME NEW f, NEW w, w # "sky_view" \/ ~f.inside
  PROVE  /\ Reads(SkyView(f), w, "read", {f.air}, Compute)
         /\ w \notin LutTable => Quiet(SkyView(f), w)
<1> DEFINE ds == {Transition("sky_view", "undefined", "general", Compute, Compute, FALSE)}
           uses == {Write("compute", "sky_view", "general", "now")} \cup LutReads(f)
           es == {Transition("sky_view", "general", "read", Compute, Compute, TRUE)}
           C == <<Barrier(ds), Pass(uses), Barrier(es)>>
<1>1. SkyView(f) = Only(f.inside, C)
  BY DEF SkyView
<1>2. f.inside => /\ Reads(C, w, "read", {f.air}, Compute)
                  /\ w \notin LutTable => Quiet(C, w)
  <2> SUFFICES ASSUME f.inside
               PROVE  /\ Reads(C, w, "read", {f.air}, Compute)
                      /\ w \notin LutTable => Quiet(C, w)
    OBVIOUS
  <2>0. w # "sky_view"
    OBVIOUS
  <2>1. \A d \in ds \cup es : d.of # w /\ d.dst \subseteq Stages
    BY <2>0 DEF Transition, Compute, Stages
  <2>2. \A a \in uses : a.of = w =>
          ~a.writes /\ a.layout = "read" /\ {f.air} \subseteq a.contents /\ a.stage \in Compute
    BY <2>0, LutReadsAre DEF Write, Compute
  <2>3. w \notin LutTable => \A a \in uses : a.of # w
    BY <2>0, LutReadsAre DEF Write
  <2> HIDE DEF ds, uses, es
  <2>4. Reads(C, w, "read", {f.air}, Compute)
    BY <2>1, <2>2, BarrierReads, PassOnlyReads, ReadsThree
  <2>5. w \notin LutTable => Quiet(C, w)
    BY <2>1, <2>3, BarrierReads, PassOnlyReads, ReadsThree DEF Quiet
  <2> QED
    BY <2>4, <2>5
<1> HIDE DEF C
<1>3. Reads(SkyView(f), w, "read", {f.air}, Compute)
  BY <1>1, <1>2, ReadsOnly
<1>4. w \notin LutTable => Quiet(SkyView(f), w)
  BY <1>1, <1>2, ReadsOnly DEF Quiet
<1> QED
  BY <1>3, <1>4

LEMMA SkyQuiet ==
  ASSUME NEW f, NEW w, w \notin LutTable \cup {"ambient", "memory"}, w # "sky_view" \/ ~f.inside
  PROVE  Quiet(Sky(f), w)
<1>1. Quiet(RebuildLuts(f), w) /\ Quiet(SkyAmbient(f), w) /\ Quiet(SkyView(f), w)
  BY RebuildQuiet, SkyAmbientReads, SkyViewReads
<1>2. Quiet(RebuildLuts(f) \o SkyAmbient(f), w)
  BY <1>1, ReadsJoin DEF Quiet
<1>3. Quiet(RebuildLuts(f) \o SkyAmbient(f) \o SkyView(f), w)
  BY <1>1, <1>2, ReadsJoin DEF Quiet
<1> QED
  BY <1>3, ReadsOnly DEF Sky, Quiet

LEMMA ClustersQuiet ==
  ASSUME NEW w, w \notin {"clusters", "memory"}
  PROVE  Quiet(Clusters, w)
<1> DEFINE uses == {Write("compute", "clusters", "buffer", "now")}
           ds == {ComputeToCompute(TRUE)}
<1>1. \A a \in uses : a.of # w
  BY DEF Write
<1>2. \A d \in ds : d.of # w /\ d.dst \subseteq Stages
  BY DEF ComputeToCompute, Memory, Transition, Compute, Stages
<1>3. Clusters = <<Pass(uses), Barrier(ds)>>
  BY DEF Clusters
<1> HIDE DEF ds, uses
<1> QED
  BY <1>1, <1>2, <1>3, BarrierReads, PassOnlyReads, ReadsTwo DEF Quiet

LEMMA GBufferReadsAre ==
  \A a \in GBufferReads :
    /\ a.of \in {"gbuffer", "depth"} /\ ~a.writes /\ a.layout = "read" /\ a.contents = ThisFrame
    /\ a.stage = "compute"
BY DEF GBufferReads, Read

LEMMA ShadowReadsAre ==
  ASSUME NEW f
  PROVE  \A a \in ShadowReads(f) :
           /\ a.of = "shadow" /\ f.shadows /\ ~a.writes /\ a.layout = "read"
           /\ a.contents = ThisFrame /\ a.stage = "compute"
BY DEF ShadowReads, Read

LEMMA UpdateIs ==
  ASSUME NEW stage, NEW of, NEW layout, NEW contents, NEW held
  PROVE  \A a \in Update(stage, of, layout, contents, held) :
           /\ a.of = of /\ a.layout = layout /\ a.stage = stage
           /\ IF a.writes THEN a.contents = {held} ELSE a.contents = contents
BY DEF Update, Read, Write

LEMMA OwnStage == Compute = {"compute"} /\ Fragment = {"fragment"} /\ Depth = {"depth"}
BY DEF Compute, Fragment, Depth

LEMMA LightingReads ==
  ASSUME NEW f, NEW w, w # "hdr"
  PROVE  /\ w \in {"gbuffer", "depth", "shadow"} =>
              Reads(Lighting(f), w, "read", ThisFrame, Compute)
         /\ w \in {"clusters", "ambient"} => Reads(Lighting(f), w, "buffer", ThisFrame, Compute)
         /\ w \in LutTable => Reads(Lighting(f), w, "read", {f.air}, Compute)
         /\ \/ w \notin {"gbuffer", "depth", "shadow", "clusters", "ambient"} \cup LutTable
            \/ w = "shadow" /\ ~f.shadows
            \/ w \in LutTable \cup {"ambient"} /\ f.air = NoAir
            => Quiet(Lighting(f), w)
<1> DEFINE clusters == {Read("compute", "clusters", "buffer", ThisFrame)}
           ambient == {Read("compute", "ambient", "buffer", ThisFrame)}
           air == IF f.air # NoAir THEN LutReads(f) \cup ambient ELSE {}
           hdr == Update("compute", "hdr", "general", ThisFrame, "now")
           uses == GBufferReads \cup ShadowReads(f) \cup clusters \cup hdr \cup air
<1>1. Lighting(f) = <<Pass(uses)>>
  BY DEF Lighting
<1>2. /\ \A a \in clusters : a.of = "clusters" /\ ~a.writes /\ a.layout = "buffer"
                             /\ a.contents = ThisFrame /\ a.stage = "compute"
      /\ \A a \in ambient : a.of = "ambient" /\ ~a.writes /\ a.layout = "buffer"
                            /\ a.contents = ThisFrame /\ a.stage = "compute"
  BY DEF Read
<1>3. \A a \in hdr : a.of = "hdr"
  BY UpdateIs
<1>4. \A a \in air : f.air # NoAir /\ (a \in LutReads(f) \/ a \in ambient)
  OBVIOUS
<1>5. \A a \in uses :
        \/ a \in GBufferReads \/ a \in ShadowReads(f) \/ a \in clusters
        \/ a \in hdr \/ a \in air
  OBVIOUS
<1> HIDE DEF uses, air, hdr, ambient, clusters
<1>6. \A a \in uses :
        a.of = w => /\ ~a.writes /\ a.stage = "compute"
                    /\ w \in {"gbuffer", "depth", "shadow"}
                         => a.layout = "read" /\ a.contents = ThisFrame
                    /\ w \in {"clusters", "ambient"}
                         => a.layout = "buffer" /\ a.contents = ThisFrame
                    /\ w \in LutTable => a.layout = "read" /\ a.contents = {f.air}
                    /\ w \in {"gbuffer", "depth", "shadow", "clusters", "ambient"} \cup LutTable
                    /\ w = "shadow" => f.shadows
                    /\ w \in LutTable \cup {"ambient"} => f.air # NoAir
  BY <1>2, <1>3, <1>4, <1>5, GBufferReadsAre, ShadowReadsAre, LutReadsAre DEF LutTable
<1>7. /\ w \in {"gbuffer", "depth", "shadow"} =>
           OnlyReads(Pass(uses), w, "read", ThisFrame, Compute)
      /\ w \in {"clusters", "ambient"} => OnlyReads(Pass(uses), w, "buffer", ThisFrame, Compute)
      /\ w \in LutTable => OnlyReads(Pass(uses), w, "read", {f.air}, Compute)
  BY <1>6, PassOnlyReads DEF Compute
<1>8. (\A a \in uses : a.of # w) => OnlyReads(Pass(uses), w, "any", {}, {})
  BY PassOnlyReads
<1>9. \/ w \notin {"gbuffer", "depth", "shadow", "clusters", "ambient"} \cup LutTable
      \/ w = "shadow" /\ ~f.shadows
      \/ w \in LutTable \cup {"ambient"} /\ f.air = NoAir
      => \A a \in uses : a.of # w
  BY <1>6
<1> QED
  BY <1>1, <1>7, <1>8, <1>9, ReadsOne DEF Quiet

LEMMA AtmosphereReads ==
  ASSUME NEW f, NEW w, w \notin {"hdr", "memory"}
  PROVE  /\ w \in {"depth", "sky_view"} => Reads(Atmosphere(f), w, "read", ThisFrame, Compute)
         /\ w \in LutTable => Reads(Atmosphere(f), w, "read", {f.air}, Compute)
         /\ \/ w \notin {"depth", "sky_view"} \cup LutTable
            \/ w = "sky_view" /\ ~f.inside
            \/ f.air = NoAir
            => Quiet(Atmosphere(f), w)
<1> DEFINE ds == {ComputeToCompute(TRUE)}
           hdr == Update("compute", "hdr", "general", ThisFrame, "now")
           depth == {Read("compute", "depth", "read", ThisFrame)}
           view == IF f.inside THEN {Read("compute", "sky_view", "read", ThisFrame)} ELSE {}
           uses == hdr \cup LutReads(f) \cup depth \cup view
           C == <<Barrier(ds), Pass(uses)>>
<1>1. Atmosphere(f) = Only(f.air # NoAir, C)
  BY DEF Atmosphere
<1>2. /\ \A a \in depth : a.of = "depth" /\ ~a.writes /\ a.layout = "read"
                          /\ a.contents = ThisFrame /\ a.stage = "compute"
      /\ \A a \in view : a.of = "sky_view" /\ f.inside /\ ~a.writes /\ a.layout = "read"
                         /\ a.contents = ThisFrame /\ a.stage = "compute"
  BY DEF Read
<1>3. \A a \in hdr : a.of = "hdr"
  BY UpdateIs
<1>4. \A a \in uses : a \in hdr \/ a \in LutReads(f) \/ a \in depth \/ a \in view
  OBVIOUS
<1>5. OnlyReads(Barrier(ds), w, "read", ThisFrame, Compute)
      /\ OnlyReads(Barrier(ds), w, "read", {f.air}, Compute)
      /\ OnlyReads(Barrier(ds), w, "any", {}, {})
  <2>1. \A d \in ds : d.of # w /\ d.dst \subseteq Stages
    BY DEF ComputeToCompute, Memory, Transition, Compute, Stages
  <2> HIDE DEF ds
  <2> QED
    BY <2>1, BarrierReads
<1> HIDE DEF uses, view, depth, hdr, ds
<1>6. \A a \in uses :
        a.of = w => /\ ~a.writes /\ a.stage = "compute" /\ a.layout = "read"
                    /\ w \in {"depth", "sky_view"} => a.contents = ThisFrame
                    /\ w \in LutTable => a.contents = {f.air}
                    /\ w \in {"depth", "sky_view"} \cup LutTable
                    /\ w = "sky_view" => f.inside
  BY <1>2, <1>3, <1>4, LutReadsAre DEF LutTable
<1>7. /\ w \in {"depth", "sky_view"} => OnlyReads(Pass(uses), w, "read", ThisFrame, Compute)
      /\ w \in LutTable => OnlyReads(Pass(uses), w, "read", {f.air}, Compute)
  BY <1>6, PassOnlyReads DEF Compute
<1>8. (\A a \in uses : a.of # w) => OnlyReads(Pass(uses), w, "any", {}, {})
  BY PassOnlyReads
<1>9. w \notin {"depth", "sky_view"} \cup LutTable \/ (w = "sky_view" /\ ~f.inside)
      => \A a \in uses : a.of # w
  BY <1>6
<1>10. /\ w \in {"depth", "sky_view"} => Reads(C, w, "read", ThisFrame, Compute)
       /\ w \in LutTable => Reads(C, w, "read", {f.air}, Compute)
       /\ w \notin {"depth", "sky_view"} \cup LutTable \/ (w = "sky_view" /\ ~f.inside)
          => Quiet(C, w)
  BY <1>5, <1>7, <1>8, <1>9, ReadsTwo DEF Quiet
<1>11. f.air = NoAir => Quiet(Atmosphere(f), w)
  BY <1>1, ReadsNone DEF Only, Quiet
<1> HIDE DEF C
<1> QED
  BY <1>1, <1>10, <1>11, ReadsOnly DEF Quiet

LEMMA HistoryAre ==
  ASSUME NEW i \in 0 .. 1
  PROVE  /\ History[i] \in {"history_0", "history_1"}
         /\ History[1 - i] \in {"history_0", "history_1"}
         /\ History[i] # History[1 - i]
         /\ {History[i], History[1 - i]} = {"history_0", "history_1"}
<1>1. i = 0 \/ i = 1
  OBVIOUS
<1>2. History[0] = "history_0" /\ History[1] = "history_1"
  BY DEF History
<1> QED
  BY <1>1, <1>2

LEMMA TaaReads ==
  ASSUME NEW f, f.write \in 0 .. 1, NEW w, w \notin {"memory", History[f.write]},
         w # History[1 - f.write] \/ f.valid
  PROVE  /\ w = "hdr" => Reads(Taa(f), w, "general", ThisFrame, Compute)
         /\ w \in {"gbuffer", "depth"} => Reads(Taa(f), w, "read", ThisFrame, Compute)
         /\ w \notin {"hdr", "gbuffer", "depth"} => Reads(Taa(f), w, "read", LastFrame, Compute)
         /\ \/ w \notin {"hdr", "gbuffer", "depth", "exposure", History[1 - f.write]}
            \/ ~f.taa
            \/ w = "exposure" /\ ~f.exposed
            => Quiet(Taa(f), w)
<1> DEFINE target == History[f.write]
           other == History[1 - f.write]
           ds == {Transition(target, "undefined", "general", Samplers, Compute, FALSE),
                  ComputeToCompute(TRUE)}
                 \cup (IF f.valid THEN {}
                       ELSE {Transition(other, "undefined", "read", Samplers, Compute, FALSE)})
           hdr == {Read("compute", "hdr", "general", ThisFrame)}
           made == {Write("compute", target, "general", "now")}
           old == IF f.valid THEN {Read("compute", other, "read", LastFrame)} ELSE {}
           light == IF f.exposed THEN {Read("compute", "exposure", "read", LastFrame)} ELSE {}
           uses == hdr \cup GBufferReads \cup made \cup old \cup light
           C == <<Barrier(ds), Pass(uses)>>
<1>1. Taa(f) = Only(f.taa, C)
  BY DEF Taa
<1>2. /\ \A a \in hdr : a.of = "hdr" /\ ~a.writes /\ a.layout = "general"
                        /\ a.contents = ThisFrame /\ a.stage = "compute"
      /\ \A a \in old : a.of = other /\ f.valid /\ ~a.writes /\ a.layout = "read"
                        /\ a.contents = LastFrame /\ a.stage = "compute"
      /\ \A a \in light : a.of = "exposure" /\ f.exposed /\ ~a.writes /\ a.layout = "read"
                          /\ a.contents = LastFrame /\ a.stage = "compute"
      /\ \A a \in made : a.of = target
  BY DEF Read, Write
<1>3. \A a \in uses : a \in hdr \/ a \in GBufferReads \/ a \in made \/ a \in old \/ a \in light
  OBVIOUS
<1>4. w # target /\ (w # other \/ f.valid)
  OBVIOUS
<1>5. \A d \in ds : d.of # w /\ d.dst \subseteq Stages
  <2> HIDE DEF target, other
  <2> QED
    BY <1>4 DEF ComputeToCompute, Memory, Transition, Compute, Samplers, Stages
<1>6. other \in {"history_0", "history_1"}
  BY HistoryAre
<1> HIDE DEF uses, light, old, made, hdr, ds, target, other
<1>7. \A a \in uses :
        a.of = w => /\ ~a.writes /\ a.stage = "compute"
                    /\ w = "hdr" => a.layout = "general" /\ a.contents = ThisFrame
                    /\ w \in {"gbuffer", "depth"} => a.layout = "read" /\ a.contents = ThisFrame
                    /\ w \notin {"hdr", "gbuffer", "depth"}
                         => a.layout = "read" /\ a.contents = LastFrame
                    /\ w \in {"hdr", "gbuffer", "depth", "exposure", other}
                    /\ w = "exposure" => f.exposed
  BY <1>2, <1>3, <1>4, <1>6, GBufferReadsAre
<1>8. /\ w = "hdr" => OnlyReads(Pass(uses), w, "general", ThisFrame, Compute)
      /\ w \in {"gbuffer", "depth"} => OnlyReads(Pass(uses), w, "read", ThisFrame, Compute)
      /\ w \notin {"hdr", "gbuffer", "depth"} =>
           OnlyReads(Pass(uses), w, "read", LastFrame, Compute)
  BY <1>7, PassOnlyReads DEF Compute
<1>9. (\A a \in uses : a.of # w) => OnlyReads(Pass(uses), w, "any", {}, {})
  BY PassOnlyReads
<1>10. w \notin {"hdr", "gbuffer", "depth", "exposure", other} \/ (w = "exposure" /\ ~f.exposed)
       => \A a \in uses : a.of # w
  BY <1>7
<1>11. /\ OnlyReads(Barrier(ds), w, "general", ThisFrame, Compute)
       /\ OnlyReads(Barrier(ds), w, "read", ThisFrame, Compute)
       /\ OnlyReads(Barrier(ds), w, "read", LastFrame, Compute)
       /\ OnlyReads(Barrier(ds), w, "any", {}, {})
  BY <1>5, BarrierReads
<1>12. /\ w = "hdr" => Reads(C, w, "general", ThisFrame, Compute)
       /\ w \in {"gbuffer", "depth"} => Reads(C, w, "read", ThisFrame, Compute)
       /\ w \notin {"hdr", "gbuffer", "depth"} => Reads(C, w, "read", LastFrame, Compute)
       /\ w \notin {"hdr", "gbuffer", "depth", "exposure", other} \/ (w = "exposure" /\ ~f.exposed)
          => Quiet(C, w)
  BY <1>8, <1>9, <1>10, <1>11, ReadsTwo DEF Quiet
<1>13. ~f.taa => Quiet(Taa(f), w)
  BY <1>1, ReadsNone DEF Only, Quiet
<1> HIDE DEF C
<1> QED
  BY <1>1, <1>12, <1>13, ReadsOnly DEF Quiet, other

LEMMA ExposureReads ==
  ASSUME NEW f, NEW w, w \notin {"exposure", "histogram", "memory"}
  PROVE  /\ Reads(Exposure(f), w, "general", ThisFrame, Compute)
         /\ w # Lit(f) => Quiet(Exposure(f), w)
<1> DEFINE ds == {ComputeToCompute(TRUE),
                  Transition("exposure", IF f.exposed THEN "read" ELSE "undefined", "general",
                             Samplers, Compute, FALSE)}
           uses == {Read("compute", Lit(f), "general", ThisFrame)}
                 \cup Update("compute", "histogram", "buffer", {"zeroed"}, "binned")
           es == {ComputeToCompute(TRUE)}
           bs == Update("compute", "histogram", "buffer", {"binned"}, "zeroed")
                 \cup {Write("compute", "exposure", "general", "now")}
                 \cup (IF f.exposed
                       THEN {Read("compute", "exposure", "general", LastFrame)} ELSE {})
<1>1. Exposure(f) = <<Barrier(ds), Pass(uses), Barrier(es), Pass(bs)>>
  BY DEF Exposure
<1>2. \A d \in ds \cup es : d.of # w /\ d.dst \subseteq Stages
  BY DEF ComputeToCompute, Memory, Transition, Compute, Samplers, Stages
<1>3. \A a \in uses : a.of = w =>
        /\ ~a.writes /\ a.layout = "general" /\ a.contents = ThisFrame /\ a.stage = "compute"
        /\ w = Lit(f)
  BY UpdateIs DEF Read
<1>4. \A a \in bs : a.of # w
  BY UpdateIs DEF Read, Write
<1> HIDE DEF ds, uses, es, bs
<1>5. Reads(Exposure(f), w, "general", ThisFrame, Compute)
  BY <1>1, <1>2, <1>3, <1>4, BarrierReads, PassOnlyReads, ReadsFour DEF Compute
<1>6. w # Lit(f) => Quiet(Exposure(f), w)
  BY <1>1, <1>2, <1>3, <1>4, BarrierReads, PassOnlyReads, ReadsFour DEF Quiet
<1> QED
  BY <1>5, <1>6

LEMMA DebugViewsReads ==
  ASSUME NEW f, NEW w, w # "debug" \/ ~f.windows
  PROVE  /\ w \in {"gbuffer", "depth", "shadow"} =>
              Reads(DebugViews(f), w, "read", ThisFrame, Compute)
         /\ w = "clusters" => Reads(DebugViews(f), w, "buffer", ThisFrame, Compute)
         /\ \/ w \notin {"gbuffer", "depth", "shadow", "clusters"}
            \/ w = "shadow" /\ ~f.shadows
            => Quiet(DebugViews(f), w)
<1> DEFINE ds == {Transition("debug", "undefined", "general", Fragment, Compute, FALSE)}
           own == {Read("compute", "clusters", "buffer", ThisFrame),
                   Write("compute", "debug", "general", "now")}
           uses == GBufferReads \cup ShadowReads(f) \cup own
           C == <<Barrier(ds), Pass(uses)>>
<1>1. DebugViews(f) = Only(f.windows, C)
  BY DEF DebugViews
<1>2. ASSUME f.windows
      PROVE  /\ w \in {"gbuffer", "depth", "shadow"} => Reads(C, w, "read", ThisFrame, Compute)
             /\ w = "clusters" => Reads(C, w, "buffer", ThisFrame, Compute)
             /\ \/ w \notin {"gbuffer", "depth", "shadow", "clusters"}
                \/ w = "shadow" /\ ~f.shadows
                => Quiet(C, w)
  <2>1. w # "debug"
    BY <1>2
  <2>2. \A d \in ds : d.of # w /\ d.dst \subseteq Stages
    BY <2>1 DEF Transition, Compute, Stages
  <2>3. \A a \in own : a.of = w => /\ ~a.writes /\ a.layout = "buffer" /\ a.contents = ThisFrame
                                   /\ a.stage = "compute" /\ w = "clusters"
    BY <2>1 DEF Read, Write
  <2>4. \A a \in uses : a \in GBufferReads \/ a \in ShadowReads(f) \/ a \in own
    OBVIOUS
  <2> HIDE DEF ds, own, uses
  <2>5. \A a \in uses :
          a.of = w => /\ ~a.writes /\ a.stage = "compute" /\ a.contents = ThisFrame
                      /\ w \in {"gbuffer", "depth", "shadow"} => a.layout = "read"
                      /\ w = "clusters" => a.layout = "buffer"
                      /\ w \in {"gbuffer", "depth", "shadow", "clusters"}
                      /\ w = "shadow" => f.shadows
    BY <2>3, <2>4, GBufferReadsAre, ShadowReadsAre
  <2>6. /\ w \in {"gbuffer", "depth", "shadow"} =>
             OnlyReads(Pass(uses), w, "read", ThisFrame, Compute)
        /\ w = "clusters" => OnlyReads(Pass(uses), w, "buffer", ThisFrame, Compute)
    BY <2>5, PassOnlyReads DEF Compute
  <2>7. (\A a \in uses : a.of # w) => OnlyReads(Pass(uses), w, "any", {}, {})
    BY PassOnlyReads
  <2>8. w \notin {"gbuffer", "depth", "shadow", "clusters"} \/ (w = "shadow" /\ ~f.shadows)
        => \A a \in uses : a.of # w
    BY <2>5
  <2>9. /\ OnlyReads(Barrier(ds), w, "read", ThisFrame, Compute)
        /\ OnlyReads(Barrier(ds), w, "buffer", ThisFrame, Compute)
        /\ OnlyReads(Barrier(ds), w, "any", {}, {})
    BY <2>2, BarrierReads
  <2> QED
    BY <2>6, <2>7, <2>8, <2>9, ReadsTwo DEF Quiet
<1> HIDE DEF C
<1> QED
  BY <1>1, <1>2, ReadsOnly DEF Quiet

LEMMA HandoffQuiet ==
  ASSUME NEW f, NEW w, w \notin {"hdr", "target", "exposure"}, w # History[f.write] \/ ~f.taa,
         w # "debug" \/ ~f.windows
  PROVE  Quiet(Handoff(f), w)
<1> DEFINE own == {Transition("hdr", "general", "read", Compute, Fragment, TRUE),
                   Transition("target", "undefined", "colour", Colour, Colour, FALSE),
                   Transition("exposure", "general", "read", Compute, Samplers, TRUE)}
           taas == IF f.taa
                   THEN {Transition(History[f.write], "general", "read", Compute, Samplers, TRUE)}
                   ELSE {}
           views == IF f.windows
                    THEN {Transition("debug", "general", "read", Compute, Fragment, TRUE)} ELSE {}
           ds == own \cup taas \cup views
<1>1. Handoff(f) = <<Barrier(ds)>>
  BY DEF Handoff
<1>2. \A d \in own : d.of # w /\ d.dst \subseteq Stages
  BY DEF Transition, Fragment, Colour, Samplers, Stages
<1>3. \A d \in taas : d.of # w /\ d.dst \subseteq Stages
  <2>1. CASE f.taa
    BY <2>1 DEF Transition, Samplers, Stages
  <2>2. CASE ~f.taa
    BY <2>2
  <2> QED
    BY <2>1, <2>2
<1>4. \A d \in views : d.of # w /\ d.dst \subseteq Stages
  BY DEF Transition, Fragment, Stages
<1>5. \A d \in ds : d \in own \/ d \in taas \/ d \in views
  OBVIOUS
<1> HIDE DEF own, taas, views, ds
<1>6. \A d \in ds : d.of # w /\ d.dst \subseteq Stages
  BY <1>2, <1>3, <1>4, <1>5
<1> QED
  BY <1>1, <1>6, BarrierReads, ReadsOne DEF Quiet

LEMMA TonemapReads ==
  ASSUME NEW f, NEW w, w # "target"
  PROVE  /\ Reads(Tonemap(f), w, "read", ThisFrame, Fragment)
         /\ w \notin {Lit(f), "exposure"} => Quiet(Tonemap(f), w)
<1> DEFINE uses == {Read("fragment", Lit(f), "read", ThisFrame),
                  Read("fragment", "exposure", "read", ThisFrame),
                  Write("colour", "target", "colour", "now")}
<1>1. Tonemap(f) = <<Pass(uses)>>
  BY DEF Tonemap
<1>2. \A a \in uses : a.of = w =>
        /\ ~a.writes /\ a.layout = "read" /\ a.contents = ThisFrame /\ a.stage \in Fragment
        /\ w \in {Lit(f), "exposure"}
  BY DEF Read, Write, Fragment
<1> HIDE DEF uses
<1> QED
  BY <1>1, <1>2, PassOnlyReads, ReadsOne DEF Quiet

LEMMA ReloadReads ==
  ASSUME NEW w, w # "target", NEW layout, NEW holds, NEW stages
  PROVE  OnlyReads(Reload, w, layout, holds, stages)
<1> DEFINE ds == {Transition("target", "colour", "colour", Colour, Colour, TRUE)}
<1>1. Reload = Barrier(ds)
  BY DEF Reload
<1>2. \A d \in ds : d.of # w /\ d.dst \subseteq Stages
  BY DEF Transition, Colour, Stages
<1> HIDE DEF ds
<1> QED
  BY <1>1, <1>2, BarrierReads

LEMMA DebugDrawReads ==
  ASSUME NEW f, NEW w, w # "target"
  PROVE  /\ Reads(DebugDraw(f), w, "read", ThisFrame, Depth)
         /\ w # "depth" => Quiet(DebugDraw(f), w)
<1> DEFINE uses == Over \cup {Read("depth", "depth", "read", ThisFrame)}
           C == <<Reload, Pass(uses)>>
<1>1. DebugDraw(f) = Only(f.lines, C)
  BY DEF DebugDraw
<1>2. \A a \in Over : a.of = "target"
  BY UpdateIs DEF Over
<1>3. \A a \in uses : a.of = w =>
        /\ ~a.writes /\ a.layout = "read" /\ a.contents = ThisFrame /\ a.stage \in Depth
        /\ w = "depth"
  BY <1>2 DEF Read, Depth
<1> HIDE DEF uses
<1>4. Reads(C, w, "read", ThisFrame, Depth)
  BY <1>3, ReloadReads, PassOnlyReads, ReadsTwo
<1>5. w # "depth" => Quiet(C, w)
  BY <1>3, ReloadReads, PassOnlyReads, ReadsTwo DEF Quiet
<1> HIDE DEF C
<1> QED
  BY <1>1, <1>4, <1>5, ReadsOnly DEF Quiet

LEMMA UiUploadQuiet ==
  ASSUME NEW f, NEW w, w # Ui \/ f.ui \notin {"create", "update"}
  PROVE  Quiet(UiUpload(f), w)
<1> DEFINE new == f.ui = "create"
           ds == {Transition(Ui, IF new THEN "undefined" ELSE "read", "dst",
                             IF new THEN {} ELSE Fragment, Copy, FALSE)}
           uses == {Write("copy", Ui, "dst", "data")}
           es == {Transition(Ui, "dst", "read", Copy, Fragment, TRUE)}
           C == <<Barrier(ds), Pass(uses), Barrier(es)>>
<1>1. UiUpload(f) = Only(f.ui \in {"create", "update"}, C)
  BY DEF UiUpload
<1>2. ASSUME f.ui \in {"create", "update"} PROVE Quiet(C, w)
  <2>1. w # Ui
    BY <1>2
  <2>2. \A d \in ds : d.of # w /\ d.dst \subseteq Stages
    BY <2>1 DEF Transition, Copy, Stages
  <2>3. \A d \in es : d.of # w /\ d.dst \subseteq Stages
    BY <2>1 DEF Transition, Fragment, Stages
  <2>4. \A a \in uses : a.of # w
    BY <2>1 DEF Write
  <2> HIDE DEF ds, es, uses
  <2> QED
    BY <2>2, <2>3, <2>4, BarrierReads, PassOnlyReads, ReadsThree DEF Quiet
<1> HIDE DEF C
<1> QED
  BY <1>1, <1>2, ReadsOnly DEF Quiet

\* What Overlay does after the uploads.
OverlayDraw(f) ==
  <<Reload,
    Pass(Over
         \cup (IF f.windows THEN {Read("fragment", "debug", "read", ThisFrame)} ELSE {})
         \cup (IF f.shown THEN {Read("fragment", Ui, "read", {"data"})} ELSE {}))>>

LEMMA OverlayDrawReads ==
  ASSUME NEW f, NEW w, w # "target"
  PROVE  /\ w = "debug" => Reads(OverlayDraw(f), w, "read", ThisFrame, Fragment)
         /\ w = Ui => Reads(OverlayDraw(f), w, "read", {"data"}, Fragment)
         /\ (w # "debug" \/ ~f.windows) /\ (w # Ui \/ ~f.shown) => Quiet(OverlayDraw(f), w)
<1> DEFINE views == IF f.windows THEN {Read("fragment", "debug", "read", ThisFrame)} ELSE {}
           shown == IF f.shown THEN {Read("fragment", Ui, "read", {"data"})} ELSE {}
           uses == Over \cup views \cup shown
<1>1. OverlayDraw(f) = <<Reload, Pass(uses)>>
  BY DEF OverlayDraw
<1>2. \A a \in Over : a.of = "target"
  BY UpdateIs DEF Over
<1>3. \A a \in views : /\ f.windows /\ a.of = "debug" /\ ~a.writes /\ a.layout = "read"
                       /\ a.contents = ThisFrame /\ a.stage \in Fragment
  BY DEF Read, Fragment
<1>4. \A a \in shown : /\ f.shown /\ a.of = Ui /\ ~a.writes /\ a.layout = "read"
                       /\ a.contents = {"data"} /\ a.stage \in Fragment
  BY DEF Read, Fragment
<1>5. \A a \in uses : a \in Over \/ a \in views \/ a \in shown
  OBVIOUS
<1>6. Ui # "debug"
  BY DEF Ui
<1> HIDE DEF uses, views, shown
<1>7. \A a \in uses : a.of = w =>
        /\ ~a.writes /\ a.layout = "read" /\ a.stage \in Fragment
        /\ w = "debug" => a.contents = ThisFrame /\ f.windows
        /\ w = Ui => a.contents = {"data"} /\ f.shown
        /\ w = "debug" \/ w = Ui
  BY <1>2, <1>3, <1>4, <1>5, <1>6
<1>8. w = "debug" => OnlyReads(Pass(uses), w, "read", ThisFrame, Fragment)
  BY <1>7, PassOnlyReads
<1>9. w = Ui => OnlyReads(Pass(uses), w, "read", {"data"}, Fragment)
  BY <1>7, PassOnlyReads
<1>10. (w # "debug" \/ ~f.windows) /\ (w # Ui \/ ~f.shown) =>
         OnlyReads(Pass(uses), w, "any", {}, {})
  BY <1>7, PassOnlyReads
<1> QED
  BY <1>1, <1>8, <1>9, <1>10, ReloadReads, ReadsTwo DEF Quiet

LEMMA OverlayIs == \A f : Overlay(f) = UiUpload(f) \o OverlayDraw(f)
BY DEF Overlay, OverlayDraw

LEMMA CapturedQuiet ==
  ASSUME NEW f, NEW w, w \notin {"target", "capture", "memory"} \/ ~f.capture
  PROVE  Quiet(Captured(f), w)
<1> DEFINE ds == {Transition("target", "colour", "src", Colour, Copy, TRUE)}
           uses == {Read("copy", "target", "src", ThisFrame),
                    Write("copy", "capture", "buffer", "now")}
           es == {Memory(Copy, {"host"}, TRUE)}
           bs == {Read("host", "capture", "buffer", ThisFrame)}
           C == <<Barrier(ds), Pass(uses), Barrier(es), Pass(bs)>>
<1>1. Captured(f) = Only(f.capture, C)
  BY DEF Captured
<1>2. ASSUME f.capture PROVE Quiet(C, w)
  <2>1. w \notin {"target", "capture", "memory"}
    BY <1>2
  <2>2. \A d \in ds : d.of # w /\ d.dst \subseteq Stages
    BY <2>1 DEF Transition, Copy, Stages
  <2>3. \A d \in es : d.of # w /\ d.dst \subseteq Stages
    BY <2>1 DEF Transition, Memory, Stages
  <2>4. (\A a \in uses : a.of # w) /\ (\A a \in bs : a.of # w)
    BY <2>1 DEF Read, Write
  <2> HIDE DEF ds, es, uses, bs
  <2> QED
    BY <2>2, <2>3, <2>4, BarrierReads, PassOnlyReads, ReadsFour DEF Quiet
<1> HIDE DEF C
<1> QED
  BY <1>1, <1>2, ReadsOnly DEF Quiet

LEMMA PresentQuiet ==
  ASSUME NEW f, NEW w, w # "target"
  PROVE  Quiet(Present(f), w)
<1> DEFINE ds == {Transition("target", "src", "present", Copy, {}, FALSE)}
           es == {Transition("target", "colour", "present", Colour, {}, TRUE)}
<1>1. Present(f) = IF f.capture THEN <<Barrier(ds)>> ELSE <<Barrier(es)>>
  BY DEF Present
<1>2. \A d \in ds : d.of # w /\ d.dst \subseteq Stages
  BY DEF Transition
<1>3. \A d \in es : d.of # w /\ d.dst \subseteq Stages
  BY DEF Transition
<1> HIDE DEF ds, es
<1> QED
  BY <1>1, <1>2, <1>3, BarrierReads, ReadsOne DEF Quiet

-----------------------------------------------------------------------------
(* The texture's upload *)

LEMMA LevelsAre ==
  /\ Level \in Seq(Range(Level)) /\ Len(Level) \in Nat \ {0}
  /\ \A k \in 1 .. Len(Level) : Level[k] \in Range(Level)
  /\ \A j, k \in 1 .. Len(Level) : Level[j] = Level[k] => j = k
  /\ \A l \in Range(Level) : \E k \in 1 .. Len(Level) : l = Level[k]
  /\ Head(Level) = Level[1] /\ Last(Level) = Level[Len(Level)]
<1>1. Level \in Seq(Range(Level)) /\ Level # <<>> /\ IsInjective(Level)
  BY LevelAssumption
<1>2. DOMAIN Level = 1 .. Len(Level) /\ Len(Level) \in Nat \ {0}
  BY <1>1
<1>3. \A j, k \in 1 .. Len(Level) : Level[j] = Level[k] => j = k
  BY <1>1, <1>2 DEF IsInjective
<1>4. \A l \in Range(Level) : \E k \in 1 .. Len(Level) : l = Level[k]
  BY <1>2 DEF Range
<1>5. \A k \in 1 .. Len(Level) : Level[k] \in Range(Level)
  BY <1>2 DEF Range
<1>6. Head(Level) = Level[1] /\ Last(Level) = Level[Len(Level)]
  BY <1>1, <1>2 DEF Last
<1> QED
  BY <1>1, <1>2, <1>3, <1>4, <1>5, <1>6

\* The commands for the first n levels below the largest.
Fills(f) ==
  /\ f[0] = <<>>
  /\ \A n \in 1 .. Len(Level) - 1 : f[n] = f[n - 1] \o FillLevel(n + 1)

FlatTo(s, f, n) == f = [i \in 1 .. n |-> IF i = 1 THEN s[i] ELSE f[i - 1] \o s[i]]

LEMMA FlatsExist ==
  ASSUME NEW s
  PROVE  \A n \in Nat : \E f : FlatTo(s, f, n)
<1> DEFINE S == {n \in Nat : \E f : FlatTo(s, f, n)}
<1>1. 0 \in S
  <2> DEFINE e == [i \in 1 .. 0 |-> <<>>]
  <2>1. e = [i \in 1 .. 0 |-> IF i = 1 THEN s[i] ELSE e[i - 1] \o s[i]]
    <3>1. \A i \in 1 .. 0 : FALSE
      OBVIOUS
    <3> QED
      BY <3>1
  <2>2. FlatTo(s, e, 0)
    BY <2>1 DEF FlatTo
  <2> QED
    BY <2>2
<1>2. ASSUME NEW n \in Nat, n \in S PROVE n + 1 \in S
  <2>1. PICK f : FlatTo(s, f, n)
    BY <1>2
  <2> DEFINE Next1(g, k) == IF k = 1 THEN s[k] ELSE g[k - 1] \o s[k]
             g == [k \in 1 .. n + 1 |-> IF k <= n THEN f[k] ELSE Next1(f, k)]
  <2>2. f = [k \in 1 .. n |-> Next1(f, k)]
    BY <2>1 DEF FlatTo
  <2>3. \A k \in 1 .. n : f[k] = Next1(f, k) /\ g[k] = f[k]
    <3> HIDE DEF Next1
    <3> QED
      BY <2>2
  <2>4. \A k \in 1 .. n + 1 : g[k] = Next1(g, k)
    <3> SUFFICES ASSUME NEW k \in 1 .. n + 1 PROVE g[k] = Next1(g, k)
      OBVIOUS
    <3>1. Next1(g, k) = Next1(f, k)
      <4>1. CASE k = 1
        <5> HIDE DEF g
        <5> QED
          BY <4>1
      <4>2. CASE k # 1
        <5>1. k - 1 \in 1 .. n /\ g[k - 1] = f[k - 1]
          <6>1. k - 1 \in 1 .. n
            BY <4>2
          <6> HIDE DEF g, Next1
          <6> QED
            BY <2>3, <6>1
        <5> HIDE DEF g
        <5> QED
          BY <4>2, <5>1
      <4> QED
        BY <4>1, <4>2
    <3>2. g[k] = IF k <= n THEN f[k] ELSE Next1(f, k)
      OBVIOUS
    <3>3. k <= n => f[k] = Next1(f, k)
      <4> HIDE DEF Next1, g
      <4> QED
        BY <2>3
    <3> HIDE DEF g, Next1
    <3> QED
      BY <3>1, <3>2, <3>3
  <2>5. g = [k \in 1 .. n + 1 |-> Next1(g, k)]
    <3>1. \E h : h = [k \in 1 .. n + 1 |-> Next1(g, k)]
      OBVIOUS
    <3>2. DOMAIN g = 1 .. n + 1
      OBVIOUS
    <3> HIDE DEF Next1
    <3> QED
      BY <2>4
  <2>6. FlatTo(s, g, n + 1)
    BY <2>5 DEF FlatTo
  <2> QED
    BY <2>6
<1> HIDE DEF S
<1>3. \A n \in Nat : n \in S
  BY <1>1, <1>2, Induct
<1> QED
  BY <1>3 DEF S

LEMMA FillIsList == \A l : IsList(FillLevel(l))
<1> SUFFICES ASSUME NEW l PROVE IsList(FillLevel(l))
  OBVIOUS
<1>1. \A a, b, c : IsList(<<a, b, c>>)
  BY ListThree
<1> QED
  BY <1>1 DEF FillLevel

LEMMA FillsAre ==
  \E f : /\ Fills(f)
         /\ FlattenSeq([l \in 1 .. Len(Level) - 1 |-> FillLevel(l + 1)]) = f[Len(Level) - 1]
<1> DEFINE n == Len(Level) - 1
           s == [l \in 1 .. n |-> FillLevel(l + 1)]
<1>1. n \in Nat
  BY LevelsAre
<1>2. \A l \in 1 .. n : s[l] = FillLevel(l + 1)
  OBVIOUS
<1>3. s \in Seq({FillLevel(l + 1) : l \in 1 .. n})
  <2> DEFINE R == {FillLevel(l + 1) : l \in 1 .. n}
  <2>1. s \in [1 .. n -> R]
    OBVIOUS
  <2>2. Seq(R) = UNION {[1 .. m -> R] : m \in Nat}
    BY SeqDef
  <2>3. s \in Seq(R)
    <3> HIDE DEF s, R
    <3> QED
      BY <1>1, <2>1, <2>2
  <2> QED
    BY <2>3
<1>4. Len(s) = n
  <2>1. DOMAIN s = 1 .. n
    OBVIOUS
  <2> HIDE DEF s
  <2> QED
    BY <1>1, <1>3, <2>1
<1> HIDE DEF s
<1>5. CASE n = 0
  <2>1. FlattenSeq(s) = s
    BY <1>4, <1>5 DEF FlattenSeq
  <2>2. s = <<>>
    BY <1>3, <1>4, <1>5, EmptySeq
  <2> DEFINE f == [k \in 0 .. 0 |-> <<>>]
  <2>3. f[0] = <<>>
    OBVIOUS
  <2>4. Fills(f)
    BY <1>5, <2>3 DEF Fills
  <2> QED
    BY <1>5, <2>1, <2>2, <2>3, <2>4 DEF s
<1>6. CASE n # 0
  <2>1. \E g : FlatTo(s, g, n)
    BY <1>1, FlatsExist
  <2>2. FlattenSeq(s) = (CHOOSE g : FlatTo(s, g, n))[n]
    <3>1. Len(s) # 0
      BY <1>4, <1>6
    <3>2. FlattenSeq(s) = (CHOOSE g : FlatTo(s, g, Len(s)))[Len(s)]
      BY <3>1 DEF FlattenSeq, FlatTo
    <3> QED
      BY <1>4, <3>2
  <2>3. PICK g : FlatTo(s, g, n) /\ FlattenSeq(s) = g[n]
    BY <2>1, <2>2
  <2> DEFINE V(k) == IF k = 1 THEN s[k] ELSE g[k - 1] \o s[k]
  <2>4. g = [k \in 1 .. n |-> V(k)]
    BY <2>3 DEF FlatTo
  <2>5. \A k \in 1 .. n : g[k] = V(k)
    <3> HIDE DEF V
    <3> QED
      BY <2>4
  <2> DEFINE f == [k \in 0 .. n |-> IF k = 0 THEN <<>> ELSE g[k]]
  <2>6. f[0] = <<>> /\ \A k \in 1 .. n : f[k] = g[k]
    BY <1>1
  <2>7. ASSUME NEW k \in 1 .. n PROVE f[k] = f[k - 1] \o FillLevel(k + 1)
    <3>1. s[k] = FillLevel(k + 1)
      BY <1>2
    <3>2. CASE k = 1
      <4>1. g[k] = s[k]
        BY <2>5, <3>2
      <4>2. PICK S : FillLevel(k + 1) \in Seq(S)
        BY FillIsList DEF IsList
      <4>3. <<>> \o FillLevel(k + 1) = FillLevel(k + 1)
        BY <4>2, ConcatEmptySeq
      <4>4. f[k - 1] = <<>>
        BY <2>6, <3>2
      <4> HIDE DEF f
      <4> QED
        BY <2>6, <3>1, <4>1, <4>3, <4>4
    <3>3. CASE k # 1
      <4>1. k - 1 \in 1 .. n
        BY <1>1, <3>3
      <4>2. g[k] = g[k - 1] \o s[k]
        BY <2>5, <3>3
      <4>3. f[k] = g[k] /\ f[k - 1] = g[k - 1]
        <5> HIDE DEF f
        <5> QED
          BY <2>6, <4>1
      <4> HIDE DEF f
      <4> QED
        BY <3>1, <4>2, <4>3
    <3> QED
      BY <3>2, <3>3
  <2>8. Fills(f)
    <3> HIDE DEF f
    <3> QED
      BY <2>6, <2>7 DEF Fills
  <2>9. f[n] = g[n]
    <3>1. n \in 1 .. n
      BY <1>1, <1>6
    <3> HIDE DEF f
    <3> QED
      BY <2>6, <3>1
  <2> QED
    BY <2>3, <2>8, <2>9 DEF s
<1> QED
  BY <1>5, <1>6

LEMMA NoneIs ==
  ASSUME NEW w, NEW of, of # w, NEW from, NEW to, NEW src, NEW dst \in SUBSET Stages, NEW flush
  PROVE  \A d \in {Transition(of, from, to, src, dst, flush)} : d.of # w /\ d.dst \subseteq Stages
BY DEF Transition

LEMMA StagesAre ==
  /\ Copy \subseteq Stages /\ Blit \subseteq Stages
  /\ Fragment \subseteq Stages /\ Colour \subseteq Stages
  /\ Compute \subseteq Stages /\ Depth \subseteq Stages /\ Samplers \subseteq Stages
BY DEF Copy, Blit, Fragment, Colour, Compute, Depth, Samplers, Stages

LEMMA FillOthers ==
  ASSUME NEW l, NEW w, w \notin {Level[l - 1], Level[l]}
  PROVE  Quiet(FillLevel(l), w)
<1> DEFINE filled == IF l = 2 THEN Copy ELSE Blit
           ds == {Transition(Level[l - 1], "dst", "src", filled, Blit, TRUE)}
           uses == {Read("blit", Level[l - 1], "src", {"data"}),
                    Write("blit", Level[l], "dst", "data")}
           es == {Transition(Level[l - 1], "src", "read", Blit, Fragment, FALSE)}
<1>1. FillLevel(l) = <<Barrier(ds), Pass(uses), Barrier(es)>>
  BY DEF FillLevel
<1>2. /\ (\A d \in ds : d.of # w /\ d.dst \subseteq Stages)
      /\ (\A d \in es : d.of # w /\ d.dst \subseteq Stages)
  BY NoneIs, StagesAre
<1>3. \A a \in uses : a.of # w
  BY DEF Read, Write
<1> HIDE DEF ds, uses, es
<1> QED
  BY <1>1, <1>2, <1>3, BarrierReads, PassOnlyReads, ReadsThree DEF Quiet

LEMMA FillTarget ==
  ASSUME NEW r, NEW l \in 2 .. Len(Level), Fine(r, "dst", {"nothing"}, Copy \cup Blit, {}, Stages)
  PROVE  Wrote(Run(r, Level[l], FillLevel(l)), "dst", {"data"}, "blit")
<1> DEFINE w == Level[l]
           filled == IF l = 2 THEN Copy ELSE Blit
           ds == {Transition(Level[l - 1], "dst", "src", filled, Blit, TRUE)}
           uses == {Read("blit", Level[l - 1], "src", {"data"}),
                    Write("blit", Level[l], "dst", "data")}
           es == {Transition(Level[l - 1], "src", "read", Blit, Fragment, FALSE)}
           r1 == After(r, w, Barrier(ds))
           r2 == After(r1, w, Pass(uses))
           r3 == After(r2, w, Barrier(es))
<1>1. FillLevel(l) = <<Barrier(ds), Pass(uses), Barrier(es)>>
  BY DEF FillLevel
<1>2. Level[l - 1] # w
  <2>1. l - 1 \in 1 .. Len(Level) /\ l \in 1 .. Len(Level) /\ l - 1 # l
    BY LevelsAre
  <2> QED
    BY <2>1, LevelsAre
<1>3. /\ (\A d \in ds : d.of # w /\ d.dst \subseteq Stages)
      /\ (\A d \in es : d.of # w /\ d.dst \subseteq Stages)
  <2> HIDE DEF w
  <2> QED
    BY <1>2, NoneIs, StagesAre
<1>4. /\ \E a \in uses : a.of = w /\ a.writes
      /\ \A a \in uses : a.of = w =>
           a.layout = "dst" /\ a.stage = "blit" /\ a.writes /\ a.contents = {"data"}
  <2> HIDE DEF w
  <2> QED
    BY <1>2 DEF Read, Write, w
<1>5. "blit" \in (Copy \cup Blit) \cap Stages
  BY DEF Blit, Stages
<1> HIDE DEF w, ds, uses, es
<1>6. AtLeast(r1, r)
  BY <1>3, OthersBarrier DEF Fine
<1>7. Fine(r1, "dst", {"nothing"}, Copy \cup Blit, {}, Stages)
  BY <1>6, LeastKeeps
<1>8. Wrote(r2, "dst", {"data"}, "blit")
  BY <1>4, <1>5, <1>7, PassWrites DEF Writes
<1>9. AtLeast(r3, r2)
  BY <1>3, <1>8, OthersBarrier DEF Wrote
<1>10. Wrote(r3, "dst", {"data"}, "blit")
  BY <1>8, <1>9, LeastKeeps
<1>11. Run(r, w, FillLevel(l)) = r3
  <2>1. Run(r, w, <<Barrier(ds), Pass(uses), Barrier(es)>>) = r3
    BY RunThree
  <2> QED
    BY <1>1, <2>1
<1> QED
  BY <1>10, <1>11 DEF w

LEMMA FillSource ==
  ASSUME NEW r, NEW l \in 2 .. Len(Level),
         Wrote(r, "dst", {"data"}, IF l = 2 THEN "copy" ELSE "blit")
  PROVE  Fine(Run(r, Level[l - 1], FillLevel(l)), "read", {"data"}, Fragment, {}, Stages)
<1> DEFINE w == Level[l - 1]
           filled == IF l = 2 THEN Copy ELSE Blit
           ds == {Transition(w, "dst", "src", filled, Blit, TRUE)}
           uses == {Read("blit", w, "src", {"data"}), Write("blit", Level[l], "dst", "data")}
           es == {Transition(w, "src", "read", Blit, Fragment, FALSE)}
           r1 == After(r, w, Barrier(ds))
           r2 == After(r1, w, Pass(uses))
           r3 == After(r2, w, Barrier(es))
<1>1. FillLevel(l) = <<Barrier(ds), Pass(uses), Barrier(es)>>
  BY DEF FillLevel
<1>2. Level[l] # w
  <2>1. l - 1 \in 1 .. Len(Level) /\ l \in 1 .. Len(Level) /\ l - 1 # l
    BY LevelsAre
  <2> QED
    BY <2>1, LevelsAre
<1>3. /\ Moves(ds, w, "dst", "src", filled, Blit, TRUE)
      /\ Moves(es, w, "src", "read", Blit, Fragment, FALSE)
  <2> HIDE DEF w, filled
  <2> QED
    BY DEF Transition, Moves
<1>4. \A a \in uses : a.of = w =>
        ~a.writes /\ a.layout = "src" /\ {"data"} \subseteq a.contents /\ a.stage = "blit"
  <2> HIDE DEF w
  <2> QED
    BY <1>2 DEF Read, Write
<1>5. (IF l = 2 THEN "copy" ELSE "blit") \in filled
  BY DEF Copy, Blit
<1>6. Blit = {"blit"} /\ "blit" \in Blit \cap Blit
  BY DEF Blit
<1> HIDE DEF w, ds, uses, es, filled
<1>7. Fine(r1, "src", {"data"}, Blit, {}, Stages)
  BY <1>3, <1>5, MovesWritten
<1>8. Fine(r2, "src", {"data"}, Blit, Blit, {})
  <2>1. Fine(r1, "src", {"data"}, Blit, Blit, {})
    BY <1>7 DEF Fine
  <2>2. OnlyReads(Pass(uses), w, "src", {"data"}, Blit)
    BY <1>4, <1>6, PassOnlyReads
  <2>3. Blit \subseteq Blit \cap Blit
    OBVIOUS
  <2> HIDE DEF r1
  <2> QED
    BY <2>1, <2>2, <2>3, ReadFine
<1>9. Fine(r3, "read", {"data"}, Fragment, {}, Stages)
  <2>1. Blit \subseteq Blit /\ Blit \cap Blit # {}
    BY <1>6
  <2> HIDE DEF r2
  <2> QED
    BY <1>3, <1>8, <2>1, MovesFine
<1>10. Run(r, w, FillLevel(l)) = r3
  <2>1. Run(r, w, <<Barrier(ds), Pass(uses), Barrier(es)>>) = r3
    BY RunThree
  <2> QED
    BY <1>1, <2>1
<1> QED
  BY <1>9, <1>10 DEF w

LEMMA FillsAreLists ==
  ASSUME NEW f, Fills(f)
  PROVE  \A n \in 0 .. Len(Level) - 1 : IsList(f[n])
<1> DEFINE S == {n \in Nat : n <= Len(Level) - 1 => IsList(f[n])}
<1>1. 0 \in S
  BY RunNothing DEF Fills
<1>2. ASSUME NEW n \in Nat, n \in S PROVE n + 1 \in S
  <2> SUFFICES ASSUME n + 1 <= Len(Level) - 1 PROVE IsList(f[n + 1])
    OBVIOUS
  <2>1. n + 1 \in 1 .. Len(Level) - 1 /\ (n + 1) - 1 = n /\ n <= Len(Level) - 1
    BY LevelsAre
  <2>2. f[n + 1] = f[n] \o FillLevel((n + 1) + 1)
    BY <2>1 DEF Fills
  <2> QED
    BY <1>2, <2>1, <2>2, FillIsList, ListsJoin
<1> HIDE DEF S
<1>3. \A n \in Nat : n \in S
  BY <1>1, <1>2, Induct
<1> QED
  BY <1>3, LevelsAre DEF S

LEMMA FillsQuiet ==
  ASSUME NEW f, Fills(f), NEW w, w \notin Range(Level)
  PROVE  \A n \in 0 .. Len(Level) - 1 : Quiet(f[n], w)
<1> DEFINE S == {n \in Nat : n <= Len(Level) - 1 => Quiet(f[n], w)}
<1>1. 0 \in S
  BY ReadsNone DEF Fills, Quiet
<1>2. ASSUME NEW n \in Nat, n \in S PROVE n + 1 \in S
  <2> SUFFICES ASSUME n + 1 <= Len(Level) - 1 PROVE Quiet(f[n + 1], w)
    OBVIOUS
  <2>1. /\ n + 1 \in 1 .. Len(Level) - 1 /\ (n + 1) - 1 = n /\ n <= Len(Level) - 1
        /\ (n + 1) + 1 \in 1 .. Len(Level) /\ ((n + 1) + 1) - 1 \in 1 .. Len(Level)
    BY LevelsAre
  <2>2. f[n + 1] = f[n] \o FillLevel((n + 1) + 1)
    BY <2>1 DEF Fills
  <2>3. Quiet(FillLevel((n + 1) + 1), w)
    <3>1. w \notin {Level[((n + 1) + 1) - 1], Level[(n + 1) + 1]}
      BY <2>1, LevelsAre
    <3> QED
      BY <3>1, FillOthers
  <2> QED
    BY <1>2, <2>1, <2>2, <2>3, ReadsJoin DEF Quiet
<1> HIDE DEF S
<1>3. \A n \in Nat : n \in S
  BY <1>1, <1>2, Induct
<1> QED
  BY <1>3, LevelsAre DEF S

\* Level j, when the first n below the largest are filled.
Filled(r, j, n) ==
  CASE j > n + 1 -> Fine(r, "dst", {"nothing"}, Copy \cup Blit, {}, Stages)
    [] j = n + 1 -> Wrote(r, "dst", {"data"}, IF j = 1 THEN "copy" ELSE "blit")
    [] OTHER     -> Fine(r, "read", {"data"}, Fragment, {}, Stages)

LEMMA FillsFill ==
  ASSUME NEW f, Fills(f), NEW j \in 1 .. Len(Level), NEW r, Filled(r, j, 0)
  PROVE  \A n \in 0 .. Len(Level) - 1 : Filled(Run(r, Level[j], f[n]), j, n)
<1> DEFINE w == Level[j]
           S == {n \in Nat : n <= Len(Level) - 1 => Filled(Run(r, w, f[n]), j, n)}
<1>1. 0 \in S
  BY RunNothing DEF Fills
<1>2. ASSUME NEW n \in Nat, n \in S PROVE n + 1 \in S
  <2> SUFFICES ASSUME n + 1 <= Len(Level) - 1 PROVE Filled(Run(r, w, f[n + 1]), j, n + 1)
    OBVIOUS
  <2> DEFINE l == n + 2
             q == Run(r, w, f[n])
             p == Run(q, w, FillLevel(l))
  <2>1. /\ n + 1 \in 1 .. Len(Level) - 1 /\ (n + 1) - 1 = n /\ n <= Len(Level) - 1
        /\ (n + 1) + 1 = l /\ l \in 2 .. Len(Level) /\ l \in 1 .. Len(Level)
        /\ l - 1 = n + 1 /\ l - 1 \in 1 .. Len(Level)
    BY LevelsAre
  <2>2. f[n + 1] = f[n] \o FillLevel(l)
    BY <2>1 DEF Fills
  <2>3. n \in 0 .. Len(Level) - 1
    BY <2>1
  <2>4. IsList(f[n])
    BY <2>3, FillsAreLists
  <2>5. Run(r, w, f[n + 1]) = p
    BY <2>2, <2>4, FillIsList, RunJoins
  <2>6. Filled(q, j, n)
    BY <1>2, <2>1
  <2>7. j # l /\ j # l - 1 => w \notin {Level[l - 1], Level[l]}
    BY <2>1, LevelsAre
  <2> HIDE DEF w, q
  <2>8. CASE j = l
    <3>1. Fine(q, "dst", {"nothing"}, Copy \cup Blit, {}, Stages)
      BY <2>1, <2>6, <2>8 DEF Filled
    <3>2. Wrote(p, "dst", {"data"}, "blit")
      BY <2>1, <2>8, <3>1, FillTarget DEF w
    <3>3. j = (n + 1) + 1 /\ j # 1
      BY <2>1, <2>8
    <3> QED
      BY <2>5, <3>2, <3>3 DEF Filled
  <2>9. CASE j = l - 1
    <3>1. Wrote(q, "dst", {"data"}, IF l = 2 THEN "copy" ELSE "blit")
      BY <2>1, <2>6, <2>9 DEF Filled
    <3>2. Fine(p, "read", {"data"}, Fragment, {}, Stages)
      BY <2>1, <2>9, <3>1, FillSource DEF w
    <3>3. j # (n + 1) + 1 /\ ~(j > (n + 1) + 1)
      BY <2>1, <2>9
    <3> QED
      BY <2>5, <3>2, <3>3 DEF Filled
  <2>10. CASE j # l /\ j # l - 1
    <3>1. Quiet(FillLevel(l), w)
      BY <2>7, <2>10, FillOthers
    <3>2. IsState(q)
      BY <2>6 DEF Filled, Fine, Wrote
    <3>3. AtLeast(p, q)
      BY <3>1, <3>2, QuietKeeps
    <3>4. CASE j > l
      <4>1. Fine(q, "dst", {"nothing"}, Copy \cup Blit, {}, Stages)
        BY <2>1, <2>6, <3>4 DEF Filled
      <4>2. Fine(p, "dst", {"nothing"}, Copy \cup Blit, {}, Stages)
        BY <3>3, <4>1, LeastKeeps
      <4> QED
        BY <2>1, <2>5, <3>4, <4>2 DEF Filled
    <3>5. CASE j < l - 1
      <4>1. Fine(q, "read", {"data"}, Fragment, {}, Stages)
        BY <2>1, <2>6, <3>5 DEF Filled
      <4>2. Fine(p, "read", {"data"}, Fragment, {}, Stages)
        BY <3>3, <4>1, LeastKeeps
      <4> QED
        BY <2>1, <2>5, <3>5, <4>2 DEF Filled
    <3> QED
      BY <2>1, <2>10, <3>4, <3>5
  <2> QED
    BY <2>8, <2>9, <2>10
<1> HIDE DEF S
<1>3. \A n \in Nat : n \in S
  BY <1>1, <1>2, Induct
<1> QED
  BY <1>3, LevelsAre DEF S

\* What comes before the levels below the largest, and after them.
UploadStarts ==
  <<Barrier({Transition(l, "undefined", "dst", {}, Copy \cup Blit, FALSE) : l \in Range(Level)}),
    Pass({Write("copy", Level[1], "dst", "data")})>>

UploadEnds ==
  <<Barrier({Transition(Level[Len(Level)], "dst", "read", IF Len(Level) = 1 THEN Copy ELSE Blit,
                        Fragment, TRUE)})>>

LEMMA UploadIs ==
  \E f : Fills(f) /\ TextureUpload = UploadStarts \o f[Len(Level) - 1] \o UploadEnds
BY FillsAre, LevelsAre DEF TextureUpload, UploadStarts, UploadEnds

LEMMA UploadQuiet ==
  ASSUME NEW b, NEW w, w \notin Range(Level)
  PROVE  Quiet(Only(b, TextureUpload), w)
<1>1. PICK f : Fills(f) /\ TextureUpload = UploadStarts \o f[Len(Level) - 1] \o UploadEnds
  BY UploadIs
<1> DEFINE n == Len(Level) - 1
           ds == {Transition(l, "undefined", "dst", {}, Copy \cup Blit, FALSE) : l \in Range(Level)}
           uses == {Write("copy", Level[1], "dst", "data")}
           es == {Transition(Level[Len(Level)], "dst", "read",
                             IF Len(Level) = 1 THEN Copy ELSE Blit,
                             Fragment, TRUE)}
<1>2. n \in 0 .. Len(Level) - 1 /\ 1 \in 1 .. Len(Level) /\ Len(Level) \in 1 .. Len(Level)
  BY LevelsAre
<1>3. Level[1] # w /\ Level[Len(Level)] # w
  BY <1>2, LevelsAre
<1>4. /\ (\A d \in ds : d.of # w /\ d.dst \subseteq Stages)
      /\ (\A d \in es : d.of # w /\ d.dst \subseteq Stages)
  BY <1>3, StagesAre DEF Transition
<1>5. \A a \in uses : a.of # w
  BY <1>3 DEF Write
<1>6. UploadStarts = <<Barrier(ds), Pass(uses)>> /\ UploadEnds = <<Barrier(es)>>
  BY DEF UploadStarts, UploadEnds
<1> HIDE DEF ds, uses, es
<1>7. Quiet(UploadStarts, w) /\ Quiet(UploadEnds, w)
  BY <1>4, <1>5, <1>6, BarrierReads, PassOnlyReads, ReadsOne, ReadsTwo DEF Quiet
<1>8. Quiet(f[n], w)
  BY <1>1, <1>2, FillsQuiet
<1>9. Quiet(UploadStarts \o f[n] \o UploadEnds, w)
  <2>1. Quiet(UploadStarts \o f[n], w)
    BY <1>7, <1>8, ReadsJoin DEF Quiet
  <2> QED
    BY <1>7, <2>1, ReadsJoin DEF Quiet
<1> QED
  BY <1>1, <1>9, ReadsOnly DEF Quiet

\* Every level ends up with the texture's data, for the passes to sample.
LEMMA UploadLands ==
  ASSUME NEW r, NEW w \in Range(Level), Movable(r, {})
  PROVE  Fine(Run(r, w, TextureUpload), "read", {"data"}, Fragment, {}, Stages)
<1>1. PICK f : Fills(f) /\ TextureUpload = UploadStarts \o f[Len(Level) - 1] \o UploadEnds
  BY UploadIs
<1>2. PICK j \in 1 .. Len(Level) : w = Level[j]
  BY LevelsAre
<1> DEFINE n == Len(Level) - 1
           last == IF Len(Level) = 1 THEN Copy ELSE Blit
           ds == {Transition(l, "undefined", "dst", {}, Copy \cup Blit, FALSE) : l \in Range(Level)}
           uses == {Write("copy", Level[1], "dst", "data")}
           es == {Transition(Level[Len(Level)], "dst", "read", last, Fragment, TRUE)}
           r1 == After(r, w, Barrier(ds))
           r2 == After(r1, w, Pass(uses))
           r3 == Run(r2, w, f[n])
           r4 == After(r3, w, Barrier(es))
<1>3. /\ n \in 0 .. Len(Level) - 1 /\ n \in Nat
      /\ 1 \in 1 .. Len(Level) /\ Len(Level) \in 1 .. Len(Level)
  BY LevelsAre
<1>4. UploadStarts = <<Barrier(ds), Pass(uses)>> /\ UploadEnds = <<Barrier(es)>>
  BY DEF UploadStarts, UploadEnds
<1>5. Moves(ds, w, "undefined", "dst", {}, Copy \cup Blit, FALSE)
  BY DEF Transition, Moves
<1>6. Fine(r1, "dst", {"nothing"}, Copy \cup Blit, {}, Stages)
  <2> HIDE DEF ds
  <2> QED
    BY <1>5, MovesFromAny
<1>7. Filled(r2, j, 0)
  <2>1. CASE j = 1
    <3>1. /\ \E a \in uses : a.of = w /\ a.writes
          /\ \A a \in uses :
               a.layout = "dst" /\ a.stage = "copy" /\ a.writes /\ a.contents = {"data"}
      BY <1>2, <2>1 DEF Write
    <3>2. "copy" \in (Copy \cup Blit) \cap Stages
      BY DEF Copy, Stages
    <3> HIDE DEF uses, r1
    <3>3. Wrote(r2, "dst", {"data"}, "copy")
      BY <1>6, <3>1, <3>2, PassWrites DEF Writes
    <3> HIDE DEF r2
    <3> QED
      BY <2>1, <3>3 DEF Filled
  <2>2. CASE j # 1
    <3>1. Level[1] # w
      BY <1>2, <1>3, <2>2, LevelsAre
    <3>2. \A a \in uses : a.of # w
      BY <3>1 DEF Write
    <3> HIDE DEF uses, r1
    <3>3. r2 = r1
      BY <3>2, OthersPass
    <3> HIDE DEF r2
    <3> QED
      BY <1>6, <2>2, <3>3 DEF Filled
  <2> QED
    BY <2>1, <2>2
<1>8. Filled(r3, j, n)
  <2> HIDE DEF r2
  <2> QED
    BY <1>1, <1>2, <1>3, <1>7, FillsFill
<1>9. Fine(r4, "read", {"data"}, Fragment, {}, Stages)
  <2>1. CASE j = Len(Level)
    <3>1. Moves(es, w, "dst", "read", last, Fragment, TRUE)
      BY <1>2, <2>1 DEF Transition, Moves
    <3>2. Wrote(r3, "dst", {"data"}, IF j = 1 THEN "copy" ELSE "blit")
      <4> HIDE DEF r3
      <4> QED
        BY <1>3, <1>8, <2>1 DEF Filled
    <3>3. (IF j = 1 THEN "copy" ELSE "blit") \in last
      BY <2>1 DEF Copy, Blit
    <3> HIDE DEF r3, es, last
    <3> QED
      BY <3>1, <3>2, <3>3, MovesWritten
  <2>2. CASE j # Len(Level)
    <3>1. Level[Len(Level)] # w
      BY <1>2, <1>3, <2>2, LevelsAre
    <3>2. \A d \in es : d.of # w /\ d.dst \subseteq Stages
      BY <3>1, NoneIs, StagesAre
    <3>3. Fine(r3, "read", {"data"}, Fragment, {}, Stages)
      <4>1. ~(j > n + 1) /\ j # n + 1
        BY <1>3, <2>2
      <4> HIDE DEF r3, n
      <4> QED
        BY <1>8, <4>1 DEF Filled
    <3> HIDE DEF r3, es
    <3>4. AtLeast(r4, r3)
      BY <3>2, <3>3, OthersBarrier DEF Fine
    <3> QED
      BY <3>3, <3>4, LeastKeeps
  <2> QED
    BY <2>1, <2>2
<1>10. Run(r, w, TextureUpload) = r4
  <2>1. IsList(UploadStarts) /\ IsList(UploadEnds) /\ IsList(f[n])
    BY <1>1, <1>3, <1>4, ListOne, ListTwo, FillsAreLists
  <2>2. IsList(UploadStarts \o f[n])
    BY <2>1, ListsJoin
  <2> HIDE DEF ds, uses, es, n
  <2>3. Run(r, w, UploadStarts \o f[n] \o UploadEnds)
          = Run(Run(Run(r, w, UploadStarts), w, f[n]), w, UploadEnds)
    BY <2>1, <2>2, RunJoins
  <2>4. Run(r, w, UploadStarts) = r2
    <3>1. Run(r, w, <<Barrier(ds), Pass(uses)>>) = r2
      BY RunTwo
    <3> QED
      BY <1>4, <3>1
  <2>5. Run(r3, w, UploadEnds) = r4
    BY <1>4, RunOne
  <2> QED
    BY <1>1, <2>3, <2>4, <2>5 DEF n
<1> QED
  BY <1>9, <1>10

-----------------------------------------------------------------------------
(* The whole frame *)

LEMMA OnlyList == \A b, C : IsList(C) => IsList(Only(b, C))
BY RunNothing DEF Only

LEMMA UploadList == IsList(TextureUpload)
<1>1. PICK f : Fills(f) /\ TextureUpload = UploadStarts \o f[Len(Level) - 1] \o UploadEnds
  BY UploadIs
<1>2. Len(Level) - 1 \in 0 .. Len(Level) - 1
  BY LevelsAre
<1>3. IsList(f[Len(Level) - 1])
  BY <1>1, <1>2, FillsAreLists
<1>4. IsList(UploadStarts) /\ IsList(UploadEnds)
  BY ListOne, ListTwo DEF UploadStarts, UploadEnds
<1>5. IsList(UploadStarts \o f[Len(Level) - 1])
  BY <1>3, <1>4, ListsJoin
<1> QED
  BY <1>1, <1>4, <1>5, ListsJoin

LEMMA SkyLists ==
  \A f : IsList(RebuildLuts(f)) /\ IsList(SkyAmbient(f)) /\ IsList(SkyView(f)) /\ IsList(Sky(f))
<1> SUFFICES ASSUME NEW f
             PROVE  /\ IsList(RebuildLuts(f)) /\ IsList(SkyAmbient(f)) /\ IsList(SkyView(f))
                    /\ IsList(Sky(f))
  OBVIOUS
<1>1. IsList(RebuildLuts(f))
  <2>1. \A a, b, c, d, e : IsList(<<a, b, c, d, e>>)
    <3> SUFFICES ASSUME NEW a, NEW b, NEW c, NEW d, NEW e PROVE IsList(<<a, b, c, d, e>>)
      OBVIOUS
    <3>1. IsList(<<a, b, c, d>>) /\ IsList(<<e>>)
      BY ListOne, ListFour
    <3>2. IsList(<<a, b, c, d>> \o <<e>>)
      BY <3>1, ListsJoin
    <3>3. <<a, b, c, d, e>> = <<a, b, c, d>> \o <<e>>
      BY FiveAre
    <3> QED
      BY <3>2, <3>3
  <2> QED
    BY <2>1, OnlyList DEF RebuildLuts
<1>2. IsList(SkyAmbient(f))
  BY ListTwo DEF SkyAmbient
<1>3. IsList(SkyView(f))
  BY ListThree, OnlyList DEF SkyView
<1>4. IsList(RebuildLuts(f) \o SkyAmbient(f))
  BY <1>1, <1>2, ListsJoin
<1>5. IsList(RebuildLuts(f) \o SkyAmbient(f) \o SkyView(f))
  BY <1>3, <1>4, ListsJoin
<1>6. IsList(Sky(f))
  BY <1>5, OnlyList DEF Sky
<1> QED
  BY <1>1, <1>2, <1>3, <1>6

LEMMA OverlayLists ==
  \A f : IsList(UiUpload(f)) /\ IsList(OverlayDraw(f)) /\ IsList(Overlay(f))
<1> SUFFICES ASSUME NEW f
             PROVE  IsList(UiUpload(f)) /\ IsList(OverlayDraw(f)) /\ IsList(Overlay(f))
  OBVIOUS
<1>1. IsList(UiUpload(f))
  BY ListThree, OnlyList DEF UiUpload
<1>2. IsList(OverlayDraw(f))
  BY ListTwo DEF OverlayDraw
<1> QED
  BY <1>1, <1>2, OverlayIs, ListsJoin

LEMMA PartsAreLists ==
  ASSUME NEW f
  PROVE  /\ IsList(Only(f.lands, TextureUpload)) /\ IsList(Entry(f)) /\ IsList(Shadows(f))
         /\ IsList(GBuffer(f))
         /\ IsList(Readable(f)) /\ IsList(Sky(f)) /\ IsList(Clusters) /\ IsList(Lighting(f))
         /\ IsList(Atmosphere(f)) /\ IsList(Taa(f)) /\ IsList(Exposure(f)) /\ IsList(DebugViews(f))
         /\ IsList(Handoff(f)) /\ IsList(Tonemap(f)) /\ IsList(DebugDraw(f)) /\ IsList(Overlay(f))
         /\ IsList(Captured(f)) /\ IsList(Present(f))
<1>1. IsList(Only(f.lands, TextureUpload))
  BY UploadList, OnlyList
<1>2. IsList(Entry(f))
  BY ListOne DEF Entry
<1>3. IsList(Shadows(f))
  BY ListOne, OnlyList DEF Shadows
<1>4. IsList(GBuffer(f))
  BY ListOne DEF GBuffer
<1>5. IsList(Readable(f))
  BY ListOne DEF Readable
<1>6. IsList(Sky(f))
  BY SkyLists
<1>7. IsList(Clusters)
  BY ListTwo DEF Clusters
<1>8. IsList(Lighting(f))
  BY ListOne DEF Lighting
<1>9. IsList(Atmosphere(f))
  BY ListTwo, OnlyList DEF Atmosphere
<1>10. IsList(Taa(f))
  BY ListTwo, OnlyList DEF Taa
<1>11. IsList(Exposure(f))
  BY ListFour DEF Exposure
<1>12. IsList(DebugViews(f))
  BY ListTwo, OnlyList DEF DebugViews
<1>13. IsList(Handoff(f))
  BY ListOne DEF Handoff
<1>14. IsList(Tonemap(f))
  BY ListOne DEF Tonemap
<1>15. IsList(DebugDraw(f))
  BY ListTwo, OnlyList DEF DebugDraw
<1>16. IsList(Overlay(f))
  BY OverlayLists
<1>17. IsList(Captured(f))
  BY ListFour, OnlyList DEF Captured
<1>18. IsList(Present(f))
  BY ListOne DEF Present
<1> QED
  BY <1>1, <1>2, <1>3, <1>4, <1>5, <1>6, <1>7, <1>8, <1>9,
     <1>10, <1>11, <1>12, <1>13, <1>14, <1>15, <1>16, <1>17, <1>18

\* The resource after each part of the frame.
Trace(t, r, w, f) ==
  /\ t[1] = Run(r, w, Only(f.lands, TextureUpload))
  /\ t[2] = Run(t[1], w, Entry(f))
  /\ t[3] = Run(t[2], w, Shadows(f))
  /\ t[4] = Run(t[3], w, GBuffer(f))
  /\ t[5] = Run(t[4], w, Readable(f))
  /\ t[6] = Run(t[5], w, Sky(f))
  /\ t[7] = Run(t[6], w, Clusters)
  /\ t[8] = Run(t[7], w, Lighting(f))
  /\ t[9] = Run(t[8], w, Atmosphere(f))
  /\ t[10] = Run(t[9], w, Taa(f))
  /\ t[11] = Run(t[10], w, Exposure(f))
  /\ t[12] = Run(t[11], w, DebugViews(f))
  /\ t[13] = Run(t[12], w, Handoff(f))
  /\ t[14] = Run(t[13], w, Tonemap(f))
  /\ t[15] = Run(t[14], w, DebugDraw(f))
  /\ t[16] = Run(t[15], w, Overlay(f))
  /\ t[17] = Run(t[16], w, Captured(f))
  /\ t[18] = Run(t[17], w, Present(f))

LEMMA RecordRuns ==
  ASSUME NEW r, NEW w, NEW f
  PROVE  \E t : Trace(t, r, w, f) /\ t[18] = Run(r, w, Record(f))
<1> DEFINE C1 == Only(f.lands, TextureUpload)
           C2 == C1 \o Entry(f)
           C3 == C2 \o Shadows(f)
           C4 == C3 \o GBuffer(f)
           C5 == C4 \o Readable(f)
           C6 == C5 \o Sky(f)
           C7 == C6 \o Clusters
           C8 == C7 \o Lighting(f)
           C9 == C8 \o Atmosphere(f)
           C10 == C9 \o Taa(f)
           C11 == C10 \o Exposure(f)
           C12 == C11 \o DebugViews(f)
           C13 == C12 \o Handoff(f)
           C14 == C13 \o Tonemap(f)
           C15 == C14 \o DebugDraw(f)
           C16 == C15 \o Overlay(f)
           C17 == C16 \o Captured(f)
           C18 == C17 \o Present(f)
           r1 == Run(r, w, Only(f.lands, TextureUpload))
           r2 == Run(r1, w, Entry(f))
           r3 == Run(r2, w, Shadows(f))
           r4 == Run(r3, w, GBuffer(f))
           r5 == Run(r4, w, Readable(f))
           r6 == Run(r5, w, Sky(f))
           r7 == Run(r6, w, Clusters)
           r8 == Run(r7, w, Lighting(f))
           r9 == Run(r8, w, Atmosphere(f))
           r10 == Run(r9, w, Taa(f))
           r11 == Run(r10, w, Exposure(f))
           r12 == Run(r11, w, DebugViews(f))
           r13 == Run(r12, w, Handoff(f))
           r14 == Run(r13, w, Tonemap(f))
           r15 == Run(r14, w, DebugDraw(f))
           r16 == Run(r15, w, Overlay(f))
           r17 == Run(r16, w, Captured(f))
           r18 == Run(r17, w, Present(f))
           t == <<r1, r2, r3, r4, r5, r6, r7, r8, r9,
                  r10, r11, r12, r13, r14, r15, r16, r17, r18>>
<1>0. C18 = Record(f)
  BY DEF Record
<1>1. IsList(C1) /\ Run(r, w, C1) = r1
  BY PartsAreLists
<1>2. IsList(C2) /\ Run(r, w, C2) = r2
  <2>1. IsList(Entry(f))
    BY PartsAreLists
  <2> HIDE DEF C1, r1
  <2> QED
    BY <1>1, <2>1, ListsJoin, RunJoins
<1>3. IsList(C3) /\ Run(r, w, C3) = r3
  <2>1. IsList(Shadows(f))
    BY PartsAreLists
  <2> HIDE DEF C2, r2
  <2> QED
    BY <1>2, <2>1, ListsJoin, RunJoins
<1>4. IsList(C4) /\ Run(r, w, C4) = r4
  <2>1. IsList(GBuffer(f))
    BY PartsAreLists
  <2> HIDE DEF C3, r3
  <2> QED
    BY <1>3, <2>1, ListsJoin, RunJoins
<1>5. IsList(C5) /\ Run(r, w, C5) = r5
  <2>1. IsList(Readable(f))
    BY PartsAreLists
  <2> HIDE DEF C4, r4
  <2> QED
    BY <1>4, <2>1, ListsJoin, RunJoins
<1>6. IsList(C6) /\ Run(r, w, C6) = r6
  <2>1. IsList(Sky(f))
    BY PartsAreLists
  <2> HIDE DEF C5, r5
  <2> QED
    BY <1>5, <2>1, ListsJoin, RunJoins
<1>7. IsList(C7) /\ Run(r, w, C7) = r7
  <2>1. IsList(Clusters)
    BY PartsAreLists
  <2> HIDE DEF C6, r6
  <2> QED
    BY <1>6, <2>1, ListsJoin, RunJoins
<1>8. IsList(C8) /\ Run(r, w, C8) = r8
  <2>1. IsList(Lighting(f))
    BY PartsAreLists
  <2> HIDE DEF C7, r7
  <2> QED
    BY <1>7, <2>1, ListsJoin, RunJoins
<1>9. IsList(C9) /\ Run(r, w, C9) = r9
  <2>1. IsList(Atmosphere(f))
    BY PartsAreLists
  <2> HIDE DEF C8, r8
  <2> QED
    BY <1>8, <2>1, ListsJoin, RunJoins
<1>10. IsList(C10) /\ Run(r, w, C10) = r10
  <2>1. IsList(Taa(f))
    BY PartsAreLists
  <2> HIDE DEF C9, r9
  <2> QED
    BY <1>9, <2>1, ListsJoin, RunJoins
<1>11. IsList(C11) /\ Run(r, w, C11) = r11
  <2>1. IsList(Exposure(f))
    BY PartsAreLists
  <2> HIDE DEF C10, r10
  <2> QED
    BY <1>10, <2>1, ListsJoin, RunJoins
<1>12. IsList(C12) /\ Run(r, w, C12) = r12
  <2>1. IsList(DebugViews(f))
    BY PartsAreLists
  <2> HIDE DEF C11, r11
  <2> QED
    BY <1>11, <2>1, ListsJoin, RunJoins
<1>13. IsList(C13) /\ Run(r, w, C13) = r13
  <2>1. IsList(Handoff(f))
    BY PartsAreLists
  <2> HIDE DEF C12, r12
  <2> QED
    BY <1>12, <2>1, ListsJoin, RunJoins
<1>14. IsList(C14) /\ Run(r, w, C14) = r14
  <2>1. IsList(Tonemap(f))
    BY PartsAreLists
  <2> HIDE DEF C13, r13
  <2> QED
    BY <1>13, <2>1, ListsJoin, RunJoins
<1>15. IsList(C15) /\ Run(r, w, C15) = r15
  <2>1. IsList(DebugDraw(f))
    BY PartsAreLists
  <2> HIDE DEF C14, r14
  <2> QED
    BY <1>14, <2>1, ListsJoin, RunJoins
<1>16. IsList(C16) /\ Run(r, w, C16) = r16
  <2>1. IsList(Overlay(f))
    BY PartsAreLists
  <2> HIDE DEF C15, r15
  <2> QED
    BY <1>15, <2>1, ListsJoin, RunJoins
<1>17. IsList(C17) /\ Run(r, w, C17) = r17
  <2>1. IsList(Captured(f))
    BY PartsAreLists
  <2> HIDE DEF C16, r16
  <2> QED
    BY <1>16, <2>1, ListsJoin, RunJoins
<1>18. IsList(C18) /\ Run(r, w, C18) = r18
  <2>1. IsList(Present(f))
    BY PartsAreLists
  <2> HIDE DEF C17, r17
  <2> QED
    BY <1>17, <2>1, ListsJoin, RunJoins
<1>19. /\ t[1] = r1 /\ t[2] = r2 /\ t[3] = r3 /\ t[4] = r4 /\ t[5] = r5 /\ t[6] = r6
       /\ t[7] = r7 /\ t[8] = r8 /\ t[9] = r9 /\ t[10] = r10 /\ t[11] = r11 /\ t[12] = r12
       /\ t[13] = r13 /\ t[14] = r14 /\ t[15] = r15 /\ t[16] = r16 /\ t[17] = r17 /\ t[18] = r18
  <2> HIDE DEF r1, r2, r3, r4, r5, r6, r7, r8, r9, r10, r11, r12, r13, r14, r15, r16, r17, r18
  <2> QED
    OBVIOUS
<1>20. Trace(t, r, w, f)
  <2> HIDE DEF t
  <2> QED
    BY <1>19 DEF Trace
<1>21. t[18] = Run(r, w, Record(f))
  <2> HIDE DEF t, r18, C18
  <2> QED
    BY <1>0, <1>18, <1>19
<1> HIDE DEF t
<1> QED
  BY <1>20, <1>21

-----------------------------------------------------------------------------
(* What the parts of the frame do *)

LEMMA FineStays ==
  ASSUME NEW r, NEW w, NEW C, Quiet(C, w), NEW layout, NEW holds, NEW seen, NEW busy, NEW free,
         Fine(r, layout, holds, seen, busy, free)
  PROVE  Fine(Run(r, w, C), layout, holds, seen, busy, free)
<1>1. AtLeast(Run(r, w, C), r)
  BY QuietKeeps DEF Fine
<1> QED
  BY <1>1, LeastKeeps

LEMMA WroteStays ==
  ASSUME NEW r, NEW w, NEW C, Quiet(C, w), NEW layout, NEW holds, NEW stage,
         Wrote(r, layout, holds, stage)
  PROVE  Wrote(Run(r, w, C), layout, holds, stage)
<1>1. AtLeast(Run(r, w, C), r)
  BY QuietKeeps DEF Wrote
<1> QED
  BY <1>1, LeastKeeps

LEMMA MovableStays ==
  ASSUME NEW r, NEW w, NEW C, Quiet(C, w), NEW src, Movable(r, src)
  PROVE  Movable(Run(r, w, C), src)
<1>1. AtLeast(Run(r, w, C), r)
  BY QuietKeeps DEF Movable
<1> QED
  BY <1>1, LeastKeeps

LEMMA EntryMoves ==
  ASSUME NEW f, NEW r, NEW w
  PROVE  /\ w = "gbuffer" /\ Movable(r, Compute)
              => Fine(Run(r, w, Entry(f)), "colour", {"nothing"}, Colour, {}, Stages)
         /\ w = "hdr" /\ Movable(r, Fragment)
              => Fine(Run(r, w, Entry(f)), "colour", {"nothing"}, Colour, {}, Stages)
         /\ w = "depth" /\ Movable(r, Compute \cup Depth)
              => Fine(Run(r, w, Entry(f)), "depth", {"nothing"}, Depth, {}, Stages)
         /\ w = "shadow" /\ f.shadows /\ Movable(r, Compute)
              => Fine(Run(r, w, Entry(f)), "depth", {"nothing"}, Depth, {}, Stages)
<1> DEFINE ds == {Transition("gbuffer", "undefined", "colour", Compute, Colour, FALSE),
                  Transition("hdr", "undefined", "colour", Fragment, Colour, FALSE),
                  Transition("depth", "undefined", "depth", Compute \cup Depth, Depth, FALSE)}
                 \cup (IF f.shadows
                       THEN {Transition("shadow", "undefined", "depth", Compute, Depth, FALSE)}
                       ELSE {})
<1>1. Entry(f) = <<Barrier(ds)>>
  BY DEF Entry
<1>2. /\ Moves(ds, "gbuffer", "undefined", "colour", Compute, Colour, FALSE)
      /\ Moves(ds, "hdr", "undefined", "colour", Fragment, Colour, FALSE)
      /\ Moves(ds, "depth", "undefined", "depth", Compute \cup Depth, Depth, FALSE)
      /\ f.shadows => Moves(ds, "shadow", "undefined", "depth", Compute, Depth, FALSE)
  BY DEF Transition, Moves
<1> HIDE DEF ds
<1>3. Run(r, w, Entry(f)) = After(r, w, Barrier(ds))
  BY <1>1, RunOne
<1> QED
  BY <1>2, <1>3, MovesFromAny

LEMMA ShadowsWrites ==
  ASSUME NEW f, f.shadows, NEW r, Fine(r, "depth", {"nothing"}, Depth, {}, Stages)
  PROVE  Wrote(Run(r, "shadow", Shadows(f)), "depth", {"now"}, "depth")
<1> DEFINE uses == {Write("depth", "shadow", "depth", "now")}
<1>1. Run(r, "shadow", Shadows(f)) = After(r, "shadow", Pass(uses))
  BY RunOne DEF Shadows, Only
<1>2. Writes(uses, "shadow", "depth", {"nothing"}, "depth", "now")
  BY DEF Write, Writes
<1>3. "depth" \in Depth \cap Stages
  BY DEF Depth, Stages
<1> HIDE DEF uses
<1> QED
  BY <1>1, <1>2, <1>3, PassWrites

LEMMA GBufferWrites ==
  ASSUME NEW f, NEW r, NEW w
  PROVE  /\ w \in {"gbuffer", "hdr"} /\ w \notin Range(Level)
              /\ Fine(r, "colour", {"nothing"}, Colour, {}, Stages)
              => Wrote(Run(r, w, GBuffer(f)), "colour", {"now"}, "colour")
         /\ w = "depth" /\ w \notin Range(Level) /\ Fine(r, "depth", {"nothing"}, Depth, {}, Stages)
              => Wrote(Run(r, w, GBuffer(f)), "depth", {"now"}, "depth")
<1> DEFINE own == {Write("colour", "gbuffer", "colour", "now"),
                   Write("colour", "hdr", "colour", "now"),
                   Write("depth", "depth", "depth", "now")}
           levels == {Read("fragment", l, "read", {"data"}) :
                        l \in IF f.landed THEN Range(Level) ELSE {}}
           uses == own \cup levels
<1>1. Run(r, w, GBuffer(f)) = After(r, w, Pass(uses))
  BY RunOne DEF GBuffer
<1>2. \A a \in levels : a.of \in Range(Level)
  BY DEF Read
<1>3. /\ w \in {"gbuffer", "hdr"}
           => /\ \E a \in own : a.of = w /\ a.writes
              /\ \A a \in own : a.of = w => /\ a.layout = "colour" /\ a.stage = "colour" /\ a.writes
                                            /\ a.contents = {"now"}
      /\ w = "depth"
           => /\ \E a \in own : a.of = w /\ a.writes
              /\ \A a \in own : a.of = w => /\ a.layout = "depth" /\ a.stage = "depth" /\ a.writes
                                            /\ a.contents = {"now"}
  BY DEF Write
<1>4. \A a : a \in uses <=> a \in own \/ a \in levels
  OBVIOUS
<1>5. "depth" \in Depth \cap Stages /\ "colour" \in Colour \cap Stages
  BY DEF Depth, Colour, Stages
<1> HIDE DEF own, levels, uses
<1>6. ASSUME w \in {"gbuffer", "hdr"}, w \notin Range(Level),
             Fine(r, "colour", {"nothing"}, Colour, {}, Stages)
      PROVE  Wrote(After(r, w, Pass(uses)), "colour", {"now"}, "colour")
  <2>1. Writes(uses, w, "colour", {"nothing"}, "colour", "now")
    BY <1>2, <1>3, <1>4, <1>6 DEF Writes
  <2> QED
    BY <1>5, <1>6, <2>1, PassWrites
<1>7. ASSUME w = "depth", w \notin Range(Level), Fine(r, "depth", {"nothing"}, Depth, {}, Stages)
      PROVE  Wrote(After(r, w, Pass(uses)), "depth", {"now"}, "depth")
  <2>1. Writes(uses, w, "depth", {"nothing"}, "depth", "now")
    BY <1>2, <1>3, <1>4, <1>7 DEF Writes
  <2> QED
    BY <1>5, <1>7, <2>1, PassWrites
<1> QED
  BY <1>1, <1>6, <1>7

LEMMA ReadableMoves ==
  ASSUME NEW f, NEW r, NEW w
  PROVE  /\ w = "gbuffer" /\ Wrote(r, "colour", {"now"}, "colour")
              => Fine(Run(r, w, Readable(f)), "read", {"now"}, Compute, {}, Stages)
         /\ w = "hdr" /\ Wrote(r, "colour", {"now"}, "colour")
              => Fine(Run(r, w, Readable(f)), "general", {"now"}, Compute, {}, Stages)
         /\ w = "depth" /\ Wrote(r, "depth", {"now"}, "depth")
              => Fine(Run(r, w, Readable(f)), "read", {"now"}, Compute \cup Depth, {}, Stages)
         /\ w = "shadow" /\ f.shadows /\ Wrote(r, "depth", {"now"}, "depth")
              => Fine(Run(r, w, Readable(f)), "read", {"now"}, Compute, {}, Stages)
         /\ \A holds : w = "clusters" /\ Fine(r, "buffer", holds, Compute, Compute, {})
              => Fine(Run(r, w, Readable(f)), "buffer", holds, Compute, Compute, Compute)
<1> DEFINE ds == {Transition("gbuffer", "colour", "read", Colour, Compute, TRUE),
                  Transition("hdr", "colour", "general", Colour, Compute, TRUE),
                  Transition("depth", "depth", "read", Depth, Compute \cup Depth, TRUE),
                  ComputeToCompute(FALSE)}
                 \cup (IF f.shadows
                       THEN {Transition("shadow", "depth", "read", Depth, Compute, TRUE)}
                       ELSE {})
<1>1. Readable(f) = <<Barrier(ds)>>
  BY DEF Readable
<1>2. /\ Moves(ds, "gbuffer", "colour", "read", Colour, Compute, TRUE)
      /\ Moves(ds, "hdr", "colour", "general", Colour, Compute, TRUE)
      /\ Moves(ds, "depth", "depth", "read", Depth, Compute \cup Depth, TRUE)
      /\ f.shadows => Moves(ds, "shadow", "depth", "read", Depth, Compute, TRUE)
  BY DEF Transition, ComputeToCompute, Memory, Moves
<1>3. \A e \in ds : e.of # "clusters" /\ e.dst \subseteq Stages
  BY DEF Transition, ComputeToCompute, Memory, Compute, Depth, Stages
<1>4. Memory(Compute, Compute, FALSE) \in ds
  BY DEF ComputeToCompute
<1>5. "colour" \in Colour /\ "depth" \in Depth
  BY DEF Colour, Depth
<1> HIDE DEF ds
<1>6. Run(r, w, Readable(f)) = After(r, w, Barrier(ds))
  BY <1>1, RunOne
<1>7. \A holds : w = "clusters" /\ Fine(r, "buffer", holds, Compute, Compute, {})
        => Fine(After(r, w, Barrier(ds)), "buffer", holds, Compute, Compute, Compute)
  <2>1. SUFFICES ASSUME NEW holds, w = "clusters", Fine(r, "buffer", holds, Compute, Compute, {})
                 PROVE  Fine(After(r, w, Barrier(ds)), "buffer", holds, Compute, Compute, Compute)
    OBVIOUS
  <2> QED
    BY <1>3, <1>4, <2>1, StagesAre, MemoryFrees
<1>8. /\ w = "gbuffer" /\ Wrote(r, "colour", {"now"}, "colour")
           => Fine(After(r, w, Barrier(ds)), "read", {"now"}, Compute, {}, Stages)
      /\ w = "hdr" /\ Wrote(r, "colour", {"now"}, "colour")
           => Fine(After(r, w, Barrier(ds)), "general", {"now"}, Compute, {}, Stages)
  BY <1>2, <1>5, MovesWritten
<1>9. /\ w = "depth" /\ Wrote(r, "depth", {"now"}, "depth")
           => Fine(After(r, w, Barrier(ds)), "read", {"now"}, Compute \cup Depth, {}, Stages)
      /\ w = "shadow" /\ f.shadows /\ Wrote(r, "depth", {"now"}, "depth")
           => Fine(After(r, w, Barrier(ds)), "read", {"now"}, Compute, {}, Stages)
  BY <1>2, <1>5, MovesWritten
<1> QED
  BY <1>6, <1>7, <1>8, <1>9

-----------------------------------------------------------------------------
(* The frame, on each resource *)

IsFrame(f) == f.write \in 0 .. 1 /\ (f.inside => f.air # NoAir)

LEMMA NamesDiffer == \A w \in Singles : w \notin Range(Level) /\ w # "memory"
BY NamesAssumption DEF Singles, Screen, Buffers, Ui

LEMMA HistoryNames ==
  ASSUME NEW f, IsFrame(f)
  PROVE  /\ History[f.write] \in {"history_0", "history_1"}
         /\ History[1 - f.write] \in {"history_0", "history_1"}
BY HistoryAre DEF IsFrame

LEMMA PartsQuiet ==
  ASSUME NEW f, IsFrame(f), NEW w, w # "memory"
  PROVE  /\ w \notin Range(Level) => Quiet(Only(f.lands, TextureUpload), w)
         /\ w \notin {"gbuffer", "hdr", "depth", "shadow"} => Quiet(Entry(f), w)
         /\ w # "shadow" => Quiet(Shadows(f), w)
         /\ w \notin {"gbuffer", "hdr", "depth"} \cup Range(Level) => Quiet(GBuffer(f), w)
         /\ w \notin {"gbuffer", "hdr", "depth", "shadow"} => Quiet(Readable(f), w)
         /\ w \notin {"transmittance", "multiscatter", "ambient", "sky_view"}
              => Quiet(Sky(f), w)
         /\ w # "clusters" => Quiet(Clusters, w)
         /\ w \notin {"gbuffer", "depth", "shadow", "clusters", "hdr", "ambient", "transmittance",
                       "multiscatter"}
              => Quiet(Lighting(f), w)
         /\ w \notin {"hdr", "depth", "sky_view", "transmittance", "multiscatter"}
              => Quiet(Atmosphere(f), w)
         /\ w \notin {"history_0", "history_1", "hdr", "gbuffer", "depth", "exposure"}
              => Quiet(Taa(f), w)
         /\ w \notin {"exposure", "hdr", "history_0", "history_1", "histogram"}
              => Quiet(Exposure(f), w)
         /\ w \notin {"debug", "gbuffer", "depth", "shadow", "clusters"}
              => Quiet(DebugViews(f), w)
         /\ w \notin {"hdr", "target", "exposure", "history_0", "history_1", "debug"}
              => Quiet(Handoff(f), w)
         /\ w \notin {"hdr", "history_0", "history_1", "exposure", "target"}
              => Quiet(Tonemap(f), w)
         /\ w \notin {"target", "depth"} => Quiet(DebugDraw(f), w)
         /\ w \notin {Ui, "target", "debug"} => Quiet(Overlay(f), w)
         /\ w \notin {"target", "capture"} => Quiet(Captured(f), w)
         /\ w # "target" => Quiet(Present(f), w)
<1>1. ASSUME w \notin Range(Level) PROVE Quiet(Only(f.lands, TextureUpload), w)
  BY <1>1, UploadQuiet
<1>2. ASSUME w \notin {"gbuffer", "hdr", "depth", "shadow"} PROVE Quiet(Entry(f), w)
  BY <1>2, EntryQuiet
<1>3. ASSUME w # "shadow" PROVE Quiet(Shadows(f), w)
  BY <1>3, ShadowsQuiet
<1>4. ASSUME w \notin {"gbuffer", "hdr", "depth"} \cup Range(Level) PROVE Quiet(GBuffer(f), w)
  BY <1>4, GBufferReadsLevels
<1>5. ASSUME w \notin {"gbuffer", "hdr", "depth", "shadow"} PROVE Quiet(Readable(f), w)
  BY <1>5, ReadableQuiet
<1>6. ASSUME w \notin {"transmittance", "multiscatter", "ambient", "sky_view"}
      PROVE  Quiet(Sky(f), w)
  BY <1>6, SkyQuiet DEF LutTable
<1>7. ASSUME w # "clusters" PROVE Quiet(Clusters, w)
  BY <1>7, ClustersQuiet
<1>8. ASSUME w \notin {"gbuffer", "depth", "shadow", "clusters", "hdr", "ambient", "transmittance",
              "multiscatter"}
      PROVE  Quiet(Lighting(f), w)
  BY <1>8, LightingReads DEF LutTable
<1>9. ASSUME w \notin {"hdr", "depth", "sky_view", "transmittance", "multiscatter"}
      PROVE  Quiet(Atmosphere(f), w)
  BY <1>9, AtmosphereReads DEF LutTable
<1>10. ASSUME w \notin {"history_0", "history_1", "hdr", "gbuffer", "depth", "exposure"}
      PROVE  Quiet(Taa(f), w)
  BY <1>10, HistoryNames, TaaReads DEF IsFrame
<1>11. ASSUME w \notin {"exposure", "hdr", "history_0", "history_1", "histogram"}
      PROVE  Quiet(Exposure(f), w)
  BY <1>11, HistoryNames, ExposureReads DEF Lit
<1>12. ASSUME w \notin {"debug", "gbuffer", "depth", "shadow", "clusters"}
      PROVE  Quiet(DebugViews(f), w)
  BY <1>12, DebugViewsReads
<1>13. ASSUME w \notin {"hdr", "target", "exposure", "history_0", "history_1", "debug"}
      PROVE  Quiet(Handoff(f), w)
  BY <1>13, HistoryNames, HandoffQuiet
<1>14. ASSUME w \notin {"hdr", "history_0", "history_1", "exposure", "target"}
      PROVE  Quiet(Tonemap(f), w)
  BY <1>14, HistoryNames, TonemapReads DEF Lit
<1>15. ASSUME w \notin {"target", "depth"} PROVE Quiet(DebugDraw(f), w)
  BY <1>15, DebugDrawReads
<1>16. ASSUME w \notin {Ui, "target", "debug"} PROVE Quiet(Overlay(f), w)
  <2>1. Quiet(UiUpload(f), w) /\ Quiet(OverlayDraw(f), w)
    BY <1>16, UiUploadQuiet, OverlayDrawReads
  <2> QED
    BY <2>1, OverlayIs, ReadsJoin DEF Quiet
<1>17. ASSUME w \notin {"target", "capture"} PROVE Quiet(Captured(f), w)
  BY <1>17, CapturedQuiet
<1>18. ASSUME w # "target" PROVE Quiet(Present(f), w)
  BY <1>18, PresentQuiet
<1> QED
  BY <1>1, <1>2, <1>3, <1>4, <1>5, <1>6, <1>7, <1>8, <1>9,
     <1>10, <1>11, <1>12, <1>13, <1>14, <1>15, <1>16, <1>17, <1>18

LEMMA GBufferFrame ==
  ASSUME NEW f, IsFrame(f), NEW r, Movable(r, Compute)
  PROVE  Movable(Run(r, "gbuffer", Record(f)), Compute)
<1> DEFINE w == "gbuffer"
<1>1. PICK t : Trace(t, r, w, f) /\ t[18] = Run(r, w, Record(f))
  BY RecordRuns
<1>2. w \notin Range(Level) /\ w # "memory"
  BY NamesDiffer DEF Singles, Screen
<1>3. /\ Quiet(Only(f.lands, TextureUpload), w) /\ Quiet(Shadows(f), w) /\ Quiet(Sky(f), w)
      /\ Quiet(Clusters, w) /\ Quiet(Atmosphere(f), w) /\ Quiet(Exposure(f), w)
      /\ Quiet(Handoff(f), w) /\ Quiet(Tonemap(f), w) /\ Quiet(DebugDraw(f), w)
      /\ Quiet(Overlay(f), w) /\ Quiet(Captured(f), w) /\ Quiet(Present(f), w)
  BY <1>2, PartsQuiet DEF Ui
<1>4. /\ Reads(Lighting(f), w, "read", ThisFrame, Compute)
      /\ Reads(Taa(f), w, "read", ThisFrame, Compute)
      /\ Reads(DebugViews(f), w, "read", ThisFrame, Compute)
  <2>1. w # History[f.write] /\ w # History[1 - f.write]
    BY HistoryNames
  <2> QED
    BY <2>1, LightingReads, TaaReads, DebugViewsReads DEF IsFrame
<1> HIDE DEF w
<1>5. Movable(t[1], Compute)
  BY <1>1, <1>3, MovableStays DEF Trace
<1>6. Fine(t[3], "colour", {"nothing"}, Colour, {}, Stages)
  <2>1. Fine(t[2], "colour", {"nothing"}, Colour, {}, Stages)
    BY <1>1, <1>5, EntryMoves DEF Trace, w
  <2> QED
    BY <1>1, <1>3, <2>1, FineStays DEF Trace
<1>7. Wrote(t[4], "colour", {"now"}, "colour")
  BY <1>1, <1>2, <1>6, GBufferWrites DEF Trace, w
<1>8. Fine(t[5], "read", {"now"}, Compute, {}, Stages)
  BY <1>1, <1>7, ReadableMoves DEF Trace, w
<1>9. Fine(t[7], "read", ThisFrame, Compute, Compute, {})
  <2>1. Fine(t[5], "read", ThisFrame, Compute, Compute, {})
    BY <1>8 DEF Fine, ThisFrame
  <2> QED
    BY <1>1, <1>3, <2>1, FineStays DEF Trace
<1>10. Compute \subseteq Compute \cap Compute
  OBVIOUS
<1>11. Fine(t[12], "read", ThisFrame, Compute, Compute, {})
  <2>1. Fine(t[9], "read", ThisFrame, Compute, Compute, {})
    BY <1>1, <1>3, <1>4, <1>9, <1>10, ReadsKeep, FineStays DEF Trace
  <2>2. Fine(t[11], "read", ThisFrame, Compute, Compute, {})
    BY <1>1, <1>3, <1>4, <2>1, <1>10, ReadsKeep, FineStays DEF Trace
  <2> QED
    BY <1>1, <1>4, <2>2, <1>10, ReadsKeep DEF Trace
<1>12. Fine(t[18], "read", ThisFrame, Compute, Compute, {})
  <2>1. Fine(t[15], "read", ThisFrame, Compute, Compute, {})
    BY <1>1, <1>3, <1>11, FineStays DEF Trace
  <2> QED
    BY <1>1, <1>3, <2>1, FineStays DEF Trace
<1>13. Compute \cap Compute # {}
  BY DEF Compute
<1> QED
  BY <1>1, <1>12, <1>13, FineMoves DEF w

LEMMA DepthFrame ==
  ASSUME NEW f, IsFrame(f), NEW r, Movable(r, Compute \cup Depth)
  PROVE  Movable(Run(r, "depth", Record(f)), Compute \cup Depth)
<1> DEFINE w == "depth"
<1>1. PICK t : Trace(t, r, w, f) /\ t[18] = Run(r, w, Record(f))
  BY RecordRuns
<1>2. w \notin Range(Level) /\ w # "memory"
  BY NamesDiffer DEF Singles, Screen, Buffers
<1>3. /\ Quiet(Only(f.lands, TextureUpload), w) /\ Quiet(Shadows(f), w) /\ Quiet(Sky(f), w)
      /\ Quiet(Clusters, w) /\ Quiet(Exposure(f), w) /\ Quiet(Handoff(f), w)
      /\ Quiet(Tonemap(f), w) /\ Quiet(Overlay(f), w) /\ Quiet(Captured(f), w)
      /\ Quiet(Present(f), w)
  BY <1>2, PartsQuiet DEF Ui
<1> DEFINE both == Compute \cup Depth
           holds == ThisFrame
<1>4. /\ Reads(Lighting(f), w, "read", holds, Compute)
      /\ Reads(Atmosphere(f), w, "read", holds, Compute)
      /\ Reads(Taa(f), w, "read", holds, Compute)
      /\ Reads(DebugViews(f), w, "read", holds, Compute)
      /\ Reads(DebugDraw(f), w, "read", holds, Depth)
  <2>1. w # History[f.write] /\ w # History[1 - f.write]
    BY HistoryNames
  <2> QED
    BY <2>1, LightingReads, AtmosphereReads, TaaReads, DebugViewsReads, DebugDrawReads DEF IsFrame
<1> HIDE DEF w
<1>5. Movable(t[1], both)
  BY <1>1, <1>3, MovableStays DEF Trace
<1>6. Fine(t[3], "depth", {"nothing"}, Depth, {}, Stages)
  <2>1. Fine(t[2], "depth", {"nothing"}, Depth, {}, Stages)
    BY <1>1, <1>5, EntryMoves DEF Trace, w
  <2> QED
    BY <1>1, <1>3, <2>1, FineStays DEF Trace
<1>7. Wrote(t[4], "depth", {"now"}, "depth")
  BY <1>1, <1>2, <1>6, GBufferWrites DEF Trace, w
<1>8. Fine(t[5], "read", {"now"}, both, {}, Stages)
  BY <1>1, <1>7, ReadableMoves DEF Trace, w
<1>9. Fine(t[7], "read", holds, both, both, {})
  <2>1. Fine(t[5], "read", holds, both, both, {})
    BY <1>8 DEF Fine, ThisFrame
  <2> HIDE DEF holds, both
  <2> QED
    BY <1>1, <1>3, <2>1, FineStays DEF Trace
<1>10. Compute \subseteq both \cap both /\ Depth \subseteq both \cap both
  OBVIOUS
<1> HIDE DEF holds, both
<1>11. Fine(t[10], "read", holds, both, both, {})
  <2>1. Fine(t[8], "read", holds, both, both, {})
    BY <1>1, <1>4, <1>9, <1>10, ReadsKeep DEF Trace
  <2>2. Fine(t[9], "read", holds, both, both, {})
    BY <1>1, <1>4, <2>1, <1>10, ReadsKeep DEF Trace
  <2> QED
    BY <1>1, <1>4, <2>2, <1>10, ReadsKeep DEF Trace
<1>12. Fine(t[14], "read", holds, both, both, {})
  <2>1. Fine(t[11], "read", holds, both, both, {})
    BY <1>1, <1>3, <1>11, FineStays DEF Trace
  <2>2. Fine(t[12], "read", holds, both, both, {})
    BY <1>1, <1>4, <2>1, <1>10, ReadsKeep DEF Trace
  <2> QED
    BY <1>1, <1>3, <2>2, FineStays DEF Trace
<1>13. Fine(t[18], "read", holds, both, both, {})
  <2>1. Fine(t[15], "read", holds, both, both, {})
    BY <1>1, <1>4, <1>12, <1>10, ReadsKeep DEF Trace
  <2> QED
    BY <1>1, <1>3, <2>1, FineStays DEF Trace
<1>14. both \cap both # {}
  BY DEF both, Compute
<1>15. Movable(t[18], both)
  BY <1>13, <1>14, FineMoves
<1> QED
  BY <1>1, <1>15 DEF w, both

LEMMA ShadowFrame ==
  ASSUME NEW f, IsFrame(f), NEW r, Movable(r, Compute)
  PROVE  Movable(Run(r, "shadow", Record(f)), Compute)
<1> DEFINE w == "shadow"
<1>1. PICK t : Trace(t, r, w, f) /\ t[18] = Run(r, w, Record(f))
  BY RecordRuns
<1>2. w \notin Range(Level) /\ w # "memory"
  BY NamesDiffer DEF Singles, Screen, Buffers
<1>3. /\ Quiet(Only(f.lands, TextureUpload), w) /\ Quiet(GBuffer(f), w) /\ Quiet(Sky(f), w)
      /\ Quiet(Clusters, w) /\ Quiet(Atmosphere(f), w) /\ Quiet(Taa(f), w)
      /\ Quiet(Exposure(f), w) /\ Quiet(Handoff(f), w) /\ Quiet(Tonemap(f), w)
      /\ Quiet(DebugDraw(f), w) /\ Quiet(Overlay(f), w) /\ Quiet(Captured(f), w)
      /\ Quiet(Present(f), w)
  BY <1>2, PartsQuiet DEF Ui
<1>4. CASE ~f.shadows
  <2>1. /\ Quiet(Entry(f), w) /\ Quiet(Shadows(f), w) /\ Quiet(Readable(f), w)
        /\ Quiet(Lighting(f), w) /\ Quiet(DebugViews(f), w)
    BY <1>2, <1>4, EntryQuiet, ShadowsQuiet, ReadableQuiet, LightingReads, DebugViewsReads
    DEF LutTable
  <2> HIDE DEF w
  <2>2. Movable(t[6], Compute)
    BY <1>1, <1>3, <2>1, MovableStays DEF Trace
  <2>3. Movable(t[12], Compute)
    BY <1>1, <1>3, <2>1, <2>2, MovableStays DEF Trace
  <2> QED
    BY <1>1, <1>3, <2>3, MovableStays DEF Trace, w
<1>5. CASE f.shadows
  <2>1. /\ Reads(Lighting(f), w, "read", ThisFrame, Compute)
        /\ Reads(DebugViews(f), w, "read", ThisFrame, Compute)
    BY LightingReads, DebugViewsReads
  <2> HIDE DEF w
  <2>2. Movable(t[1], Compute)
    BY <1>1, <1>3, MovableStays DEF Trace
  <2>3. Fine(t[2], "depth", {"nothing"}, Depth, {}, Stages)
    BY <1>1, <1>5, <2>2, EntryMoves DEF Trace, w
  <2>4. Wrote(t[3], "depth", {"now"}, "depth")
    BY <1>1, <1>5, <2>3, ShadowsWrites DEF Trace, w
  <2>5. Wrote(t[4], "depth", {"now"}, "depth")
    BY <1>1, <1>3, <2>4, WroteStays DEF Trace
  <2>6. Fine(t[5], "read", {"now"}, Compute, {}, Stages)
    BY <1>1, <1>5, <2>5, ReadableMoves DEF Trace, w
  <2>7. Fine(t[5], "read", ThisFrame, Compute, Compute, {})
    BY <2>6 DEF Fine, ThisFrame
  <2>8. Compute \subseteq Compute \cap Compute
    OBVIOUS
  <2>9. Fine(t[7], "read", ThisFrame, Compute, Compute, {})
    BY <1>1, <1>3, <2>7, FineStays DEF Trace
  <2>10. Fine(t[8], "read", ThisFrame, Compute, Compute, {})
    BY <1>1, <2>1, <2>8, <2>9, ReadsKeep DEF Trace
  <2>11. Fine(t[11], "read", ThisFrame, Compute, Compute, {})
    BY <1>1, <1>3, <2>10, FineStays DEF Trace
  <2>12. Fine(t[12], "read", ThisFrame, Compute, Compute, {})
    BY <1>1, <2>1, <2>8, <2>11, ReadsKeep DEF Trace
  <2>13. Fine(t[18], "read", ThisFrame, Compute, Compute, {})
    BY <1>1, <1>3, <2>12, FineStays DEF Trace
  <2>14. Compute \cap Compute # {}
    BY DEF Compute
  <2> QED
    BY <1>1, <2>13, <2>14, FineMoves DEF w
<1> QED
  BY <1>4, <1>5

\* Memory barriers alone.
LEMMA ComputeFlushes ==
  ASSUME NEW r, NEW w, w # "memory", NEW layout, NEW holds, Wrote(r, layout, holds, "compute")
  PROVE  Fine(After(r, w, Barrier({ComputeToCompute(TRUE)})), layout, holds, Compute, {}, Stages)
<1> DEFINE ds == {ComputeToCompute(TRUE)}
<1>1. \A e \in ds : e.of # w /\ e.dst \subseteq Stages
  BY StagesAre DEF ComputeToCompute, Memory, Transition
<1>2. Memory(Compute, Compute, TRUE) \in ds
  BY DEF ComputeToCompute
<1>3. "compute" \in Compute
  BY DEF Compute
<1> HIDE DEF ds
<1>4. Fine(After(r, w, Barrier(ds)), layout, holds, Compute, {}, Stages)
  BY <1>1, <1>2, <1>3, MemoryFlushes
<1> QED
  BY <1>4 DEF ds

LEMMA ComputeFrees ==
  ASSUME NEW r, NEW w, w # "memory", NEW layout, NEW holds, NEW flush,
         Fine(r, layout, holds, Compute, Compute, {})
  PROVE  Fine(After(r, w, Barrier({ComputeToCompute(flush)})),
              layout, holds, Compute, Compute, Compute)
<1> DEFINE ds == {ComputeToCompute(flush)}
<1>1. \A e \in ds : e.of # w /\ e.dst \subseteq Stages
  BY StagesAre DEF ComputeToCompute, Memory, Transition
<1>2. Memory(Compute, Compute, flush) \in ds
  BY DEF ComputeToCompute
<1> HIDE DEF ds
<1>3. Fine(After(r, w, Barrier(ds)), layout, holds, Compute, Compute, Compute)
  BY <1>1, <1>2, StagesAre, MemoryFrees
<1> QED
  BY <1>3 DEF ds

\* One transition alone.
LEMMA MovesAlone ==
  ASSUME NEW w, NEW from, NEW to, NEW src, NEW dst, NEW flush
  PROVE  Moves({Transition(w, from, to, src, dst, flush)}, w, from, to, src, dst, flush)
BY DEF Transition, Moves

LEMMA UpdateWrites ==
  ASSUME NEW stage, NEW w, NEW layout, NEW contents, NEW held, NEW others,
         \A a \in others : a.of # w, NEW holds, holds \subseteq contents
  PROVE  Writes(Update(stage, w, layout, contents, held) \cup others, w, layout, holds, stage, held)
<1>1. \A a \in Update(stage, w, layout, contents, held) :
        /\ a.of = w /\ a.layout = layout /\ a.stage = stage
        /\ IF a.writes THEN a.contents = {held} ELSE a.contents = contents
  BY UpdateIs
<1>2. \E a \in Update(stage, w, layout, contents, held) : a.of = w /\ a.writes
  BY DEF Update, Write
<1> QED
  BY <1>1, <1>2 DEF Writes

LEMMA WriteWrites ==
  ASSUME NEW stage, NEW w, NEW layout, NEW held, NEW others,
         \A a \in others : a.of # w, NEW holds
  PROVE  Writes({Write(stage, w, layout, held)} \cup others, w, layout, holds, stage, held)
<1> DEFINE a0 == Write(stage, w, layout, held)
<1>1. a0.of = w /\ a0.writes /\ a0.layout = layout /\ a0.stage = stage /\ a0.contents = {held}
  BY DEF Write
<1> HIDE DEF a0
<1>2. Writes({a0} \cup others, w, layout, holds, stage, held)
  BY <1>1 DEF Writes
<1> QED
  BY <1>2 DEF a0

LEMMA InStages == "compute" \in Compute \cap Stages /\ "colour" \in Colour \cap Stages
                  /\ "copy" \in Copy \cap Stages
BY DEF Compute, Colour, Copy, Stages

LEMMA SkyRuns ==
  ASSUME NEW f, f.air # NoAir, NEW r, NEW w
  PROVE  Run(r, w, Sky(f)) = Run(Run(Run(r, w, RebuildLuts(f)), w, SkyAmbient(f)), w, SkyView(f))
<1>1. Sky(f) = RebuildLuts(f) \o SkyAmbient(f) \o SkyView(f)
  BY DEF Sky, Only
<1>2. IsList(RebuildLuts(f)) /\ IsList(SkyAmbient(f)) /\ IsList(SkyView(f))
  BY SkyLists
<1>3. IsList(RebuildLuts(f) \o SkyAmbient(f))
  BY <1>2, ListsJoin
<1> QED
  BY <1>1, <1>2, <1>3, RunJoins

LEMMA SkyViewMade ==
  ASSUME NEW f, f.air # NoAir, f.inside, NEW r, Movable(r, Compute)
  PROVE  Fine(Run(r, "sky_view", Sky(f)), "read", {"now"}, Compute, {}, Stages)
<1> DEFINE w == "sky_view"
           ds == {Transition(w, "undefined", "general", Compute, Compute, FALSE)}
           uses == {Write("compute", w, "general", "now")} \cup LutReads(f)
           es == {Transition(w, "general", "read", Compute, Compute, TRUE)}
           q == Run(Run(r, w, RebuildLuts(f)), w, SkyAmbient(f))
           r1 == After(q, w, Barrier(ds))
           r2 == After(r1, w, Pass(uses))
<1>1. Run(q, w, SkyView(f)) = After(r2, w, Barrier(es))
  BY RunThree DEF SkyView, Only
<1>2. Quiet(RebuildLuts(f), w) /\ Quiet(SkyAmbient(f), w)
  <2>1. w \notin LutTable /\ w \notin {"ambient", "memory"}
    BY DEF LutTable
  <2> HIDE DEF w
  <2> QED
    BY <2>1, RebuildQuiet, SkyAmbientReads
<1>3. Moves(ds, w, "undefined", "general", Compute, Compute, FALSE)
  BY MovesAlone
<1>4. Moves(es, w, "general", "read", Compute, Compute, TRUE)
  BY MovesAlone
<1>5. Writes(uses, w, "general", {"nothing"}, "compute", "now")
  <2>1. \A a \in LutReads(f) : a.of # w
    BY LutReadsAre DEF LutTable
  <2> QED
    BY <2>1, WriteWrites
<1> HIDE DEF w, ds, uses, es
<1>6. Movable(q, Compute)
  BY <1>2, MovableStays
<1> HIDE DEF q
<1>7. Fine(r1, "general", {"nothing"}, Compute, {}, Stages)
  BY <1>3, <1>6, MovesFromAny
<1> HIDE DEF r1
<1>8. Wrote(r2, "general", {"now"}, "compute")
  BY <1>5, <1>7, InStages, PassWrites
<1> HIDE DEF r2
<1>9. Fine(After(r2, w, Barrier(es)), "read", {"now"}, Compute, {}, Stages)
  BY <1>4, <1>8, InStages, MovesWritten
<1> QED
  BY <1>1, <1>9, SkyRuns DEF q, w

LEMMA AmbientMade ==
  ASSUME NEW f, f.air # NoAir, NEW r, NEW holds, Fine(r, "buffer", holds, Compute, Compute, {})
  PROVE  Wrote(Run(r, "ambient", Sky(f)), "buffer", {"now"}, "compute")
<1> DEFINE w == "ambient"
           ds == {ComputeToCompute(FALSE)}
           uses == {Write("compute", w, "buffer", "now")} \cup LutReads(f)
           q == Run(r, w, RebuildLuts(f))
           r1 == After(q, w, Barrier(ds))
           r2 == After(r1, w, Pass(uses))
<1>1. Run(q, w, SkyAmbient(f)) = r2
  BY RunTwo DEF SkyAmbient
<1>2. Quiet(RebuildLuts(f), w) /\ Quiet(SkyView(f), w) /\ w # "memory"
  <2>1. w \notin LutTable /\ w # "sky_view" /\ w # "memory"
    BY DEF LutTable
  <2> HIDE DEF w
  <2> QED
    BY <2>1, RebuildQuiet, SkyViewReads
<1>3. Writes(uses, w, "buffer", holds, "compute", "now")
  <2>1. \A a \in LutReads(f) : a.of # w
    BY LutReadsAre DEF LutTable
  <2> QED
    BY <2>1, WriteWrites
<1> HIDE DEF w, uses
<1>4. Fine(q, "buffer", holds, Compute, Compute, {})
  BY <1>2, FineStays DEF w
<1> HIDE DEF q
<1>5. Fine(r1, "buffer", holds, Compute, Compute, Compute)
  BY <1>2, <1>4, ComputeFrees
<1> HIDE DEF r1
<1>6. Wrote(r2, "buffer", {"now"}, "compute")
  BY <1>3, <1>5, InStages, PassWrites
<1> HIDE DEF r2
<1>7. Wrote(Run(r2, w, SkyView(f)), "buffer", {"now"}, "compute")
  BY <1>2, <1>6, WroteStays
<1> QED
  BY <1>1, <1>7, SkyRuns DEF q, w

LEMMA ClustersMade ==
  ASSUME NEW r, NEW holds, Fine(r, "buffer", holds, Compute, Compute, Compute)
  PROVE  Fine(Run(r, "clusters", Clusters), "buffer", {"now"}, Compute, {}, Stages)
<1> DEFINE w == "clusters"
           uses == {Write("compute", w, "buffer", "now")}
           r1 == After(r, w, Pass(uses))
<1>1. Run(r, w, Clusters) = After(r1, w, Barrier({ComputeToCompute(TRUE)}))
  BY RunTwo DEF Clusters
<1>2. Writes(uses, w, "buffer", holds, "compute", "now")
  BY WriteWrites DEF Write, Writes
<1>3. w # "memory"
  OBVIOUS
<1> HIDE DEF w, uses
<1>4. Wrote(r1, "buffer", {"now"}, "compute")
  BY <1>2, InStages, PassWrites DEF w
<1> HIDE DEF r1
<1>5. Fine(After(r1, w, Barrier({ComputeToCompute(TRUE)})), "buffer", {"now"}, Compute, {}, Stages)
  BY <1>3, <1>4, ComputeFlushes
<1> QED
  BY <1>1, <1>5 DEF w

LEMMA LightingWrites ==
  ASSUME NEW f, NEW r, Fine(r, "general", {"now"}, Compute, {}, Stages)
  PROVE  Wrote(Run(r, "hdr", Lighting(f)), "general", {"now"}, "compute")
<1> DEFINE w == "hdr"
           gs == GBufferReads \cup ShadowReads(f)
           clusters == {Read("compute", "clusters", "buffer", ThisFrame)}
           hdr == Update("compute", w, "general", ThisFrame, "now")
           air == IF f.air # NoAir
                  THEN LutReads(f) \cup {Read("compute", "ambient", "buffer", ThisFrame)} ELSE {}
           others == gs \cup clusters \cup air
<1>1. Lighting(f) = <<Pass(gs \cup clusters \cup hdr \cup air)>>
  BY DEF Lighting
<1>2. gs \cup clusters \cup hdr \cup air = hdr \cup others
  OBVIOUS
<1>3. \A a \in others : a.of # w
  <2>1. \A a \in gs : a.of # w
    BY GBufferReadsAre, ShadowReadsAre
  <2>2. \A a \in clusters : a.of # w
    BY DEF Read
  <2>3. \A a \in air : a.of # w
    BY LutReadsAre DEF Read, LutTable
  <2> QED
    BY <2>1, <2>2, <2>3
<1> HIDE DEF others, gs, clusters, air
<1>4. {"now"} \subseteq ThisFrame
  BY DEF ThisFrame
<1>5. Writes(hdr \cup others, w, "general", {"now"}, "compute", "now")
  BY <1>3, <1>4, UpdateWrites
<1> HIDE DEF hdr, w
<1>6. Run(r, w, Lighting(f)) = After(r, w, Pass(hdr \cup others))
  BY <1>1, <1>2, RunOne
<1>7. Wrote(After(r, w, Pass(hdr \cup others)), "general", {"now"}, "compute")
  BY <1>5, InStages, PassWrites
<1> QED
  BY <1>6, <1>7 DEF w

LEMMA AtmosphereWrites ==
  ASSUME NEW f, NEW r, Wrote(r, "general", {"now"}, "compute")
  PROVE  Wrote(Run(r, "hdr", Atmosphere(f)), "general", {"now"}, "compute")
<1> DEFINE w == "hdr"
           hdr == Update("compute", w, "general", ThisFrame, "now")
           depth == {Read("compute", "depth", "read", ThisFrame)}
           view == IF f.inside THEN {Read("compute", "sky_view", "read", ThisFrame)} ELSE {}
           others == LutReads(f) \cup depth \cup view
           uses == hdr \cup LutReads(f) \cup depth \cup view
           b == Barrier({ComputeToCompute(TRUE)})
<1>1. CASE f.air = NoAir
  BY <1>1, RunNothing DEF Atmosphere, Only
<1>2. CASE f.air # NoAir
  <2>1. Atmosphere(f) = <<b, Pass(uses)>>
    BY <1>2 DEF Atmosphere, Only
  <2>2. uses = hdr \cup others
    OBVIOUS
  <2>3. \A a \in others : a.of # w
    <3>1. \A a \in depth \cup view : a.of # w
      BY DEF Read
    <3>2. \A a \in LutReads(f) : a.of # w
      BY LutReadsAre DEF LutTable
    <3> QED
      BY <3>1, <3>2
  <2>4. {"now"} \subseteq ThisFrame /\ w # "memory"
    BY DEF ThisFrame
  <2> HIDE DEF others
  <2>5. Writes(hdr \cup others, w, "general", {"now"}, "compute", "now")
    BY <2>3, <2>4, UpdateWrites
  <2> HIDE DEF uses, hdr, w
  <2> DEFINE r1 == After(r, w, b)
  <2>6. Fine(r1, "general", {"now"}, Compute, {}, Stages)
    BY <2>4, ComputeFlushes
  <2> HIDE DEF b
  <2>7. Run(r, w, Atmosphere(f)) = After(r1, w, Pass(uses))
    BY <2>1, RunTwo
  <2> HIDE DEF r1
  <2>8. Wrote(After(r1, w, Pass(hdr \cup others)), "general", {"now"}, "compute")
    BY <2>5, <2>6, InStages, PassWrites
  <2> QED
    BY <2>2, <2>7, <2>8 DEF w
<1> QED
  BY <1>1, <1>2

\* A barrier that flushes the last write, and what only reads it then.
LEMMA FlushReads ==
  ASSUME NEW r, NEW w, w # "memory", NEW ds, \A e \in ds : e.of # w /\ e.dst \subseteq Stages,
         Memory(Compute, Compute, TRUE) \in ds, NEW layout, NEW holds,
         Wrote(r, layout, holds, "compute"), NEW C, NEW contents, holds \subseteq contents,
         Reads(C, w, layout, contents, Compute)
  PROVE  Fine(Run(After(r, w, Barrier(ds)), w, C), layout, contents, Compute, Compute, {})
<1> DEFINE q == After(r, w, Barrier(ds))
<1>1. Fine(q, layout, holds, Compute, {}, Stages)
  BY InStages, MemoryFlushes
<1> HIDE DEF q
<1>2. Fine(q, layout, contents, Compute, Compute, {})
  BY <1>1, LooserFine
<1>3. Compute \subseteq Compute \cap Compute
  OBVIOUS
<1>4. Fine(Run(q, w, C), layout, contents, Compute, Compute, {})
  BY <1>2, <1>3, ReadsKeep
<1> QED
  BY <1>4 DEF q

TaaBarrier(f) ==
  {Transition(History[f.write], "undefined", "general", Samplers, Compute, FALSE),
   ComputeToCompute(TRUE)}
  \cup (IF f.valid THEN {}
        ELSE {Transition(History[1 - f.write], "undefined", "read", Samplers, Compute, FALSE)})

TaaUses(f) ==
  {Read("compute", "hdr", "general", ThisFrame)} \cup GBufferReads
  \cup {Write("compute", History[f.write], "general", "now")}
  \cup (IF f.valid THEN {Read("compute", History[1 - f.write], "read", LastFrame)} ELSE {})
  \cup (IF f.exposed THEN {Read("compute", "exposure", "read", LastFrame)} ELSE {})

LEMMA TaaIs == \A f : f.taa => Taa(f) = <<Barrier(TaaBarrier(f)), Pass(TaaUses(f))>>
BY DEF Taa, Only, TaaBarrier, TaaUses

LEMMA TaaReadsLit ==
  ASSUME NEW f, IsFrame(f), f.taa, NEW r, Wrote(r, "general", {"now"}, "compute")
  PROVE  Fine(Run(r, "hdr", Taa(f)), "general", ThisFrame, Compute, Compute, {})
<1> DEFINE w == "hdr"
<1>1. w # History[f.write] /\ w # History[1 - f.write] /\ w # "memory"
  BY HistoryNames
<1>2. \A e \in TaaBarrier(f) : e.of # w /\ e.dst \subseteq Stages
  BY <1>1, StagesAre DEF TaaBarrier, ComputeToCompute, Memory, Transition
<1>3. Memory(Compute, Compute, TRUE) \in TaaBarrier(f)
  BY DEF TaaBarrier, ComputeToCompute
<1>4. Reads(<<Pass(TaaUses(f))>>, w, "general", ThisFrame, Compute)
  <2>1. \A a \in GBufferReads : a.of # w
    BY GBufferReadsAre
  <2>2. \A a \in TaaUses(f) : a.of = w =>
          /\ ~a.writes /\ a.layout = "general" /\ ThisFrame \subseteq a.contents
          /\ a.stage \in Compute
    BY <1>1, <2>1, InStages DEF TaaUses, Read, Write
  <2> HIDE DEF w
  <2> QED
    BY <2>2, PassOnlyReads, ReadsOne
<1>5. {"now"} \subseteq ThisFrame
  BY DEF ThisFrame
<1> DEFINE q == After(r, w, Barrier(TaaBarrier(f)))
<1>6. Run(r, w, Taa(f)) = Run(q, w, <<Pass(TaaUses(f))>>)
  BY TaaIs, RunOne, RunTwo
<1> HIDE DEF w
<1>7. Fine(Run(q, w, <<Pass(TaaUses(f))>>), "general", ThisFrame, Compute, Compute, {})
  BY <1>1, <1>2, <1>3, <1>4, <1>5, FlushReads
<1> QED
  BY <1>6, <1>7 DEF w

LEMMA HistoryMade ==
  ASSUME NEW f, IsFrame(f), f.taa, NEW r, Movable(r, Samplers)
  PROVE  Wrote(Run(r, History[f.write], Taa(f)), "general", {"now"}, "compute")
<1> DEFINE w == History[f.write]
<1>1. /\ w # History[1 - f.write] /\ w \notin {"hdr", "gbuffer", "depth", "exposure", "memory"}
  BY HistoryAre, HistoryNames DEF IsFrame
<1>2. Moves(TaaBarrier(f), w, "undefined", "general", Samplers, Compute, FALSE)
  BY <1>1 DEF Moves, TaaBarrier, ComputeToCompute, Memory, Transition
<1>3. Writes(TaaUses(f), w, "general", {"nothing"}, "compute", "now")
  <2> DEFINE others ==
               {Read("compute", "hdr", "general", ThisFrame)} \cup GBufferReads
               \cup (IF f.valid THEN {Read("compute", History[1 - f.write], "read", LastFrame)}
                     ELSE {})
               \cup (IF f.exposed THEN {Read("compute", "exposure", "read", LastFrame)} ELSE {})
  <2>1. \A a \in GBufferReads : a.of # w
    BY <1>1, GBufferReadsAre
  <2>2. \A a \in others : a.of # w
    BY <1>1, <2>1 DEF Read
  <2>3. TaaUses(f) = {Write("compute", w, "general", "now")} \cup others
    BY DEF TaaUses
  <2> HIDE DEF others, w
  <2> QED
    BY <2>2, <2>3, WriteWrites
<1> DEFINE r1 == After(r, w, Barrier(TaaBarrier(f)))
<1>4. Run(r, w, Taa(f)) = After(r1, w, Pass(TaaUses(f)))
  BY TaaIs, RunTwo
<1> HIDE DEF w
<1>5. Fine(r1, "general", {"nothing"}, Compute, {}, Stages)
  BY <1>2, MovesFromAny
<1> HIDE DEF r1
<1>6. Wrote(After(r1, w, Pass(TaaUses(f))), "general", {"now"}, "compute")
  BY <1>3, <1>5, InStages, PassWrites
<1> QED
  BY <1>4, <1>6 DEF w

\* The other history: read, or put in the layout it is to be read in.
LEMMA OtherHistory ==
  ASSUME NEW f, IsFrame(f), f.taa, ~f.valid, NEW r, Movable(r, Samplers)
  PROVE  Fine(Run(r, History[1 - f.write], Taa(f)), "read", {"nothing"}, Compute, {}, Stages)
<1> DEFINE w == History[1 - f.write]
<1>1. /\ w # History[f.write] /\ w \notin {"hdr", "gbuffer", "depth", "exposure", "memory"}
  BY HistoryAre, HistoryNames DEF IsFrame
<1>2. Moves(TaaBarrier(f), w, "undefined", "read", Samplers, Compute, FALSE)
  BY <1>1 DEF Moves, TaaBarrier, ComputeToCompute, Memory, Transition
<1>3. \A a \in TaaUses(f) : a.of # w
  <2>1. \A a \in GBufferReads : a.of # w
    BY <1>1, GBufferReadsAre
  <2> QED
    BY <1>1, <2>1 DEF TaaUses, Read, Write
<1> DEFINE r1 == After(r, w, Barrier(TaaBarrier(f)))
<1>4. Run(r, w, Taa(f)) = After(r1, w, Pass(TaaUses(f)))
  BY TaaIs, RunTwo
<1> HIDE DEF w
<1>5. Fine(r1, "read", {"nothing"}, Compute, {}, Stages)
  BY <1>2, MovesFromAny
<1>6. After(r1, w, Pass(TaaUses(f))) = r1
  BY <1>3, <1>5, OthersPass DEF Fine
<1> QED
  BY <1>4, <1>5, <1>6 DEF w

\* The four commands of Exposure.
Meters(f) ==
  {ComputeToCompute(TRUE),
   Transition("exposure", IF f.exposed THEN "read" ELSE "undefined", "general",
              Samplers, Compute, FALSE)}

Bins(f) ==
  {Read("compute", Lit(f), "general", ThisFrame)}
  \cup Update("compute", "histogram", "buffer", {"zeroed"}, "binned")

Adapts(f) ==
  Update("compute", "histogram", "buffer", {"binned"}, "zeroed")
  \cup {Write("compute", "exposure", "general", "now")}
  \cup (IF f.exposed THEN {Read("compute", "exposure", "general", LastFrame)} ELSE {})

LEMMA ExposureRuns ==
  ASSUME NEW f, NEW r, NEW w
  PROVE  LET q == After(After(r, w, Barrier(Meters(f))), w, Pass(Bins(f)))
         IN  Run(r, w, Exposure(f))
               = After(After(q, w, Barrier({ComputeToCompute(TRUE)})), w, Pass(Adapts(f)))
BY RunFour DEF Exposure, Meters, Bins, Adapts

LEMMA MetersFlush ==
  ASSUME NEW f, NEW w, w \notin {"exposure", "memory"}
  PROVE  /\ \A e \in Meters(f) : e.of # w /\ e.dst \subseteq Stages
         /\ Memory(Compute, Compute, TRUE) \in Meters(f)
<1>1. \A e \in Meters(f) : e.of # w
  BY DEF Meters, ComputeToCompute, Memory, Transition
<1>2. \A e \in Meters(f) : e.dst \subseteq Stages
  BY StagesAre DEF Meters, ComputeToCompute, Memory, Transition
<1>3. Memory(Compute, Compute, TRUE) \in Meters(f)
  BY DEF Meters, ComputeToCompute
<1> QED
  BY <1>1, <1>2, <1>3

\* What TAA made, or the lit image itself, is binned.
LEMMA ExposureReadsLit ==
  ASSUME NEW f, NEW r, NEW w, w = Lit(f), w \notin {"exposure", "histogram", "memory"},
         Wrote(r, "general", {"now"}, "compute")
  PROVE  Fine(Run(r, w, Exposure(f)), "general", ThisFrame, Compute, Compute, {})
<1> DEFINE q == After(r, w, Barrier(Meters(f)))
           p == After(q, w, Pass(Bins(f)))
           b == Barrier({ComputeToCompute(TRUE)})
<1>1. Reads(<<Pass(Bins(f))>>, w, "general", ThisFrame, Compute)
  <2>1. \A a \in Bins(f) : a.of = w =>
          /\ ~a.writes /\ a.layout = "general" /\ ThisFrame \subseteq a.contents
          /\ a.stage \in Compute
    BY InStages DEF Bins, Read, Update, Write
  <2> QED
    BY <2>1, PassOnlyReads, ReadsOne
<1>2. Reads(<<b, Pass(Adapts(f))>>, w, "general", ThisFrame, Compute)
  <2>1. \A d \in {ComputeToCompute(TRUE)} : d.of # w /\ d.dst \subseteq Stages
    BY StagesAre DEF ComputeToCompute, Memory, Transition
  <2>2. OnlyReads(b, w, "general", ThisFrame, Compute)
    BY <2>1, BarrierReads
  <2>3. \A a \in Adapts(f) : a.of # w
    BY DEF Adapts, Read, Update, Write
  <2>4. OnlyReads(Pass(Adapts(f)), w, "general", ThisFrame, Compute)
    BY <2>3, PassOnlyReads
  <2> HIDE DEF b
  <2> QED
    BY <2>2, <2>4, ReadsTwo
<1>3. {"now"} \subseteq ThisFrame
  BY DEF ThisFrame
<1>4. Run(r, w, Exposure(f)) = Run(p, w, <<b, Pass(Adapts(f))>>)
  BY ExposureRuns, RunTwo
<1> HIDE DEF b
<1>5. Fine(Run(q, w, <<Pass(Bins(f))>>), "general", ThisFrame, Compute, Compute, {})
  BY <1>1, <1>3, MetersFlush, FlushReads
<1>6. Run(q, w, <<Pass(Bins(f))>>) = p
  BY RunOne
<1> HIDE DEF p
<1>7. Compute \subseteq Compute \cap Compute
  OBVIOUS
<1>8. Fine(Run(p, w, <<b, Pass(Adapts(f))>>), "general", ThisFrame, Compute, Compute, {})
  BY <1>2, <1>5, <1>6, <1>7, ReadsKeep
<1> QED
  BY <1>4, <1>8

LEMMA HistogramTurns ==
  ASSUME NEW f, IsFrame(f), NEW r, NEW w, w = "histogram", NEW q,
         q = After(r, w, Barrier(Meters(f))), Fine(q, "buffer", {"zeroed"}, Compute, {}, Stages)
  PROVE  Wrote(Run(r, w, Exposure(f)), "buffer", {"zeroed"}, "compute")
<1> DEFINE r1 == After(q, w, Pass(Bins(f)))
           r2 == After(r1, w, Barrier({ComputeToCompute(TRUE)}))
<1>1. Run(r, w, Exposure(f)) = After(r2, w, Pass(Adapts(f)))
  BY ExposureRuns
<1>2. Writes(Bins(f), w, "buffer", {"zeroed"}, "compute", "binned")
  <2> DEFINE others == {Read("compute", Lit(f), "general", ThisFrame)}
  <2>1. \A a \in others : a.of # w
    BY HistoryNames DEF Lit, Read
  <2>2. Bins(f) = Update("compute", w, "buffer", {"zeroed"}, "binned") \cup others
    BY DEF Bins
  <2>3. {"zeroed"} \subseteq {"zeroed"}
    OBVIOUS
  <2> HIDE DEF others
  <2>4. Writes(Update("compute", w, "buffer", {"zeroed"}, "binned") \cup others, w, "buffer",
               {"zeroed"}, "compute", "binned")
    BY <2>1, <2>3, UpdateWrites
  <2> QED
    BY <2>2, <2>4
<1>3. Writes(Adapts(f), w, "buffer", {"binned"}, "compute", "zeroed")
  <2> DEFINE others ==
               {Write("compute", "exposure", "general", "now")}
               \cup (IF f.exposed THEN {Read("compute", "exposure", "general", LastFrame)} ELSE {})
  <2>1. \A a \in others : a.of # w
    BY DEF Read, Write
  <2>2. Adapts(f) = Update("compute", w, "buffer", {"binned"}, "zeroed") \cup others
    BY DEF Adapts
  <2>3. {"binned"} \subseteq {"binned"}
    OBVIOUS
  <2> HIDE DEF others
  <2>4. Writes(Update("compute", w, "buffer", {"binned"}, "zeroed") \cup others, w, "buffer",
               {"binned"}, "compute", "zeroed")
    BY <2>1, <2>3, UpdateWrites
  <2> QED
    BY <2>2, <2>4
<1>4. w # "memory"
  OBVIOUS
<1>5. Wrote(r1, "buffer", {"binned"}, "compute")
  BY <1>2, InStages, PassWrites
<1> HIDE DEF r1
<1>6. Fine(r2, "buffer", {"binned"}, Compute, {}, Stages)
  BY <1>4, <1>5, ComputeFlushes
<1> HIDE DEF r2
<1>7. Wrote(After(r2, w, Pass(Adapts(f))), "buffer", {"zeroed"}, "compute")
  BY <1>3, <1>6, InStages, PassWrites
<1> QED
  BY <1>1, <1>7

\* Out of the layout it was sampled in, or out of none.
LEMMA ExposureMade ==
  ASSUME NEW f, IsFrame(f), NEW r,
         \/ f.exposed /\ Fine(r, "read", {"last"}, Samplers, Samplers, {})
         \/ ~f.exposed /\ Movable(r, Samplers)
  PROVE  Wrote(Run(r, "exposure", Exposure(f)), "general", {"now"}, "compute")
<1> DEFINE w == "exposure"
           holds == IF f.exposed THEN {"last"} ELSE {"nothing"}
           q == After(r, w, Barrier(Meters(f)))
           b == Barrier({ComputeToCompute(TRUE)})
<1>1. Fine(q, "general", holds, Compute, {}, Stages)
  <2>1. Moves(Meters(f), w, IF f.exposed THEN "read" ELSE "undefined", "general",
              Samplers, Compute, FALSE)
    BY DEF Moves, Meters, ComputeToCompute, Memory, Transition
  <2>2. CASE f.exposed
    <3>1. Samplers \subseteq Samplers /\ Samplers \cap Samplers # {}
      BY DEF Samplers
    <3>2. Moves(Meters(f), w, "read", "general", Samplers, Compute, FALSE)
      BY <2>1, <2>2
    <3>3. Fine(r, "read", {"last"}, Samplers, Samplers, {})
      BY <2>2
    <3> HIDE DEF w
    <3>4. Fine(q, "general", {"last"}, Compute, {}, Stages)
      BY <3>1, <3>2, <3>3, MovesFine
    <3> QED
      BY <2>2, <3>4
  <2>3. CASE ~f.exposed
    <3>1. Moves(Meters(f), w, "undefined", "general", Samplers, Compute, FALSE)
      BY <2>1, <2>3
    <3> HIDE DEF w
    <3>2. Fine(q, "general", {"nothing"}, Compute, {}, Stages)
      BY <2>3, <3>1, MovesFromAny
    <3> QED
      BY <2>3, <3>2
  <2> QED
    BY <2>2, <2>3
<1>2. Reads(<<Pass(Bins(f)), b>>, w, "any", {}, {})
  <2>1. \A a \in Bins(f) : a.of # w
    BY HistoryNames DEF Lit, Bins, Read, Update, Write
  <2>2. \A d \in {ComputeToCompute(TRUE)} : d.of # w /\ d.dst \subseteq Stages
    BY StagesAre DEF ComputeToCompute, Memory, Transition
  <2>3. OnlyReads(b, w, "any", {}, {})
    BY <2>2, BarrierReads
  <2>4. OnlyReads(Pass(Bins(f)), w, "any", {}, {})
    BY <2>1, PassOnlyReads
  <2> HIDE DEF b
  <2> QED
    BY <2>3, <2>4, ReadsTwo
<1>3. Writes(Adapts(f), w, "general", holds, "compute", "now")
  <2>1. \A a \in Adapts(f) : a.of = w =>
          /\ a.layout = "general" /\ a.stage = "compute"
          /\ IF a.writes THEN a.contents = {"now"} ELSE f.exposed /\ a.contents = LastFrame
    BY DEF Adapts, Read, Update, Write
  <2>2. \E a \in Adapts(f) : a.of = w /\ a.writes
    <3>1. Write("compute", w, "general", "now") \in Adapts(f)
      BY DEF Adapts
    <3>2. Write("compute", w, "general", "now").of = w
          /\ Write("compute", w, "general", "now").writes
      BY DEF Write
    <3> QED
      BY <3>1, <3>2
  <2> QED
    BY <2>1, <2>2 DEF Writes, LastFrame
<1> DEFINE p == After(After(q, w, Pass(Bins(f))), w, b)
<1>4. Run(r, w, Exposure(f)) = After(p, w, Pass(Adapts(f)))
  BY ExposureRuns
<1> HIDE DEF b, holds, q, w
<1>5. p = Run(q, w, <<Pass(Bins(f)), b>>)
  BY RunTwo
<1>6. Fine(p, "general", holds, Compute, {}, Stages)
  BY <1>1, <1>2, <1>5, FineStays DEF Quiet
<1> HIDE DEF p
<1>7. Wrote(After(p, w, Pass(Adapts(f))), "general", {"now"}, "compute")
  BY <1>3, <1>6, InStages, PassWrites
<1> QED
  BY <1>4, <1>7 DEF w

LEMMA DebugViewsMakes ==
  ASSUME NEW f, f.windows, NEW r, Movable(r, Fragment)
  PROVE  Wrote(Run(r, "debug", DebugViews(f)), "general", {"now"}, "compute")
<1> DEFINE w == "debug"
           ds == {Transition(w, "undefined", "general", Fragment, Compute, FALSE)}
           others == GBufferReads \cup ShadowReads(f)
                     \cup {Read("compute", "clusters", "buffer", ThisFrame)}
           uses == GBufferReads \cup ShadowReads(f)
                   \cup {Read("compute", "clusters", "buffer", ThisFrame),
                         Write("compute", w, "general", "now")}
           r1 == After(r, w, Barrier(ds))
<1>1. Run(r, w, DebugViews(f)) = After(r1, w, Pass(uses))
  BY RunTwo DEF DebugViews, Only
<1>2. Moves(ds, w, "undefined", "general", Fragment, Compute, FALSE)
  BY MovesAlone
<1>3. Writes(uses, w, "general", {"nothing"}, "compute", "now")
  <2>1. \A a \in others : a.of # w
    BY GBufferReadsAre, ShadowReadsAre DEF Read
  <2>2. uses = {Write("compute", w, "general", "now")} \cup others
    OBVIOUS
  <2> HIDE DEF others, uses, w
  <2> QED
    BY <2>1, <2>2, WriteWrites
<1> HIDE DEF ds, uses, w
<1>4. Fine(r1, "general", {"nothing"}, Compute, {}, Stages)
  BY <1>2, MovesFromAny
<1> HIDE DEF r1
<1>5. Wrote(After(r1, w, Pass(uses)), "general", {"now"}, "compute")
  BY <1>3, <1>4, InStages, PassWrites
<1> QED
  BY <1>1, <1>5 DEF w

LEMMA HandoffMoves ==
  ASSUME NEW f, IsFrame(f), NEW r, NEW w
  PROVE  /\ w = "hdr" /\ Fine(r, "general", ThisFrame, Compute, Compute, {})
              => Fine(Run(r, w, Handoff(f)), "read", ThisFrame, Fragment, {}, Stages)
         /\ w = History[f.write] /\ f.taa /\ Fine(r, "general", ThisFrame, Compute, Compute, {})
              => Fine(Run(r, w, Handoff(f)), "read", ThisFrame, Samplers, {}, Stages)
         /\ w = "target" /\ Movable(r, Colour)
              => Fine(Run(r, w, Handoff(f)), "colour", {"nothing"}, Colour, {}, Stages)
         /\ w = "exposure" /\ Wrote(r, "general", {"now"}, "compute")
              => Fine(Run(r, w, Handoff(f)), "read", {"now"}, Samplers, {}, Stages)
         /\ w = "debug" /\ f.windows /\ Wrote(r, "general", {"now"}, "compute")
              => Fine(Run(r, w, Handoff(f)), "read", {"now"}, Fragment, {}, Stages)
<1> DEFINE h == History[f.write]
           ds == {Transition("hdr", "general", "read", Compute, Fragment, TRUE),
                  Transition("target", "undefined", "colour", Colour, Colour, FALSE),
                  Transition("exposure", "general", "read", Compute, Samplers, TRUE)}
                 \cup (IF f.taa THEN {Transition(h, "general", "read", Compute, Samplers, TRUE)}
                       ELSE {})
                 \cup (IF f.windows
                       THEN {Transition("debug", "general", "read", Compute, Fragment, TRUE)}
                       ELSE {})
<1>1. h \notin {"hdr", "target", "exposure", "debug"}
  BY HistoryNames
<1>2. Run(r, w, Handoff(f)) = After(r, w, Barrier(ds))
  BY RunOne DEF Handoff
<1> HIDE DEF h
<1>3. Moves(ds, "hdr", "general", "read", Compute, Fragment, TRUE)
  BY <1>1 DEF Moves, Transition
<1>4. f.taa => Moves(ds, h, "general", "read", Compute, Samplers, TRUE)
  BY <1>1 DEF Moves, Transition
<1>5. Moves(ds, "target", "undefined", "colour", Colour, Colour, FALSE)
  BY <1>1 DEF Moves, Transition
<1>6. Moves(ds, "exposure", "general", "read", Compute, Samplers, TRUE)
  BY <1>1 DEF Moves, Transition
<1>7. f.windows => Moves(ds, "debug", "general", "read", Compute, Fragment, TRUE)
  BY <1>1 DEF Moves, Transition
<1>8. Compute \subseteq Compute /\ Compute \cap Compute # {}
  BY DEF Compute
<1> HIDE DEF ds
<1> DEFINE q == After(r, w, Barrier(ds))
<1>9. ASSUME w = "hdr", Fine(r, "general", ThisFrame, Compute, Compute, {})
      PROVE  Fine(q, "read", ThisFrame, Fragment, {}, Stages)
  BY <1>3, <1>8, <1>9, MovesFine
<1>10. ASSUME w = h, f.taa, Fine(r, "general", ThisFrame, Compute, Compute, {})
       PROVE  Fine(q, "read", ThisFrame, Samplers, {}, Stages)
  <2>1. Moves(ds, w, "general", "read", Compute, Samplers, TRUE)
    BY <1>4, <1>10
  <2> QED
    BY <1>8, <1>10, <2>1, MovesFine
<1>11. ASSUME w = "target", Movable(r, Colour)
       PROVE  Fine(q, "colour", {"nothing"}, Colour, {}, Stages)
  BY <1>5, <1>11, MovesFromAny
<1>12. ASSUME w = "exposure", Wrote(r, "general", {"now"}, "compute")
       PROVE  Fine(q, "read", {"now"}, Samplers, {}, Stages)
  BY <1>6, <1>12, InStages, MovesWritten
<1>13. ASSUME w = "debug", f.windows, Wrote(r, "general", {"now"}, "compute")
       PROVE  Fine(q, "read", {"now"}, Fragment, {}, Stages)
  BY <1>7, <1>13, InStages, MovesWritten
<1> HIDE DEF q
<1> QED
  BY <1>2, <1>9, <1>10, <1>11, <1>12, <1>13 DEF h, q

-----------------------------------------------------------------------------
(* The swapchain's image *)

LEMMA TonemapWrites ==
  ASSUME NEW f, IsFrame(f), NEW r, Fine(r, "colour", {"nothing"}, Colour, {}, Stages)
  PROVE  Wrote(Run(r, "target", Tonemap(f)), "colour", {"now"}, "colour")
<1> DEFINE w == "target"
           others == {Read("fragment", Lit(f), "read", ThisFrame),
                      Read("fragment", "exposure", "read", ThisFrame)}
           uses == {Read("fragment", Lit(f), "read", ThisFrame),
                    Read("fragment", "exposure", "read", ThisFrame),
                    Write("colour", w, "colour", "now")}
<1>1. Run(r, w, Tonemap(f)) = After(r, w, Pass(uses))
  BY RunOne DEF Tonemap
<1>2. Writes(uses, w, "colour", {"nothing"}, "colour", "now")
  <2>1. \A a \in others : a.of # w
    BY HistoryNames DEF Lit, Read
  <2>2. uses = {Write("colour", w, "colour", "now")} \cup others
    OBVIOUS
  <2> HIDE DEF others, uses, w
  <2> QED
    BY <2>1, <2>2, WriteWrites
<1> HIDE DEF uses, w
<1>3. Wrote(After(r, w, Pass(uses)), "colour", {"now"}, "colour")
  BY <1>2, InStages, PassWrites
<1> QED
  BY <1>1, <1>3 DEF w

\* A pass over what the ones before have drawn.
LEMMA DrawsOver ==
  ASSUME NEW r, Wrote(r, "colour", {"now"}, "colour"), NEW others, \A a \in others : a.of # "target"
  PROVE  Wrote(Run(r, "target", <<Reload, Pass(Over \cup others)>>), "colour", {"now"}, "colour")
<1> DEFINE w == "target"
           ds == {Transition(w, "colour", "colour", Colour, Colour, TRUE)}
           r1 == After(r, w, Barrier(ds))
<1>1. Run(r, w, <<Reload, Pass(Over \cup others)>>) = After(r1, w, Pass(Over \cup others))
  BY RunTwo DEF Reload
<1>2. Moves(ds, w, "colour", "colour", Colour, Colour, TRUE)
  BY MovesAlone
<1>3. Writes(Over \cup others, w, "colour", {"now"}, "colour", "now")
  <2>1. {"now"} \subseteq ThisFrame
    BY DEF ThisFrame
  <2> QED
    BY <2>1, UpdateWrites DEF Over
<1> HIDE DEF ds, w
<1>4. Fine(r1, "colour", {"now"}, Colour, {}, Stages)
  BY <1>2, InStages, MovesWritten
<1> HIDE DEF r1
<1>5. Wrote(After(r1, w, Pass(Over \cup others)), "colour", {"now"}, "colour")
  BY <1>3, <1>4, InStages, PassWrites
<1> QED
  BY <1>1, <1>5 DEF w

LEMMA DebugDrawsOver ==
  ASSUME NEW f, NEW r, Wrote(r, "colour", {"now"}, "colour")
  PROVE  Wrote(Run(r, "target", DebugDraw(f)), "colour", {"now"}, "colour")
<1> DEFINE others == {Read("depth", "depth", "read", ThisFrame)}
<1>1. \A a \in others : a.of # "target"
  BY DEF Read
<1>2. DebugDraw(f) = IF f.lines THEN <<Reload, Pass(Over \cup others)>> ELSE <<>>
  BY DEF DebugDraw, Only
<1> HIDE DEF others
<1> QED
  BY <1>1, <1>2, DrawsOver, RunNothing

LEMMA OverlayDrawsOver ==
  ASSUME NEW f, NEW r, Wrote(r, "colour", {"now"}, "colour")
  PROVE  Wrote(Run(r, "target", Overlay(f)), "colour", {"now"}, "colour")
<1> DEFINE views == IF f.windows THEN {Read("fragment", "debug", "read", ThisFrame)} ELSE {}
           shown == IF f.shown THEN {Read("fragment", Ui, "read", {"data"})} ELSE {}
           others == views \cup shown
           q == Run(r, "target", UiUpload(f))
<1>1. \A a \in others : a.of # "target"
  BY DEF Read, Ui
<1>2. OverlayDraw(f) = <<Reload, Pass(Over \cup others)>>
  <2>1. Over \cup views \cup shown = Over \cup others
    OBVIOUS
  <2> QED
    BY <2>1 DEF OverlayDraw
<1> HIDE DEF others
<1>3. Run(r, "target", Overlay(f)) = Run(q, "target", OverlayDraw(f))
  <2>1. IsList(UiUpload(f)) /\ IsList(OverlayDraw(f))
    BY OverlayLists
  <2>2. Overlay(f) = UiUpload(f) \o OverlayDraw(f)
    BY OverlayIs
  <2> QED
    BY <2>1, <2>2, RunJoins
<1>4. Quiet(UiUpload(f), "target")
  BY UiUploadQuiet DEF Ui
<1>5. Wrote(q, "colour", {"now"}, "colour")
  BY <1>4, WroteStays
<1> HIDE DEF q
<1> QED
  BY <1>1, <1>2, <1>3, <1>5, DrawsOver

\* What is copied, and the copy.
LEMMA CapturedMoves ==
  ASSUME NEW f, f.capture
  PROVE  /\ \A r : Wrote(r, "colour", {"now"}, "colour")
              => Fine(Run(r, "target", Captured(f)), "src", ThisFrame, Copy, Copy, {})
         /\ \A r, holds : Fine(r, "buffer", holds, Stages, {}, Stages)
              => Fine(Run(r, "capture", Captured(f)), "buffer", ThisFrame, {"host"}, {"host"}, {})
<1> DEFINE ds == {Transition("target", "colour", "src", Colour, Copy, TRUE)}
           uses == {Read("copy", "target", "src", ThisFrame),
                    Write("copy", "capture", "buffer", "now")}
           es == {Memory(Copy, {"host"}, TRUE)}
           bs == {Read("host", "capture", "buffer", ThisFrame)}
<1>1. Captured(f) = <<Barrier(ds), Pass(uses), Barrier(es), Pass(bs)>>
  BY DEF Captured, Only
<1>2. {"now"} \subseteq ThisFrame
  BY DEF ThisFrame
<1>3. \A e \in es : e.of \notin {"target", "capture"} /\ e.dst \subseteq Stages
  BY DEF Memory, Transition, Stages
<1>4. ASSUME NEW r, Wrote(r, "colour", {"now"}, "colour")
      PROVE  Fine(Run(r, "target", Captured(f)), "src", ThisFrame, Copy, Copy, {})
  <2> DEFINE w == "target"
             r1 == After(r, w, Barrier(ds))
             C == <<Pass(uses), Barrier(es), Pass(bs)>>
  <2>1. Moves(ds, w, "colour", "src", Colour, Copy, TRUE)
    BY MovesAlone
  <2>2. Reads(C, w, "src", ThisFrame, Copy)
    <3>1. \A a \in uses : a.of = w =>
            /\ ~a.writes /\ a.layout = "src" /\ ThisFrame \subseteq a.contents
            /\ a.stage \in Copy
      BY DEF Read, Write, Copy
    <3>2. \A a \in bs : a.of # w
      BY DEF Read
    <3>3. OnlyReads(Pass(uses), w, "src", ThisFrame, Copy)
      BY <3>1, PassOnlyReads
    <3>4. OnlyReads(Barrier(es), w, "src", ThisFrame, Copy)
      BY <1>3, BarrierReads
    <3>5. OnlyReads(Pass(bs), w, "src", ThisFrame, Copy)
      BY <3>2, PassOnlyReads
    <3> HIDE DEF uses, es, bs, w
    <3> QED
      BY <3>3, <3>4, <3>5, ReadsThree
  <2>3. Run(r, w, Captured(f)) = Run(r1, w, C)
    BY <1>1, RunThree, RunFour
  <2> HIDE DEF ds, C, w
  <2>4. Fine(r1, "src", {"now"}, Copy, {}, Stages)
    BY <1>4, <2>1, InStages, MovesWritten DEF w
  <2> HIDE DEF r1
  <2>5. Fine(r1, "src", ThisFrame, Copy, Copy, {})
    BY <1>2, <2>4, LooserFine
  <2>6. Copy \subseteq Copy \cap Copy
    OBVIOUS
  <2>7. Fine(Run(r1, w, C), "src", ThisFrame, Copy, Copy, {})
    BY <2>2, <2>5, <2>6, ReadsKeep
  <2> QED
    BY <2>3, <2>7 DEF w
<1>5. ASSUME NEW r, NEW holds, Fine(r, "buffer", holds, Stages, {}, Stages)
      PROVE  Fine(Run(r, "capture", Captured(f)), "buffer", ThisFrame, {"host"}, {"host"}, {})
  <2> DEFINE w == "capture"
             r1 == After(r, w, Barrier(ds))
             r2 == After(r1, w, Pass(uses))
             r3 == After(r2, w, Barrier(es))
             r4 == After(r3, w, Pass(bs))
  <2>1. Run(r, w, Captured(f)) = r4
    BY <1>1, RunFour
  <2>2. Run(r, w, <<Barrier(ds)>>) = r1
    BY RunOne
  <2>3. Quiet(<<Barrier(ds)>>, w)
    <3>1. \A d \in ds : d.of # w /\ d.dst \subseteq Stages
      BY StagesAre DEF Transition
    <3>2. OnlyReads(Barrier(ds), w, "any", {}, {})
      BY <3>1, BarrierReads
    <3> HIDE DEF ds
    <3> QED
      BY <3>2, ReadsOne DEF Quiet
  <2>4. Writes(uses, w, "buffer", holds, "copy", "now")
    BY DEF Writes, Read, Write
  <2>5. Memory(Copy, {"host"}, TRUE) \in es
    OBVIOUS
  <2>6. \A a \in bs : a.of = w =>
          /\ ~a.writes /\ a.layout = "buffer" /\ ThisFrame \subseteq a.contents
          /\ a.stage \in {"host"} \cap {"host"}
    BY DEF Read
  <2>7. \A e \in es : e.of # w /\ e.dst \subseteq Stages
    BY <1>3
  <2>8. w # "memory"
    OBVIOUS
  <2> HIDE DEF ds, uses, es, bs, w
  <2>9. Fine(r1, "buffer", holds, Stages, {}, Stages)
    BY <1>5, <2>2, <2>3, FineStays
  <2> HIDE DEF r1
  <2>10. Wrote(r2, "buffer", {"now"}, "copy")
    <3>1. "copy" \in Stages \cap Stages
      BY InStages
    <3> QED
      BY <2>4, <2>9, <3>1, PassWrites
  <2> HIDE DEF r2
  <2>11. Fine(r3, "buffer", {"now"}, {"host"}, {}, Stages)
    BY <2>5, <2>7, <2>8, <2>10, InStages, MemoryFlushes
  <2> HIDE DEF r3
  <2>12. Fine(r3, "buffer", ThisFrame, {"host"}, {}, Stages)
    BY <2>11 DEF ThisFrame
  <2>13. Fine(r4, "buffer", ThisFrame, {"host"}, {"host"}, {})
    BY <2>6, <2>12, PassReads
  <2> QED
    BY <2>1, <2>13 DEF w
<1> QED
  BY <1>4, <1>5

LEMMA PresentMoves ==
  ASSUME NEW f, NEW r
  PROVE  /\ f.capture /\ Fine(r, "src", ThisFrame, Copy, Copy, {})
              => Fine(Run(r, "target", Present(f)), "present", ThisFrame, {}, {}, Stages)
         /\ ~f.capture /\ Wrote(r, "colour", {"now"}, "colour")
              => Fine(Run(r, "target", Present(f)), "present", {"now"}, {}, {}, Stages)
<1>1. ASSUME f.capture, Fine(r, "src", ThisFrame, Copy, Copy, {})
      PROVE  Fine(Run(r, "target", Present(f)), "present", ThisFrame, {}, {}, Stages)
  <2> DEFINE ds == {Transition("target", "src", "present", Copy, {}, FALSE)}
  <2>1. Run(r, "target", Present(f)) = After(r, "target", Barrier(ds))
    BY <1>1, RunOne DEF Present
  <2>2. Moves(ds, "target", "src", "present", Copy, {}, FALSE)
    BY MovesAlone
  <2>3. Copy \subseteq Copy /\ Copy \cap Copy # {}
    BY DEF Copy
  <2> HIDE DEF ds
  <2>4. Fine(After(r, "target", Barrier(ds)), "present", ThisFrame, {}, {}, Stages)
    BY <1>1, <2>2, <2>3, MovesFine
  <2> QED
    BY <2>1, <2>4
<1>2. ASSUME ~f.capture, Wrote(r, "colour", {"now"}, "colour")
      PROVE  Fine(Run(r, "target", Present(f)), "present", {"now"}, {}, {}, Stages)
  <2> DEFINE ds == {Transition("target", "colour", "present", Colour, {}, TRUE)}
  <2>1. Run(r, "target", Present(f)) = After(r, "target", Barrier(ds))
    BY <1>2, RunOne DEF Present
  <2>2. Moves(ds, "target", "colour", "present", Colour, {}, TRUE)
    BY MovesAlone
  <2> HIDE DEF ds
  <2>3. Fine(After(r, "target", Barrier(ds)), "present", {"now"}, {}, {}, Stages)
    BY <1>2, <2>2, InStages, MovesWritten
  <2> QED
    BY <2>1, <2>3
<1> QED
  BY <1>1, <1>2

-----------------------------------------------------------------------------
(* The LUTs and the UI's texture *)

\* A LUT that was sampled, or none yet, before a frame.
LutBefore(r, lutAir) ==
  IF lutAir # NoAir THEN Fine(r, "read", {lutAir}, Compute, Compute, {}) ELSE Movable(r, Compute)

LEMMA RebuildMakes ==
  ASSUME NEW f, NEW r, NEW w \in LutTable, LutBefore(r, f.lut), f.air # NoAir
  PROVE  Fine(Run(r, w, RebuildLuts(f)), "read", {f.air}, Compute, Compute, {})
<1> DEFINE from == IF f.lut # NoAir THEN "read" ELSE "undefined"
           ready(l) == {Transition(l, "general", "read", Compute, Compute, TRUE)}
           ds == {Transition(l, from, "general", Compute, Compute, FALSE) :
                    l \in {"transmittance", "multiscatter"}}
           one == {Write("compute", "transmittance", "general", f.air)}
           two == {Read("compute", "transmittance", "read", {f.air}),
                   Write("compute", "multiscatter", "general", f.air)}
           C == <<Barrier(ds), Pass(one), Barrier(ready("transmittance")), Pass(two),
                  Barrier(ready("multiscatter"))>>
           D == <<Barrier(ds), Pass(one), Barrier(ready("transmittance")), Pass(two)>>
           q == After(r, w, Barrier(ds))
           holds == IF f.lut # NoAir THEN {f.lut} ELSE {"nothing"}
<1>1. CASE f.lut = f.air
  BY <1>1, RunNothing DEF RebuildLuts, Only, LutBefore
<1>2. CASE f.lut # f.air
  <2> DEFINE r1 == After(q, w, Pass(one))
             r2 == After(r1, w, Barrier(ready("transmittance")))
             r3 == After(r2, w, Pass(two))
             r4 == After(r3, w, Barrier(ready("multiscatter")))
  <2>1. Run(r, w, RebuildLuts(f)) = r4
    <3>1. RebuildLuts(f) = C
      BY <1>2 DEF RebuildLuts, Only
    <3>2. C = D \o <<Barrier(ready("multiscatter"))>>
      BY FiveAre
    <3>3. IsList(<<Barrier(ready("multiscatter"))>>) /\ IsList(D)
      BY ListOne, ListFour
    <3>4. Run(r, w, D) = r3 /\ Run(r3, w, <<Barrier(ready("multiscatter"))>>) = r4
      BY RunOne, RunFour
    <3> HIDE DEF C, D, r3, r4, ready
    <3>5. Run(r, w, C) = Run(Run(r, w, D), w, <<Barrier(ready("multiscatter"))>>)
      BY <3>2, <3>3, RunJoins
    <3> QED
      BY <3>1, <3>4, <3>5
  <2>2. Fine(q, "general", holds, Compute, {}, Stages)
    <3>1. Moves(ds, w, from, "general", Compute, Compute, FALSE)
      BY DEF Moves, Transition, LutTable
    <3>2. Compute \subseteq Compute /\ Compute \cap Compute # {}
      BY DEF Compute
    <3> HIDE DEF ds
    <3>3. CASE f.lut # NoAir
      <4>1. Moves(ds, w, "read", "general", Compute, Compute, FALSE)
        BY <3>1, <3>3
      <4>2. Fine(r, "read", {f.lut}, Compute, Compute, {})
        BY <3>3 DEF LutBefore
      <4>3. Fine(q, "general", {f.lut}, Compute, {}, Stages)
        BY <3>2, <4>1, <4>2, MovesFine
      <4> QED
        BY <3>3, <4>3
    <3>4. CASE f.lut = NoAir
      <4>1. Moves(ds, w, "undefined", "general", Compute, Compute, FALSE)
        BY <3>1, <3>4
      <4>2. Movable(r, Compute)
        BY <3>4 DEF LutBefore
      <4>3. Fine(q, "general", {"nothing"}, Compute, {}, Stages)
        BY <4>1, <4>2, MovesFromAny
      <4> QED
        BY <3>4, <4>3
    <3> QED
      BY <3>3, <3>4
  <2> HIDE DEF q, ds, D, holds
  <2>4. CASE w = "transmittance"
    <3>1. Writes(one, w, "general", holds, "compute", f.air)
      BY <2>4 DEF Writes, Write
    <3>2. Moves(ready("transmittance"), w, "general", "read", Compute, Compute, TRUE)
      BY <2>4, MovesAlone
    <3>3. \A a \in two : a.of = w =>
            /\ ~a.writes /\ a.layout = "read" /\ {f.air} \subseteq a.contents
            /\ a.stage \in Compute \cap Compute
      BY <2>4, InStages DEF Read, Write
    <3>4. \A d \in ready("multiscatter") : d.of # w /\ d.dst \subseteq Stages
      BY <2>4, StagesAre DEF Transition
    <3> HIDE DEF one, two, ready
    <3>5. Wrote(r1, "general", {f.air}, "compute")
      BY <2>2, <3>1, InStages, PassWrites
    <3> HIDE DEF r1
    <3>6. Fine(r2, "read", {f.air}, Compute, {}, Stages)
      BY <3>2, <3>5, InStages, MovesWritten
    <3> HIDE DEF r2
    <3>7. Fine(r3, "read", {f.air}, Compute, Compute, {})
      BY <3>3, <3>6, PassReads
    <3> HIDE DEF r3
    <3>8. Reads(<<Barrier(ready("multiscatter"))>>, w, "any", {}, {})
      BY <3>4, BarrierReads, ReadsOne
    <3>9. Run(r3, w, <<Barrier(ready("multiscatter"))>>) = r4
      BY RunOne
    <3> HIDE DEF r4
    <3>10. Fine(r4, "read", {f.air}, Compute, Compute, {})
      BY <3>7, <3>8, <3>9, FineStays DEF Quiet
    <3> QED
      BY <2>1, <3>10
  <2>5. CASE w = "multiscatter"
    <3>1. \A a \in one : a.of # w
      BY <2>5 DEF Write
    <3>2. \A d \in ready("transmittance") : d.of # w /\ d.dst \subseteq Stages
      BY <2>5, StagesAre DEF Transition
    <3>3. Writes(two, w, "general", holds, "compute", f.air)
      BY <2>5 DEF Writes, Read, Write
    <3>4. Moves(ready("multiscatter"), w, "general", "read", Compute, Compute, TRUE)
      BY <2>5, MovesAlone
    <3> HIDE DEF one, two, ready
    <3>5. Reads(<<Pass(one), Barrier(ready("transmittance"))>>, w, "any", {}, {})
      <4>1. OnlyReads(Pass(one), w, "any", {}, {})
        BY <3>1, PassOnlyReads
      <4>2. OnlyReads(Barrier(ready("transmittance")), w, "any", {}, {})
        BY <3>2, BarrierReads
      <4> QED
        BY <4>1, <4>2, ReadsTwo
    <3>6. Run(q, w, <<Pass(one), Barrier(ready("transmittance"))>>) = r2
      BY RunTwo
    <3> HIDE DEF r1, r2
    <3>7. Fine(r2, "general", holds, Compute, {}, Stages)
      BY <2>2, <3>5, <3>6, FineStays DEF Quiet
    <3>8. Wrote(r3, "general", {f.air}, "compute")
      BY <3>3, <3>7, InStages, PassWrites
    <3> HIDE DEF r3
    <3>9. Fine(r4, "read", {f.air}, Compute, {}, Stages)
      BY <3>4, <3>8, InStages, MovesWritten
    <3> HIDE DEF r4
    <3>10. Fine(r4, "read", {f.air}, Compute, Compute, {})
      BY <3>9 DEF Fine
    <3> QED
      BY <2>1, <3>10
  <2> QED
    BY <2>4, <2>5 DEF LutTable
<1> QED
  BY <1>1, <1>2

LEMMA SkyReadsLuts ==
  ASSUME NEW f, NEW r, NEW w \in LutTable, LutBefore(r, f.lut), f.air # NoAir
  PROVE  Fine(Run(r, w, Sky(f)), "read", {f.air}, Compute, Compute, {})
<1> DEFINE q == Run(r, w, RebuildLuts(f))
           p == Run(q, w, SkyAmbient(f))
<1>1. Fine(q, "read", {f.air}, Compute, Compute, {})
  BY RebuildMakes
<1>2. w \notin {"ambient", "memory"} /\ w # "sky_view"
  BY DEF LutTable
<1>3. Compute \subseteq Compute \cap Compute
  OBVIOUS
<1> HIDE DEF q
<1>4. Fine(p, "read", {f.air}, Compute, Compute, {})
  BY <1>1, <1>2, <1>3, SkyAmbientReads, ReadsKeep
<1> HIDE DEF p
<1>5. Fine(Run(p, w, SkyView(f)), "read", {f.air}, Compute, Compute, {})
  BY <1>2, <1>3, <1>4, SkyViewReads, ReadsKeep
<1> QED
  BY <1>5, SkyRuns DEF p, q

\* Put in the layout that is copied to, it holds this.
Starts(r, from, src, holds) ==
  \A ds : Moves(ds, Ui, from, "dst", src, Copy, FALSE)
            => Fine(After(r, Ui, Barrier(ds)), "dst", holds, Copy, {}, Stages)

\* A new texture, or more of an old one.
LEMMA UiUploadMakes ==
  ASSUME NEW f, NEW r
  PROVE  /\ f.ui = "create" /\ Movable(r, {})
              => Fine(Run(r, Ui, UiUpload(f)), "read", {"data"}, Fragment, {}, Stages)
         /\ f.ui = "update" /\ Fine(r, "read", {"data"}, Fragment, Fragment, {})
              => Fine(Run(r, Ui, UiUpload(f)), "read", {"data"}, Fragment, {}, Stages)
<1>1. ASSUME NEW holds, NEW from, NEW src, f.ui \in {"create", "update"},
             from = (IF f.ui = "create" THEN "undefined" ELSE "read"),
             src = (IF f.ui = "create" THEN {} ELSE Fragment),
             Starts(r, from, src, holds)
      PROVE  Fine(Run(r, Ui, UiUpload(f)), "read", {"data"}, Fragment, {}, Stages)
  <2> DEFINE ds == {Transition(Ui, from, "dst", src, Copy, FALSE)}
             uses == {Write("copy", Ui, "dst", "data")}
             es == {Transition(Ui, "dst", "read", Copy, Fragment, TRUE)}
             r1 == After(r, Ui, Barrier(ds))
             r2 == After(r1, Ui, Pass(uses))
  <2>1. Run(r, Ui, UiUpload(f)) = After(r2, Ui, Barrier(es))
    <3>1. UiUpload(f) = <<Barrier(ds), Pass(uses), Barrier(es)>>
      BY <1>1 DEF UiUpload, Only
    <3> QED
      BY <3>1, RunThree
  <2>2. Moves(ds, Ui, from, "dst", src, Copy, FALSE)
    BY MovesAlone
  <2>3. Moves(es, Ui, "dst", "read", Copy, Fragment, TRUE)
    BY MovesAlone
  <2>4. Writes(uses, Ui, "dst", holds, "copy", "data")
    BY DEF Writes, Write
  <2> HIDE DEF ds, uses, es
  <2>5. Fine(r1, "dst", holds, Copy, {}, Stages)
    BY <1>1, <2>2 DEF Starts
  <2> HIDE DEF r1
  <2>6. Wrote(r2, "dst", {"data"}, "copy")
    BY <2>4, <2>5, InStages, PassWrites
  <2> HIDE DEF r2
  <2>7. Fine(After(r2, Ui, Barrier(es)), "read", {"data"}, Fragment, {}, Stages)
    BY <2>3, <2>6, InStages, MovesWritten
  <2> QED
    BY <2>1, <2>7
<1>2. ASSUME f.ui = "create", Movable(r, {})
      PROVE  Fine(Run(r, Ui, UiUpload(f)), "read", {"data"}, Fragment, {}, Stages)
  <2>1. Starts(r, "undefined", {}, {"nothing"})
    BY <1>2, MovesFromAny DEF Starts
  <2> QED
    BY <1>1, <1>2, <2>1
<1>3. ASSUME f.ui = "update", Fine(r, "read", {"data"}, Fragment, Fragment, {})
      PROVE  Fine(Run(r, Ui, UiUpload(f)), "read", {"data"}, Fragment, {}, Stages)
  <2>1. Fragment \subseteq Fragment /\ Fragment \cap Fragment # {}
    BY DEF Fragment
  <2>2. Starts(r, "read", Fragment, {"data"})
    BY <1>3, <2>1, MovesFine DEF Starts
  <2> QED
    BY <1>1, <1>3, <2>2
<1> QED
  BY <1>2, <1>3

LEMMA SkyViewFrame ==
  ASSUME NEW f, IsFrame(f), NEW r, Movable(r, Compute)
  PROVE  Movable(Run(r, "sky_view", Record(f)), Compute)
<1> DEFINE w == "sky_view"
<1>1. PICK t : Trace(t, r, w, f) /\ t[18] = Run(r, w, Record(f))
  BY RecordRuns
<1>2. w \notin Range(Level) /\ w # "memory"
  BY NamesDiffer DEF Singles, Screen, Buffers
<1>3. /\ Quiet(Only(f.lands, TextureUpload), w) /\ Quiet(Entry(f), w) /\ Quiet(Shadows(f), w)
      /\ Quiet(GBuffer(f), w) /\ Quiet(Readable(f), w) /\ Quiet(Clusters, w)
      /\ Quiet(Lighting(f), w) /\ Quiet(Taa(f), w) /\ Quiet(Exposure(f), w)
      /\ Quiet(DebugViews(f), w) /\ Quiet(Handoff(f), w) /\ Quiet(Tonemap(f), w)
      /\ Quiet(DebugDraw(f), w) /\ Quiet(Overlay(f), w) /\ Quiet(Captured(f), w)
      /\ Quiet(Present(f), w)
  BY <1>2, PartsQuiet DEF Ui
<1>4. Movable(t[5], Compute)
  <2> HIDE DEF w
  <2>1. Movable(t[1], Compute)
    BY <1>1, <1>3, MovableStays DEF Trace
  <2>2. Movable(t[2], Compute)
    BY <1>1, <1>3, <2>1, MovableStays DEF Trace
  <2>3. Movable(t[3], Compute)
    BY <1>1, <1>3, <2>2, MovableStays DEF Trace
  <2>4. Movable(t[4], Compute)
    BY <1>1, <1>3, <2>3, MovableStays DEF Trace
  <2> QED
    BY <1>1, <1>3, <2>4, MovableStays DEF Trace
<1>5. CASE ~f.inside
  <2>1. Quiet(Sky(f), w) /\ Quiet(Atmosphere(f), w)
    BY <1>5, SkyQuiet, AtmosphereReads DEF LutTable
  <2> HIDE DEF w
  <2>2. Movable(t[8], Compute)
    <3>1. Movable(t[6], Compute)
      BY <1>1, <1>4, <2>1, MovableStays DEF Trace
    <3>2. Movable(t[7], Compute)
      BY <1>1, <1>3, <3>1, MovableStays DEF Trace
    <3> QED
      BY <1>1, <1>3, <3>2, MovableStays DEF Trace
  <2>3. Movable(t[9], Compute)
    BY <1>1, <2>1, <2>2, MovableStays DEF Trace
  <2> QED
    BY <1>1, <1>3, <2>3, MovableStays DEF Trace, w
<1>6. CASE f.inside
  <2>1. Reads(Atmosphere(f), w, "read", ThisFrame, Compute)
    BY AtmosphereReads
  <2>2. Fine(t[6], "read", {"now"}, Compute, {}, Stages)
    BY <1>1, <1>4, <1>6, SkyViewMade DEF Trace, IsFrame
  <2> HIDE DEF w
  <2>3. Fine(t[6], "read", ThisFrame, Compute, Compute, {})
    BY <2>2 DEF Fine, ThisFrame
  <2>4. Fine(t[8], "read", ThisFrame, Compute, Compute, {})
    <3>1. Fine(t[7], "read", ThisFrame, Compute, Compute, {})
      BY <1>1, <1>3, <2>3, FineStays DEF Trace
    <3> QED
      BY <1>1, <1>3, <3>1, FineStays DEF Trace
  <2>5. Compute \subseteq Compute \cap Compute
    OBVIOUS
  <2>6. Fine(t[9], "read", ThisFrame, Compute, Compute, {})
    BY <1>1, <2>1, <2>4, <2>5, ReadsKeep DEF Trace
  <2>7. Fine(t[18], "read", ThisFrame, Compute, Compute, {})
    BY <1>1, <1>3, <2>6, FineStays DEF Trace
  <2>8. Compute \cap Compute # {}
    BY DEF Compute
  <2> QED
    BY <1>1, <2>7, <2>8, FineMoves DEF w
<1> QED
  BY <1>5, <1>6

LEMMA HdrFrame ==
  ASSUME NEW f, IsFrame(f), NEW r, Movable(r, Fragment)
  PROVE  Movable(Run(r, "hdr", Record(f)), Fragment)
<1> DEFINE w == "hdr"
<1>1. PICK t : Trace(t, r, w, f) /\ t[18] = Run(r, w, Record(f))
  BY RecordRuns
<1>2. w \notin Range(Level) /\ w # "memory"
  BY NamesDiffer DEF Singles, Screen, Buffers
<1>3. /\ Quiet(Only(f.lands, TextureUpload), w) /\ Quiet(Shadows(f), w) /\ Quiet(Sky(f), w)
      /\ Quiet(Clusters, w) /\ Quiet(DebugViews(f), w) /\ Quiet(DebugDraw(f), w)
      /\ Quiet(Overlay(f), w) /\ Quiet(Captured(f), w) /\ Quiet(Present(f), w)
  BY <1>2, PartsQuiet DEF Ui
<1>4. w \notin {"exposure", "histogram", "memory", "target"}
  OBVIOUS
<1> HIDE DEF w
<1>5. Movable(t[1], Fragment)
  BY <1>1, <1>3, MovableStays DEF Trace
<1>6. Fine(t[3], "colour", {"nothing"}, Colour, {}, Stages)
  <2>1. Fine(t[2], "colour", {"nothing"}, Colour, {}, Stages)
    BY <1>1, <1>5, EntryMoves DEF Trace, w
  <2> QED
    BY <1>1, <1>3, <2>1, FineStays DEF Trace
<1>7. Wrote(t[4], "colour", {"now"}, "colour")
  BY <1>1, <1>2, <1>6, GBufferWrites DEF Trace, w
<1>8. Fine(t[7], "general", {"now"}, Compute, {}, Stages)
  <2>1. Fine(t[5], "general", {"now"}, Compute, {}, Stages)
    BY <1>1, <1>7, ReadableMoves DEF Trace, w
  <2>2. Fine(t[6], "general", {"now"}, Compute, {}, Stages)
    BY <1>1, <1>3, <2>1, FineStays DEF Trace
  <2> QED
    BY <1>1, <1>3, <2>2, FineStays DEF Trace
<1>9. Wrote(t[9], "general", {"now"}, "compute")
  <2>1. Wrote(t[8], "general", {"now"}, "compute")
    BY <1>1, <1>8, LightingWrites DEF Trace, w
  <2> QED
    BY <1>1, <2>1, AtmosphereWrites DEF Trace, w
<1>10. Fine(t[11], "general", ThisFrame, Compute, Compute, {})
  <2>1. CASE f.taa
    <3>1. Fine(t[10], "general", ThisFrame, Compute, Compute, {})
      BY <1>1, <1>9, <2>1, TaaReadsLit DEF Trace, w
    <3>2. Quiet(Exposure(f), w)
      <4>1. w # Lit(f)
        BY <2>1, HistoryNames DEF Lit, w
      <4> QED
        BY <1>4, <4>1, ExposureReads
    <3> QED
      BY <1>1, <3>1, <3>2, FineStays DEF Trace
  <2>2. CASE ~f.taa
    <3>1. Quiet(Taa(f), w)
      BY <2>2, RunNothing, ReadsNone DEF Quiet, Taa, Only
    <3>2. Wrote(t[10], "general", {"now"}, "compute")
      BY <1>1, <1>9, <3>1, WroteStays DEF Trace
    <3>3. w = Lit(f)
      BY <2>2 DEF Lit, w
    <3> QED
      BY <1>1, <1>4, <3>2, <3>3, ExposureReadsLit DEF Trace
  <2> QED
    BY <2>1, <2>2
<1>11. Fine(t[12], "general", ThisFrame, Compute, Compute, {})
  BY <1>1, <1>3, <1>10, FineStays DEF Trace
<1>12. Fine(t[13], "read", ThisFrame, Fragment, {}, Stages)
  BY <1>1, <1>11, HandoffMoves DEF Trace, w
<1>13. Fine(t[13], "read", ThisFrame, Fragment, Fragment, {})
  BY <1>12 DEF Fine
<1>14. Fragment \subseteq Fragment \cap Fragment /\ Fragment \cap Fragment # {}
  BY DEF Fragment
<1>15. Fine(t[14], "read", ThisFrame, Fragment, Fragment, {})
  <2>1. Reads(Tonemap(f), w, "read", ThisFrame, Fragment)
    BY <1>4, TonemapReads
  <2> QED
    BY <1>1, <1>13, <1>14, <2>1, ReadsKeep DEF Trace
<1>16. Fine(t[18], "read", ThisFrame, Fragment, Fragment, {})
  BY <1>1, <1>3, <1>15, FineStays DEF Trace
<1> QED
  BY <1>1, <1>14, <1>16, FineMoves DEF w

LEMMA DebugFrame ==
  ASSUME NEW f, IsFrame(f), NEW r, Movable(r, Fragment)
  PROVE  Movable(Run(r, "debug", Record(f)), Fragment)
<1> DEFINE w == "debug"
<1>1. PICK t : Trace(t, r, w, f) /\ t[18] = Run(r, w, Record(f))
  BY RecordRuns
<1>2. w \notin Range(Level) /\ w # "memory"
  BY NamesDiffer DEF Singles, Screen, Buffers
<1>3. /\ Quiet(Only(f.lands, TextureUpload), w) /\ Quiet(Entry(f), w) /\ Quiet(Shadows(f), w)
      /\ Quiet(GBuffer(f), w) /\ Quiet(Readable(f), w) /\ Quiet(Sky(f), w)
      /\ Quiet(Clusters, w) /\ Quiet(Lighting(f), w) /\ Quiet(Atmosphere(f), w)
      /\ Quiet(Taa(f), w) /\ Quiet(Exposure(f), w) /\ Quiet(Tonemap(f), w)
      /\ Quiet(DebugDraw(f), w) /\ Quiet(Captured(f), w) /\ Quiet(Present(f), w)
  BY <1>2, PartsQuiet DEF Ui
<1> HIDE DEF w
<1>4. Movable(t[11], Fragment)
  <2>1. Movable(t[4], Fragment)
    BY <1>1, <1>3, MovableStays DEF Trace
  <2>2. Movable(t[8], Fragment)
    BY <1>1, <1>3, <2>1, MovableStays DEF Trace
  <2> QED
    BY <1>1, <1>3, <2>2, MovableStays DEF Trace
<1>5. CASE ~f.windows
  <2>1. Quiet(DebugViews(f), w)
    BY <1>5, ReadsNone DEF Quiet, DebugViews, Only
  <2>2. Quiet(Handoff(f), w)
    BY <1>5, HistoryNames, HandoffQuiet DEF w
  <2>3. Quiet(Overlay(f), w)
    <3>1. Quiet(UiUpload(f), w) /\ Quiet(OverlayDraw(f), w)
      BY <1>5, UiUploadQuiet, OverlayDrawReads DEF w, Ui
    <3> QED
      BY <3>1, OverlayIs, ReadsJoin DEF Quiet
  <2>4. Movable(t[13], Fragment)
    <3>1. Movable(t[12], Fragment)
      BY <1>1, <1>4, <2>1, MovableStays DEF Trace
    <3> QED
      BY <1>1, <2>2, <3>1, MovableStays DEF Trace
  <2>5. Movable(t[15], Fragment)
    BY <1>1, <1>3, <2>4, MovableStays DEF Trace
  <2>6. Movable(t[16], Fragment)
    BY <1>1, <2>3, <2>5, MovableStays DEF Trace
  <2> QED
    BY <1>1, <1>3, <2>6, MovableStays DEF Trace, w
<1>6. CASE f.windows
  <2>1. Wrote(t[12], "general", {"now"}, "compute")
    BY <1>1, <1>4, <1>6, DebugViewsMakes DEF Trace, w
  <2>2. Fine(t[13], "read", {"now"}, Fragment, {}, Stages)
    BY <1>1, <1>6, <2>1, HandoffMoves DEF Trace, w
  <2>3. Fine(t[13], "read", ThisFrame, Fragment, Fragment, {})
    BY <2>2 DEF Fine, ThisFrame
  <2>4. Fine(t[15], "read", ThisFrame, Fragment, Fragment, {})
    BY <1>1, <1>3, <2>3, FineStays DEF Trace
  <2>5. Reads(Overlay(f), w, "read", ThisFrame, Fragment)
    <3>1. Quiet(UiUpload(f), w) /\ Reads(OverlayDraw(f), w, "read", ThisFrame, Fragment)
      BY UiUploadQuiet, OverlayDrawReads DEF w, Ui
    <3> QED
      BY <3>1, OverlayIs, QuietReads, ReadsJoin
  <2>6. Fragment \subseteq Fragment \cap Fragment /\ Fragment \cap Fragment # {}
    BY DEF Fragment
  <2>7. Fine(t[16], "read", ThisFrame, Fragment, Fragment, {})
    BY <1>1, <2>4, <2>5, <2>6, ReadsKeep DEF Trace
  <2>8. Fine(t[18], "read", ThisFrame, Fragment, Fragment, {})
    BY <1>1, <1>3, <2>7, FineStays DEF Trace
  <2> QED
    BY <1>1, <2>6, <2>8, FineMoves DEF w
<1> QED
  BY <1>5, <1>6

LEMMA ClustersFrame ==
  ASSUME NEW f, IsFrame(f), NEW r, NEW holds, Fine(r, "buffer", holds, Compute, Compute, {})
  PROVE  Fine(Run(r, "clusters", Record(f)), "buffer", ThisFrame, Compute, Compute, {})
<1> DEFINE w == "clusters"
<1>1. PICK t : Trace(t, r, w, f) /\ t[18] = Run(r, w, Record(f))
  BY RecordRuns
<1>2. w \notin Range(Level) /\ w # "memory"
  BY NamesDiffer DEF Singles, Screen, Buffers
<1>3. /\ Quiet(Only(f.lands, TextureUpload), w) /\ Quiet(Entry(f), w) /\ Quiet(Shadows(f), w)
      /\ Quiet(GBuffer(f), w) /\ Quiet(Sky(f), w) /\ Quiet(Atmosphere(f), w)
      /\ Quiet(Taa(f), w) /\ Quiet(Exposure(f), w) /\ Quiet(Handoff(f), w)
      /\ Quiet(Tonemap(f), w) /\ Quiet(DebugDraw(f), w) /\ Quiet(Overlay(f), w)
      /\ Quiet(Captured(f), w) /\ Quiet(Present(f), w)
  BY <1>2, PartsQuiet DEF Ui
<1>4. /\ Reads(Lighting(f), w, "buffer", ThisFrame, Compute)
      /\ Reads(DebugViews(f), w, "buffer", ThisFrame, Compute)
  BY LightingReads, DebugViewsReads
<1> HIDE DEF w
<1>5. Fine(t[4], "buffer", holds, Compute, Compute, {})
  BY <1>1, <1>3, FineStays DEF Trace
<1>6. Fine(t[6], "buffer", holds, Compute, Compute, Compute)
  <2>1. Fine(t[5], "buffer", holds, Compute, Compute, Compute)
    BY <1>1, <1>5, ReadableMoves DEF Trace, w
  <2> QED
    BY <1>1, <1>3, <2>1, FineStays DEF Trace
<1>7. Fine(t[7], "buffer", {"now"}, Compute, {}, Stages)
  BY <1>1, <1>6, ClustersMade DEF Trace, w
<1>8. Fine(t[7], "buffer", ThisFrame, Compute, Compute, {})
  BY <1>7 DEF Fine, ThisFrame
<1>9. Compute \subseteq Compute \cap Compute
  OBVIOUS
<1>10. Fine(t[8], "buffer", ThisFrame, Compute, Compute, {})
  BY <1>1, <1>4, <1>8, <1>9, ReadsKeep DEF Trace
<1>11. Fine(t[11], "buffer", ThisFrame, Compute, Compute, {})
  BY <1>1, <1>3, <1>10, FineStays DEF Trace
<1>12. Fine(t[12], "buffer", ThisFrame, Compute, Compute, {})
  BY <1>1, <1>4, <1>9, <1>11, ReadsKeep DEF Trace
<1>13. Fine(t[18], "buffer", ThisFrame, Compute, Compute, {})
  BY <1>1, <1>3, <1>12, FineStays DEF Trace
<1> QED
  BY <1>1, <1>13 DEF w

LEMMA AmbientFrame ==
  ASSUME NEW f, IsFrame(f), NEW r, NEW holds, Fine(r, "buffer", holds, Compute, Compute, {})
  PROVE  Fine(Run(r, "ambient", Record(f)), "buffer", holds \cup ThisFrame, Compute, Compute, {})
<1> DEFINE w == "ambient"
<1>1. PICK t : Trace(t, r, w, f) /\ t[18] = Run(r, w, Record(f))
  BY RecordRuns
<1>2. w \notin Range(Level) /\ w # "memory"
  BY NamesDiffer DEF Singles, Screen, Buffers
<1>3. /\ Quiet(Only(f.lands, TextureUpload), w) /\ Quiet(Entry(f), w) /\ Quiet(Shadows(f), w)
      /\ Quiet(GBuffer(f), w) /\ Quiet(Readable(f), w) /\ Quiet(Atmosphere(f), w)
      /\ Quiet(Taa(f), w) /\ Quiet(Exposure(f), w) /\ Quiet(DebugViews(f), w)
      /\ Quiet(Handoff(f), w) /\ Quiet(Tonemap(f), w) /\ Quiet(DebugDraw(f), w)
      /\ Quiet(Overlay(f), w) /\ Quiet(Captured(f), w) /\ Quiet(Present(f), w)
  BY <1>2, PartsQuiet DEF Ui
<1>4. w \notin {"clusters", "hdr"} /\ w # "memory"
  OBVIOUS
<1>5. Fine(t[5], "buffer", holds, Compute, Compute, {})
  <2> HIDE DEF w
  <2> QED
    BY <1>1, <1>3, FineStays DEF Trace
<1>6. CASE f.air = NoAir
  <2>1. Quiet(Sky(f), w) /\ Quiet(Clusters, w) /\ Quiet(Lighting(f), w)
    <3>1. Quiet(Sky(f), w)
      BY <1>6, ReadsNone DEF Quiet, Sky, Only
    <3>2. Quiet(Clusters, w)
      BY <1>4, ClustersQuiet
    <3>3. Quiet(Lighting(f), w)
      BY <1>4, <1>6, LightingReads
    <3> QED
      BY <3>1, <3>2, <3>3
  <2> HIDE DEF w
  <2>2. Fine(t[8], "buffer", holds, Compute, Compute, {})
    BY <1>1, <1>5, <2>1, FineStays DEF Trace
  <2>3. Fine(t[18], "buffer", holds, Compute, Compute, {})
    BY <1>1, <1>3, <2>2, FineStays DEF Trace
  <2> QED
    BY <1>1, <2>3 DEF w, Fine
<1>7. CASE f.air # NoAir
  <2>1. Reads(Lighting(f), w, "buffer", ThisFrame, Compute)
    BY LightingReads
  <2> HIDE DEF w
  <2>2. Wrote(t[6], "buffer", {"now"}, "compute")
    BY <1>1, <1>5, <1>7, AmbientMade DEF Trace, w
  <2>3. Fine(t[7], "buffer", {"now"}, Compute, {}, Stages)
    <3> DEFINE uses == {Write("compute", "clusters", "buffer", "now")}
               q == After(t[6], w, Pass(uses))
    <3>1. t[7] = After(q, w, Barrier({ComputeToCompute(TRUE)}))
      BY <1>1, RunTwo DEF Trace, Clusters
    <3>2. \A a \in uses : a.of # w
      BY <1>4 DEF Write
    <3> HIDE DEF uses
    <3>3. q = t[6]
      BY <2>2, <3>2, OthersPass DEF Wrote
    <3> HIDE DEF q
    <3> QED
      BY <1>4, <2>2, <3>1, <3>3, ComputeFlushes
  <2>4. Fine(t[7], "buffer", ThisFrame, Compute, Compute, {})
    BY <2>3 DEF Fine, ThisFrame
  <2>5. Compute \subseteq Compute \cap Compute
    OBVIOUS
  <2>6. Fine(t[8], "buffer", ThisFrame, Compute, Compute, {})
    BY <1>1, <2>1, <2>4, <2>5, ReadsKeep DEF Trace
  <2>7. Fine(t[18], "buffer", ThisFrame, Compute, Compute, {})
    BY <1>1, <1>3, <2>6, FineStays DEF Trace
  <2> QED
    BY <1>1, <2>7 DEF w, Fine
<1> QED
  BY <1>6, <1>7

LEMMA HistogramFrame ==
  ASSUME NEW f, IsFrame(f), NEW r,
         \/ Wrote(r, "buffer", {"zeroed"}, "compute")
         \/ Fine(r, "buffer", {"zeroed"}, Compute, {}, Stages)
  PROVE  Wrote(Run(r, "histogram", Record(f)), "buffer", {"zeroed"}, "compute")
<1> DEFINE w == "histogram"
<1>1. PICK t : Trace(t, r, w, f) /\ t[18] = Run(r, w, Record(f))
  BY RecordRuns
<1>2. w \notin Range(Level) /\ w # "memory"
  BY NamesDiffer DEF Singles, Screen, Buffers
<1>3. /\ Quiet(Only(f.lands, TextureUpload), w) /\ Quiet(Entry(f), w) /\ Quiet(Shadows(f), w)
      /\ Quiet(GBuffer(f), w) /\ Quiet(Readable(f), w) /\ Quiet(Sky(f), w)
      /\ Quiet(DebugViews(f), w) /\ Quiet(Handoff(f), w) /\ Quiet(Tonemap(f), w)
      /\ Quiet(DebugDraw(f), w) /\ Quiet(Overlay(f), w) /\ Quiet(Captured(f), w)
      /\ Quiet(Present(f), w)
  BY <1>2, PartsQuiet DEF Ui
<1>4. w \notin {"exposure", "memory", "hdr", "clusters"}
  OBVIOUS
<1> DEFINE q == After(t[10], w, Barrier(Meters(f)))
<1>5. Quiet(Clusters, w) /\ Quiet(Lighting(f), w)
  BY PartsQuiet
<1>6. \/ Wrote(t[8], "buffer", {"zeroed"}, "compute")
      \/ Fine(t[8], "buffer", {"zeroed"}, Compute, {}, Stages)
  <2> HIDE DEF w
  <2>1. CASE Wrote(r, "buffer", {"zeroed"}, "compute")
    <3>1. Wrote(t[6], "buffer", {"zeroed"}, "compute")
      BY <1>1, <1>3, <2>1, WroteStays DEF Trace
    <3> QED
      BY <1>1, <1>5, <3>1, WroteStays DEF Trace
  <2>2. CASE Fine(r, "buffer", {"zeroed"}, Compute, {}, Stages)
    <3>1. Fine(t[6], "buffer", {"zeroed"}, Compute, {}, Stages)
      BY <1>1, <1>3, <2>2, FineStays DEF Trace
    <3> QED
      BY <1>1, <1>5, <3>1, FineStays DEF Trace
  <2> QED
    BY <2>1, <2>2 DEF w
<1>7. Quiet(Atmosphere(f), w) /\ Quiet(Taa(f), w)
  BY PartsQuiet
<1>8. \/ Wrote(t[10], "buffer", {"zeroed"}, "compute")
      \/ Fine(t[10], "buffer", {"zeroed"}, Compute, {}, Stages)
  <2> HIDE DEF w
  <2>1. CASE Wrote(t[8], "buffer", {"zeroed"}, "compute")
    BY <1>1, <1>7, <2>1, WroteStays DEF Trace
  <2>2. CASE Fine(t[8], "buffer", {"zeroed"}, Compute, {}, Stages)
    BY <1>1, <1>7, <2>2, FineStays DEF Trace
  <2> QED
    BY <1>6, <2>1, <2>2
<1>9. Fine(q, "buffer", {"zeroed"}, Compute, {}, Stages)
  <2> HIDE DEF w
  <2>1. /\ \A e \in Meters(f) : e.of # w /\ e.dst \subseteq Stages
        /\ Memory(Compute, Compute, TRUE) \in Meters(f)
    BY <1>4, MetersFlush
  <2>2. CASE Wrote(t[10], "buffer", {"zeroed"}, "compute")
    BY <1>4, <2>1, <2>2, InStages, MemoryFlushes
  <2>3. CASE Fine(t[10], "buffer", {"zeroed"}, Compute, {}, Stages)
    <3>1. AtLeast(q, t[10])
      BY <2>1, <2>3, OthersBarrier DEF Fine
    <3> QED
      BY <2>3, <3>1, LeastKeeps
  <2> QED
    BY <1>8, <2>2, <2>3
<1>10. Wrote(t[11], "buffer", {"zeroed"}, "compute")
  BY <1>1, <1>9, HistogramTurns DEF Trace
<1> HIDE DEF w
<1>11. Wrote(t[18], "buffer", {"zeroed"}, "compute")
  BY <1>1, <1>3, <1>10, WroteStays DEF Trace
<1> QED
  BY <1>1, <1>11 DEF w

\* The buffer is idle when it is copied to, and read when the copy is done.
LEMMA CaptureFrame ==
  ASSUME NEW f, IsFrame(f), NEW r, NEW holds, Fine(r, "buffer", holds, Stages, {}, Stages)
  PROVE  /\ IsState(Run(r, "capture", Record(f))) /\ Run(r, "capture", Record(f)).faults = {}
         /\ Run(r, "capture", Record(f)).layout = "buffer"
<1> DEFINE w == "capture"
<1>1. PICK t : Trace(t, r, w, f) /\ t[18] = Run(r, w, Record(f))
  BY RecordRuns
<1>2. w \notin Range(Level) /\ w # "memory"
  BY NamesDiffer DEF Singles, Screen, Buffers
<1>3. /\ Quiet(Only(f.lands, TextureUpload), w) /\ Quiet(Entry(f), w) /\ Quiet(Shadows(f), w)
      /\ Quiet(GBuffer(f), w) /\ Quiet(Readable(f), w) /\ Quiet(Sky(f), w)
      /\ Quiet(Clusters, w) /\ Quiet(Lighting(f), w) /\ Quiet(Atmosphere(f), w)
      /\ Quiet(Taa(f), w) /\ Quiet(Exposure(f), w) /\ Quiet(DebugViews(f), w)
      /\ Quiet(Handoff(f), w) /\ Quiet(Tonemap(f), w) /\ Quiet(DebugDraw(f), w)
      /\ Quiet(Overlay(f), w) /\ Quiet(Present(f), w)
  BY <1>2, PartsQuiet DEF Ui
<1> HIDE DEF w
<1>4. Fine(t[16], "buffer", holds, Stages, {}, Stages)
  <2>1. Fine(t[8], "buffer", holds, Stages, {}, Stages)
    BY <1>1, <1>3, FineStays DEF Trace
  <2> QED
    BY <1>1, <1>3, <2>1, FineStays DEF Trace
<1>5. CASE f.capture
  <2>1. Fine(t[17], "buffer", ThisFrame, {"host"}, {"host"}, {})
    BY <1>1, <1>4, <1>5, CapturedMoves DEF Trace, w
  <2>2. Fine(t[18], "buffer", ThisFrame, {"host"}, {"host"}, {})
    BY <1>1, <1>3, <2>1, FineStays DEF Trace
  <2> QED
    BY <1>1, <2>2 DEF w, Fine
<1>6. CASE ~f.capture
  <2>1. Quiet(Captured(f), w)
    BY <1>6, CapturedQuiet
  <2>2. Fine(t[17], "buffer", holds, Stages, {}, Stages)
    BY <1>1, <1>4, <2>1, FineStays DEF Trace
  <2>3. Fine(t[18], "buffer", holds, Stages, {}, Stages)
    BY <1>1, <1>3, <2>2, FineStays DEF Trace
  <2> QED
    BY <1>1, <2>3 DEF w, Fine
<1> QED
  BY <1>5, <1>6

LEMMA TargetFrame ==
  ASSUME NEW f, IsFrame(f), NEW r, Movable(r, Colour)
  PROVE  /\ IsState(Run(r, "target", Record(f)))
         /\ Run(r, "target", Record(f)).faults = {}
<1> DEFINE w == "target"
<1>1. PICK t : Trace(t, r, w, f) /\ t[18] = Run(r, w, Record(f))
  BY RecordRuns
<1>2. w \notin Range(Level) /\ w # "memory"
  BY NamesDiffer DEF Singles, Screen, Buffers
<1>3. /\ Quiet(Only(f.lands, TextureUpload), w) /\ Quiet(Entry(f), w) /\ Quiet(Shadows(f), w)
      /\ Quiet(GBuffer(f), w) /\ Quiet(Readable(f), w) /\ Quiet(Sky(f), w)
      /\ Quiet(Clusters, w) /\ Quiet(Lighting(f), w) /\ Quiet(Atmosphere(f), w)
      /\ Quiet(Taa(f), w) /\ Quiet(Exposure(f), w) /\ Quiet(DebugViews(f), w)
  BY <1>2, PartsQuiet DEF Ui
<1>4. Movable(t[12], Colour)
  <2> HIDE DEF w
  <2>1. Movable(t[6], Colour)
    BY <1>1, <1>3, MovableStays DEF Trace
  <2> QED
    BY <1>1, <1>3, <2>1, MovableStays DEF Trace
<1>5. Fine(t[13], "colour", {"nothing"}, Colour, {}, Stages)
  BY <1>1, <1>4, HandoffMoves DEF Trace
<1>6. Wrote(t[14], "colour", {"now"}, "colour")
  BY <1>1, <1>5, TonemapWrites DEF Trace
<1>7. Wrote(t[15], "colour", {"now"}, "colour")
  BY <1>1, <1>6, DebugDrawsOver DEF Trace
<1>8. Wrote(t[16], "colour", {"now"}, "colour")
  BY <1>1, <1>7, OverlayDrawsOver DEF Trace
<1>9. CASE f.capture
  <2>1. Fine(t[17], "src", ThisFrame, Copy, Copy, {})
    BY <1>1, <1>8, <1>9, CapturedMoves DEF Trace
  <2>2. Fine(t[18], "present", ThisFrame, {}, {}, Stages)
    BY <1>1, <1>9, <2>1, PresentMoves DEF Trace
  <2> QED
    BY <1>1, <2>2 DEF Fine
<1>10. CASE ~f.capture
  <2>1. Wrote(t[17], "colour", {"now"}, "colour")
    <3>1. Quiet(Captured(f), w)
      BY <1>10, CapturedQuiet
    <3> QED
      BY <1>1, <1>8, <3>1, WroteStays DEF Trace
  <2>2. Fine(t[18], "present", {"now"}, {}, {}, Stages)
    BY <1>1, <1>10, <2>1, PresentMoves DEF Trace
  <2> QED
    BY <1>1, <2>2 DEF Fine
<1> QED
  BY <1>9, <1>10

\* The history that this frame makes.
LEMMA HistoryFrame ==
  ASSUME NEW f, IsFrame(f), NEW r, f.taa, Movable(r, Samplers)
  PROVE  Fine(Run(r, History[f.write], Record(f)), "read", ThisFrame, Samplers, Samplers, {})
<1> DEFINE w == History[f.write]
<1>1. PICK t : Trace(t, r, w, f) /\ t[18] = Run(r, w, Record(f))
  BY RecordRuns
<1>2. w \notin Range(Level) /\ w # "memory"
  <2>1. w \in {"history_0", "history_1"}
    BY HistoryNames
  <2> QED
    BY <2>1, NamesDiffer DEF Singles, Screen, Buffers
<1>3. /\ Quiet(Only(f.lands, TextureUpload), w) /\ Quiet(Entry(f), w) /\ Quiet(Shadows(f), w)
      /\ Quiet(GBuffer(f), w) /\ Quiet(Readable(f), w) /\ Quiet(Sky(f), w)
      /\ Quiet(Clusters, w) /\ Quiet(Lighting(f), w) /\ Quiet(Atmosphere(f), w)
      /\ Quiet(DebugViews(f), w) /\ Quiet(DebugDraw(f), w) /\ Quiet(Overlay(f), w)
      /\ Quiet(Captured(f), w) /\ Quiet(Present(f), w)
  <2>1. w \in {"history_0", "history_1"} /\ w # Ui
    BY HistoryNames DEF Ui
  <2> HIDE DEF w
  <2> QED
    BY <1>2, <2>1, PartsQuiet
<1>4. w \in {"history_0", "history_1"} /\ History[1 - f.write] # History[f.write]
  BY HistoryAre, HistoryNames DEF IsFrame
<1>5. Movable(t[9], Samplers)
  <2> HIDE DEF w
  <2>1. Movable(t[4], Samplers)
    BY <1>1, <1>3, MovableStays DEF Trace
  <2> QED
    BY <1>1, <1>3, <2>1, MovableStays DEF Trace
<1>6. Wrote(t[10], "general", {"now"}, "compute")
  BY <1>1, <1>5, HistoryMade DEF Trace
<1>7. w = Lit(f) /\ w \notin {"exposure", "histogram", "memory", "target"}
  BY <1>4 DEF Lit
<1>8. Fine(t[11], "general", ThisFrame, Compute, Compute, {})
  <2> HIDE DEF w
  <2> QED
    BY <1>1, <1>6, <1>7, ExposureReadsLit DEF Trace
<1>9. Fine(t[12], "general", ThisFrame, Compute, Compute, {})
  <2> HIDE DEF w
  <2> QED
    BY <1>1, <1>3, <1>8, FineStays DEF Trace
<1>10. Fine(t[13], "read", ThisFrame, Samplers, {}, Stages)
  BY <1>1, <1>9, HandoffMoves DEF Trace
<1>11. Fine(t[13], "read", ThisFrame, Samplers, Samplers, {})
  BY <1>10 DEF Fine
<1>12. Fragment \subseteq Samplers \cap Samplers
  BY DEF Fragment, Samplers
<1> HIDE DEF w
<1>13. Fine(t[14], "read", ThisFrame, Samplers, Samplers, {})
  <2>1. Reads(Tonemap(f), w, "read", ThisFrame, Fragment)
    BY <1>7, TonemapReads
  <2> QED
    BY <1>1, <1>11, <1>12, <2>1, ReadsKeep DEF Trace
<1>14. Fine(t[18], "read", ThisFrame, Samplers, Samplers, {})
  BY <1>1, <1>3, <1>13, FineStays DEF Trace
<1> QED
  BY <1>1, <1>14 DEF w

\* And the other, the last frame's if there is one.
LEMMA OtherHistoryFrame ==
  ASSUME NEW f, IsFrame(f), NEW r, f.taa,
         IF f.valid THEN Fine(r, "read", LastFrame, Samplers, Samplers, {})
         ELSE Movable(r, Samplers)
  PROVE  Movable(Run(r, History[1 - f.write], Record(f)), Samplers)
<1> DEFINE w == History[1 - f.write]
<1>1. PICK t : Trace(t, r, w, f) /\ t[18] = Run(r, w, Record(f))
  BY RecordRuns
<1>2. w \notin Range(Level) /\ w # "memory"
  <2>1. w \in {"history_0", "history_1"}
    BY HistoryNames
  <2> QED
    BY <2>1, NamesDiffer DEF Singles, Screen, Buffers
<1>3. /\ Quiet(Only(f.lands, TextureUpload), w) /\ Quiet(Entry(f), w) /\ Quiet(Shadows(f), w)
      /\ Quiet(GBuffer(f), w) /\ Quiet(Readable(f), w) /\ Quiet(Sky(f), w)
      /\ Quiet(Clusters, w) /\ Quiet(Lighting(f), w) /\ Quiet(Atmosphere(f), w)
      /\ Quiet(DebugViews(f), w) /\ Quiet(DebugDraw(f), w) /\ Quiet(Overlay(f), w)
      /\ Quiet(Captured(f), w) /\ Quiet(Present(f), w)
  <2>1. w \in {"history_0", "history_1"} /\ w # Ui
    BY HistoryNames DEF Ui
  <2> HIDE DEF w
  <2> QED
    BY <1>2, <2>1, PartsQuiet
<1>4. w \in {"history_0", "history_1"} /\ History[1 - f.write] # History[f.write]
  BY HistoryAre, HistoryNames DEF IsFrame
<1>5. w \notin {"hdr", "target", "exposure", "debug", "gbuffer", "depth", "histogram", "memory"}
  BY <1>4
<1>6. w # Lit(f) /\ w # History[f.write]
  BY <1>4 DEF Lit
<1>7. Quiet(Exposure(f), w) /\ Quiet(Handoff(f), w) /\ Quiet(Tonemap(f), w)
  <2> HIDE DEF w
  <2>1. Quiet(Exposure(f), w)
    BY <1>5, <1>6, ExposureReads
  <2>2. Quiet(Handoff(f), w)
    BY <1>5, <1>6, HandoffQuiet
  <2>3. Quiet(Tonemap(f), w)
    BY <1>5, <1>6, TonemapReads
  <2> QED
    BY <2>1, <2>2, <2>3
<1>8. Compute \subseteq Samplers \cap Samplers /\ Samplers \cap Samplers # {}
      /\ Compute \cap Samplers # {}
  BY DEF Compute, Samplers
<1>9. CASE f.valid
  <2>1. Reads(Taa(f), w, "read", LastFrame, Compute)
    BY <1>5, <1>6, <1>9, TaaReads DEF IsFrame
  <2> HIDE DEF w
  <2>2. Fine(t[9], "read", LastFrame, Samplers, Samplers, {})
    <3>1. Fine(t[4], "read", LastFrame, Samplers, Samplers, {})
      BY <1>1, <1>3, <1>9, FineStays DEF Trace
    <3> QED
      BY <1>1, <1>3, <3>1, FineStays DEF Trace
  <2>3. Fine(t[10], "read", LastFrame, Samplers, Samplers, {})
    BY <1>1, <1>8, <2>1, <2>2, ReadsKeep DEF Trace
  <2>4. Fine(t[14], "read", LastFrame, Samplers, Samplers, {})
    BY <1>1, <1>3, <1>7, <2>3, FineStays DEF Trace
  <2>5. Fine(t[18], "read", LastFrame, Samplers, Samplers, {})
    BY <1>1, <1>3, <2>4, FineStays DEF Trace
  <2> QED
    BY <1>1, <1>8, <2>5, FineMoves DEF w
<1>10. CASE ~f.valid
  <2>1. Movable(t[9], Samplers)
    <3> HIDE DEF w
    <3>1. Movable(t[4], Samplers)
      BY <1>1, <1>3, <1>10, MovableStays DEF Trace
    <3> QED
      BY <1>1, <1>3, <3>1, MovableStays DEF Trace
  <2>2. Fine(t[10], "read", {"nothing"}, Compute, {}, Stages)
    BY <1>1, <1>10, <2>1, OtherHistory DEF Trace
  <2> HIDE DEF w
  <2>3. Fine(t[14], "read", {"nothing"}, Compute, {}, Stages)
    BY <1>1, <1>3, <1>7, <2>2, FineStays DEF Trace
  <2>4. Fine(t[18], "read", {"nothing"}, Compute, {}, Stages)
    BY <1>1, <1>3, <2>3, FineStays DEF Trace
  <2> QED
    BY <1>1, <1>8, <2>4, FineMoves DEF w
<1> QED
  BY <1>9, <1>10

\* Without TAA neither history is touched.
LEMMA HistoriesRest ==
  ASSUME NEW f, IsFrame(f), ~f.taa, NEW r, NEW w \in {"history_0", "history_1"},
         Movable(r, Samplers)
  PROVE  Movable(Run(r, w, Record(f)), Samplers)
<1>1. PICK t : Trace(t, r, w, f) /\ t[18] = Run(r, w, Record(f))
  BY RecordRuns
<1>2. w \notin Range(Level) /\ w # "memory"
  BY NamesDiffer DEF Singles, Screen, Buffers
<1>3. /\ Quiet(Only(f.lands, TextureUpload), w) /\ Quiet(Entry(f), w) /\ Quiet(Shadows(f), w)
      /\ Quiet(GBuffer(f), w) /\ Quiet(Readable(f), w) /\ Quiet(Sky(f), w)
      /\ Quiet(Clusters, w) /\ Quiet(Lighting(f), w) /\ Quiet(Atmosphere(f), w)
      /\ Quiet(DebugViews(f), w) /\ Quiet(DebugDraw(f), w) /\ Quiet(Overlay(f), w)
      /\ Quiet(Captured(f), w) /\ Quiet(Present(f), w)
  <2>1. w # Ui
    BY DEF Ui
  <2> QED
    BY <1>2, <2>1, PartsQuiet
<1>4. Quiet(Taa(f), w) /\ Quiet(Exposure(f), w) /\ Quiet(Handoff(f), w) /\ Quiet(Tonemap(f), w)
  <2>1. Quiet(Taa(f), w)
    BY ReadsNone DEF Quiet, Taa, Only
  <2>2. w \notin {"exposure", "histogram", "memory", "target", "hdr", "debug"} /\ w # Lit(f)
    BY DEF Lit
  <2>3. Quiet(Exposure(f), w)
    BY <2>2, ExposureReads
  <2>4. Quiet(Handoff(f), w)
    BY <2>2, HandoffQuiet
  <2>5. Quiet(Tonemap(f), w)
    BY <2>2, TonemapReads
  <2> QED
    BY <2>1, <2>3, <2>4, <2>5
<1>5. Movable(t[4], Samplers)
  BY <1>1, <1>3, MovableStays DEF Trace
<1>6. Movable(t[9], Samplers)
  BY <1>1, <1>3, <1>5, MovableStays DEF Trace
<1>7. Movable(t[14], Samplers)
  BY <1>1, <1>3, <1>4, <1>6, MovableStays DEF Trace
<1>8. Movable(t[18], Samplers)
  BY <1>1, <1>3, <1>7, MovableStays DEF Trace
<1> QED
  BY <1>1, <1>8

LEMMA ExposureFrame ==
  ASSUME NEW f, IsFrame(f), NEW r,
         \/ f.exposed /\ Fine(r, "read", {"last"}, Samplers, Samplers, {})
         \/ ~f.exposed /\ Movable(r, Samplers)
  PROVE  Fine(Run(r, "exposure", Record(f)), "read", ThisFrame, Samplers, Samplers, {})
<1> DEFINE w == "exposure"
<1>1. PICK t : Trace(t, r, w, f) /\ t[18] = Run(r, w, Record(f))
  BY RecordRuns
<1>2. w \notin Range(Level) /\ w # "memory"
  BY NamesDiffer DEF Singles, Screen, Buffers
<1>3. /\ Quiet(Only(f.lands, TextureUpload), w) /\ Quiet(Entry(f), w) /\ Quiet(Shadows(f), w)
      /\ Quiet(GBuffer(f), w) /\ Quiet(Readable(f), w) /\ Quiet(Sky(f), w)
      /\ Quiet(Clusters, w) /\ Quiet(Lighting(f), w) /\ Quiet(Atmosphere(f), w)
      /\ Quiet(DebugViews(f), w) /\ Quiet(DebugDraw(f), w) /\ Quiet(Overlay(f), w)
      /\ Quiet(Captured(f), w) /\ Quiet(Present(f), w)
  BY <1>2, PartsQuiet DEF Ui
<1>4. \/ f.exposed /\ Fine(t[9], "read", {"last"}, Samplers, Samplers, {})
      \/ ~f.exposed /\ Movable(t[9], Samplers)
  <2> HIDE DEF w
  <2>1. CASE f.exposed
    <3>1. Fine(r, "read", {"last"}, Samplers, Samplers, {})
      BY <2>1
    <3>2. Fine(t[4], "read", {"last"}, Samplers, Samplers, {})
      BY <1>1, <1>3, <3>1, FineStays DEF Trace
    <3>3. Fine(t[9], "read", {"last"}, Samplers, Samplers, {})
      BY <1>1, <1>3, <3>2, FineStays DEF Trace
    <3> QED
      BY <2>1, <3>3
  <2>2. CASE ~f.exposed
    <3>1. Movable(r, Samplers)
      BY <2>2
    <3>2. Movable(t[4], Samplers)
      BY <1>1, <1>3, <3>1, MovableStays DEF Trace
    <3>3. Movable(t[9], Samplers)
      BY <1>1, <1>3, <3>2, MovableStays DEF Trace
    <3> QED
      BY <2>2, <3>3
  <2> QED
    BY <2>1, <2>2
<1>5. Fragment \subseteq Samplers \cap Samplers /\ Compute \subseteq Samplers \cap Samplers
  BY DEF Fragment, Samplers, Compute
<1>6. w \notin {"memory", "hdr", "gbuffer", "depth", "target"}
      /\ w # History[f.write] /\ w # History[1 - f.write]
  BY HistoryNames
<1>7. \/ f.exposed /\ Fine(t[10], "read", {"last"}, Samplers, Samplers, {})
      \/ ~f.exposed /\ Movable(t[10], Samplers)
  <2>1. CASE f.exposed
    <3>1. Reads(Taa(f), w, "read", LastFrame, Compute)
      BY <1>6, TaaReads DEF IsFrame
    <3>2. LastFrame = {"last"}
      BY DEF LastFrame
    <3>3. Fine(t[9], "read", {"last"}, Samplers, Samplers, {})
      BY <1>4, <2>1
    <3> HIDE DEF w
    <3>4. Fine(t[10], "read", {"last"}, Samplers, Samplers, {})
      BY <1>1, <1>5, <3>1, <3>2, <3>3, ReadsKeep DEF Trace
    <3> QED
      BY <2>1, <3>4
  <2>2. CASE ~f.exposed
    <3>1. Quiet(Taa(f), w)
      BY <1>6, <2>2, TaaReads DEF IsFrame
    <3>2. Movable(t[9], Samplers)
      BY <1>4, <2>2
    <3> HIDE DEF w
    <3>3. Movable(t[10], Samplers)
      BY <1>1, <3>1, <3>2, MovableStays DEF Trace
    <3> QED
      BY <2>2, <3>3
  <2> QED
    BY <2>1, <2>2
<1>8. Wrote(t[11], "general", {"now"}, "compute")
  BY <1>1, <1>7, ExposureMade DEF Trace
<1> HIDE DEF w
<1>9. Wrote(t[12], "general", {"now"}, "compute")
  BY <1>1, <1>3, <1>8, WroteStays DEF Trace
<1>10. Fine(t[13], "read", {"now"}, Samplers, {}, Stages)
  BY <1>1, <1>9, HandoffMoves DEF Trace, w
<1>11. Fine(t[13], "read", ThisFrame, Samplers, Samplers, {})
  BY <1>10 DEF Fine, ThisFrame
<1>12. Fine(t[14], "read", ThisFrame, Samplers, Samplers, {})
  <2>1. Reads(Tonemap(f), w, "read", ThisFrame, Fragment)
    BY <1>6, TonemapReads
  <2> QED
    BY <1>1, <1>5, <1>11, <2>1, ReadsKeep DEF Trace
<1>13. Fine(t[18], "read", ThisFrame, Samplers, Samplers, {})
  BY <1>1, <1>3, <1>12, FineStays DEF Trace
<1> QED
  BY <1>1, <1>13 DEF w

LEMMA LutFrame ==
  ASSUME NEW f, IsFrame(f), NEW r, NEW w \in LutTable, LutBefore(r, f.lut)
  PROVE  LutBefore(Run(r, w, Record(f)), IF f.air # NoAir THEN f.air ELSE f.lut)
<1>1. PICK t : Trace(t, r, w, f) /\ t[18] = Run(r, w, Record(f))
  BY RecordRuns
<1>2. w \notin Range(Level) /\ w \notin {"memory", "hdr"}
  BY NamesDiffer DEF Singles, Screen, Buffers, LutTable
<1>3. /\ Quiet(Only(f.lands, TextureUpload), w) /\ Quiet(Entry(f), w) /\ Quiet(Shadows(f), w)
      /\ Quiet(GBuffer(f), w) /\ Quiet(Readable(f), w) /\ Quiet(Clusters, w)
      /\ Quiet(Taa(f), w) /\ Quiet(Exposure(f), w) /\ Quiet(DebugViews(f), w)
      /\ Quiet(Handoff(f), w) /\ Quiet(Tonemap(f), w) /\ Quiet(DebugDraw(f), w)
      /\ Quiet(Overlay(f), w) /\ Quiet(Captured(f), w) /\ Quiet(Present(f), w)
  <2>1. w \in {"transmittance", "multiscatter"} /\ w # Ui
    BY DEF LutTable, Ui
  <2> QED
    BY <1>2, <2>1, PartsQuiet
<1>4. LutBefore(t[5], f.lut)
  <2>1. CASE f.lut # NoAir
    <3>1. Fine(r, "read", {f.lut}, Compute, Compute, {})
      BY <2>1 DEF LutBefore
    <3>2. Fine(t[5], "read", {f.lut}, Compute, Compute, {})
      BY <1>1, <1>3, <3>1, FineStays DEF Trace
    <3> QED
      BY <2>1, <3>2 DEF LutBefore
  <2>2. CASE f.lut = NoAir
    <3>1. Movable(r, Compute)
      BY <2>2 DEF LutBefore
    <3>2. Movable(t[5], Compute)
      BY <1>1, <1>3, <3>1, MovableStays DEF Trace
    <3> QED
      BY <2>2, <3>2 DEF LutBefore
  <2> QED
    BY <2>1, <2>2
<1>5. CASE f.air = NoAir
  <2>1. Quiet(Sky(f), w) /\ Quiet(Lighting(f), w) /\ Quiet(Atmosphere(f), w)
    <3>1. Quiet(Sky(f), w)
      BY <1>5, ReadsNone DEF Quiet, Sky, Only
    <3>2. Quiet(Lighting(f), w) /\ Quiet(Atmosphere(f), w)
      BY <1>2, <1>5, LightingReads, AtmosphereReads
    <3> QED
      BY <3>1, <3>2
  <2>2. CASE f.lut # NoAir
    <3>1. Fine(t[5], "read", {f.lut}, Compute, Compute, {})
      BY <1>4, <2>2 DEF LutBefore
    <3>2. Fine(t[9], "read", {f.lut}, Compute, Compute, {})
      BY <1>1, <1>3, <2>1, <3>1, FineStays DEF Trace
    <3>3. Fine(t[18], "read", {f.lut}, Compute, Compute, {})
      BY <1>1, <1>3, <3>2, FineStays DEF Trace
    <3> QED
      BY <1>1, <1>5, <2>2, <3>3 DEF LutBefore
  <2>3. CASE f.lut = NoAir
    <3>1. Movable(t[5], Compute)
      BY <1>4, <2>3 DEF LutBefore
    <3>2. Movable(t[9], Compute)
      BY <1>1, <1>3, <2>1, <3>1, MovableStays DEF Trace
    <3>3. Movable(t[18], Compute)
      BY <1>1, <1>3, <3>2, MovableStays DEF Trace
    <3> QED
      BY <1>1, <1>5, <2>3, <3>3 DEF LutBefore
  <2> QED
    BY <2>2, <2>3
<1>6. CASE f.air # NoAir
  <2>1. Fine(t[6], "read", {f.air}, Compute, Compute, {})
    BY <1>1, <1>4, <1>6, SkyReadsLuts DEF Trace
  <2>2. Reads(Lighting(f), w, "read", {f.air}, Compute)
        /\ Reads(Atmosphere(f), w, "read", {f.air}, Compute)
    BY <1>2, LightingReads, AtmosphereReads
  <2>3. Compute \subseteq Compute \cap Compute
    OBVIOUS
  <2>4. Fine(t[7], "read", {f.air}, Compute, Compute, {})
    BY <1>1, <1>3, <2>1, FineStays DEF Trace
  <2>5. Fine(t[8], "read", {f.air}, Compute, Compute, {})
    BY <1>1, <2>2, <2>3, <2>4, ReadsKeep DEF Trace
  <2>6. Fine(t[9], "read", {f.air}, Compute, Compute, {})
    BY <1>1, <2>2, <2>3, <2>5, ReadsKeep DEF Trace
  <2>7. Fine(t[18], "read", {f.air}, Compute, Compute, {})
    BY <1>1, <1>3, <2>6, FineStays DEF Trace
  <2> QED
    BY <1>1, <1>6, <2>7 DEF LutBefore
<1> QED
  BY <1>5, <1>6

\* The texture is sampled from the frame that uploads it on.
LEMMA LevelFrame ==
  ASSUME NEW f, IsFrame(f), NEW r, NEW w \in Range(Level)
  PROVE  /\ f.lands /\ Movable(r, {})
              => Fine(Run(r, w, Record(f)), "read", {"data"}, Fragment, Fragment, {})
         /\ ~f.lands /\ Fine(r, "read", {"data"}, Fragment, Fragment, {})
              => Fine(Run(r, w, Record(f)), "read", {"data"}, Fragment, Fragment, {})
         /\ ~f.lands /\ ~f.landed /\ Movable(r, {}) => Movable(Run(r, w, Record(f)), {})
<1>1. PICK t : Trace(t, r, w, f) /\ t[18] = Run(r, w, Record(f))
  BY RecordRuns
<1>2. w \notin Singles /\ w # "memory"
  BY NamesAssumption
<1>3. /\ Quiet(Entry(f), w) /\ Quiet(Shadows(f), w) /\ Quiet(Readable(f), w)
      /\ Quiet(Sky(f), w) /\ Quiet(Clusters, w) /\ Quiet(Lighting(f), w)
      /\ Quiet(Atmosphere(f), w) /\ Quiet(Taa(f), w) /\ Quiet(Exposure(f), w)
      /\ Quiet(DebugViews(f), w) /\ Quiet(Handoff(f), w) /\ Quiet(Tonemap(f), w)
      /\ Quiet(DebugDraw(f), w) /\ Quiet(Overlay(f), w) /\ Quiet(Captured(f), w)
      /\ Quiet(Present(f), w)
  <2> HIDE DEF Ui
  <2>1. w \notin {"gbuffer", "hdr", "depth", "shadow", "transmittance", "multiscatter", "ambient",
                  "sky_view", "clusters", "history_0", "history_1", "exposure", "histogram",
                  "debug", "target", "capture", Ui}
    BY <1>2 DEF Singles, Screen, Buffers
  <2> QED
    BY <1>2, <2>1, PartsQuiet
<1>4. w \notin {"gbuffer", "hdr", "depth"}
  BY <1>2 DEF Singles, Screen
<1>5. Reads(GBuffer(f), w, "read", {"data"}, Fragment) /\ (~f.landed => Quiet(GBuffer(f), w))
  BY <1>4, GBufferReadsLevels
<1>6. ASSUME Fine(t[1], "read", {"data"}, Fragment, Fragment, {})
      PROVE  Fine(t[18], "read", {"data"}, Fragment, Fragment, {})
  <2>1. Fine(t[3], "read", {"data"}, Fragment, Fragment, {})
    BY <1>1, <1>3, <1>6, FineStays DEF Trace
  <2>2. Fragment \subseteq Fragment \cap Fragment
    OBVIOUS
  <2>3. Fine(t[4], "read", {"data"}, Fragment, Fragment, {})
    BY <1>1, <1>5, <2>1, <2>2, ReadsKeep DEF Trace
  <2>4. Fine(t[11], "read", {"data"}, Fragment, Fragment, {})
    BY <1>1, <1>3, <2>3, FineStays DEF Trace
  <2> QED
    BY <1>1, <1>3, <2>4, FineStays DEF Trace
<1>7. CASE f.lands
  <2>1. ASSUME Movable(r, {}) PROVE Fine(t[1], "read", {"data"}, Fragment, Fragment, {})
    <3>1. t[1] = Run(r, w, TextureUpload)
      BY <1>1, <1>7 DEF Trace, Only
    <3>2. Fine(t[1], "read", {"data"}, Fragment, {}, Stages)
      BY <2>1, <3>1, UploadLands
    <3> QED
      BY <3>2 DEF Fine
  <2> QED
    BY <1>1, <1>6, <1>7, <2>1
<1>8. CASE ~f.lands
  <2>1. Quiet(Only(f.lands, TextureUpload), w)
    BY <1>8, ReadsNone DEF Quiet, Only
  <2>2. ASSUME Fine(r, "read", {"data"}, Fragment, Fragment, {})
        PROVE  Fine(t[1], "read", {"data"}, Fragment, Fragment, {})
    BY <1>1, <2>1, <2>2, FineStays DEF Trace
  <2>3. ASSUME ~f.landed, Movable(r, {}) PROVE Movable(t[18], {})
    <3>1. Movable(t[1], {})
      BY <1>1, <2>1, <2>3, MovableStays DEF Trace
    <3>2. Movable(t[4], {})
      BY <1>1, <1>3, <1>5, <2>3, <3>1, MovableStays DEF Trace
    <3>3. Movable(t[11], {})
      BY <1>1, <1>3, <3>2, MovableStays DEF Trace
    <3> QED
      BY <1>1, <1>3, <3>3, MovableStays DEF Trace
  <2> QED
    BY <1>1, <1>6, <1>8, <2>2, <2>3
<1> QED
  BY <1>7, <1>8

\* What ImGui shows was uploaded, by this frame or an earlier one.
LEMMA UiFrame ==
  ASSUME NEW f, IsFrame(f), NEW r
  PROVE  /\ \/ f.ui = "create" /\ Movable(r, {})
            \/ f.ui # "create" /\ Fine(r, "read", {"data"}, Fragment, Fragment, {})
            => Fine(Run(r, Ui, Record(f)), "read", {"data"}, Fragment, Fragment, {})
         /\ f.ui \notin {"create", "update"} /\ ~f.shown /\ IsState(r) /\ r.faults = {}
            => IsState(Run(r, Ui, Record(f))) /\ Run(r, Ui, Record(f)).faults = {}
<1> DEFINE w == Ui
<1>1. PICK t : Trace(t, r, w, f) /\ t[18] = Run(r, w, Record(f))
  BY RecordRuns
<1>2. w \notin Range(Level) /\ w # "memory"
  BY NamesDiffer DEF Singles, Screen, Buffers
<1>3. /\ Quiet(Only(f.lands, TextureUpload), w) /\ Quiet(Entry(f), w) /\ Quiet(Shadows(f), w)
      /\ Quiet(GBuffer(f), w) /\ Quiet(Readable(f), w) /\ Quiet(Sky(f), w)
      /\ Quiet(Clusters, w) /\ Quiet(Lighting(f), w) /\ Quiet(Atmosphere(f), w)
      /\ Quiet(Taa(f), w) /\ Quiet(Exposure(f), w) /\ Quiet(DebugViews(f), w)
      /\ Quiet(Handoff(f), w) /\ Quiet(Tonemap(f), w) /\ Quiet(DebugDraw(f), w)
      /\ Quiet(Captured(f), w) /\ Quiet(Present(f), w)
  <2>1. w \notin {"gbuffer", "hdr", "depth", "shadow", "transmittance", "multiscatter", "ambient",
                  "sky_view", "clusters", "history_0", "history_1", "exposure", "histogram",
                  "debug", "target", "capture"}
    BY DEF Ui
  <2> HIDE DEF w
  <2> QED
    BY <1>2, <2>1, PartsQuiet
<1>4. Reads(OverlayDraw(f), w, "read", {"data"}, Fragment)
      /\ (~f.shown => Quiet(OverlayDraw(f), w))
      /\ (f.ui \notin {"create", "update"} => Quiet(UiUpload(f), w))
  <2>1. w # "target" /\ w # "debug"
    BY DEF Ui
  <2> QED
    BY <2>1, OverlayDrawReads, UiUploadQuiet
<1> DEFINE q == Run(t[15], w, UiUpload(f))
<1>5. t[16] = Run(q, w, OverlayDraw(f))
  <2>1. IsList(UiUpload(f)) /\ IsList(OverlayDraw(f))
    BY OverlayLists
  <2>2. Overlay(f) = UiUpload(f) \o OverlayDraw(f)
    BY OverlayIs
  <2> QED
    BY <1>1, <2>1, <2>2, RunJoins DEF Trace
<1>6. ASSUME \/ f.ui = "create" /\ Movable(r, {})
             \/ f.ui # "create" /\ Fine(r, "read", {"data"}, Fragment, Fragment, {})
      PROVE  Fine(t[18], "read", {"data"}, Fragment, Fragment, {})
  <2>1. Fine(q, "read", {"data"}, Fragment, Fragment, {})
    <3>1. CASE f.ui = "create"
      <4>1. Movable(t[15], {})
        <5> HIDE DEF w
        <5>1. Movable(t[8], {})
          BY <1>1, <1>3, <1>6, <3>1, MovableStays DEF Trace
        <5> QED
          BY <1>1, <1>3, <5>1, MovableStays DEF Trace
      <4>2. Fine(q, "read", {"data"}, Fragment, {}, Stages)
        BY <3>1, <4>1, UiUploadMakes
      <4> QED
        BY <4>2 DEF Fine
    <3>2. CASE f.ui # "create"
      <4>1. Fine(t[15], "read", {"data"}, Fragment, Fragment, {})
        <5> HIDE DEF w
        <5>1. Fine(t[8], "read", {"data"}, Fragment, Fragment, {})
          BY <1>1, <1>3, <1>6, <3>2, FineStays DEF Trace
        <5> QED
          BY <1>1, <1>3, <5>1, FineStays DEF Trace
      <4>2. CASE f.ui = "update"
        <5>1. Fine(q, "read", {"data"}, Fragment, {}, Stages)
          BY <4>1, <4>2, UiUploadMakes
        <5> QED
          BY <5>1 DEF Fine
      <4>3. CASE f.ui # "update"
        <5>1. Quiet(UiUpload(f), w)
          BY <1>4, <3>2, <4>3
        <5> HIDE DEF w
        <5> QED
          BY <4>1, <5>1, FineStays
      <4> QED
        BY <4>2, <4>3
    <3> QED
      BY <3>1, <3>2
  <2>2. Fragment \subseteq Fragment \cap Fragment
    OBVIOUS
  <2> HIDE DEF q, w
  <2>3. Fine(t[16], "read", {"data"}, Fragment, Fragment, {})
    BY <1>4, <1>5, <2>1, <2>2, ReadsKeep
  <2> QED
    BY <1>1, <1>3, <2>3, FineStays DEF Trace
<1>7. ASSUME f.ui \notin {"create", "update"}, ~f.shown, IsState(r), r.faults = {}
      PROVE  IsState(t[18]) /\ t[18].faults = {}
  <2>1. Quiet(UiUpload(f), w) /\ Quiet(OverlayDraw(f), w)
    BY <1>4, <1>7
  <2> HIDE DEF w
  <2>2. Fine(r, r.layout, {r.holds}, {}, Stages, {})
    BY <1>7 DEF Fine
  <2>3. Fine(t[8], r.layout, {r.holds}, {}, Stages, {})
    BY <1>1, <1>3, <2>2, FineStays DEF Trace
  <2>4. Fine(t[15], r.layout, {r.holds}, {}, Stages, {})
    BY <1>1, <1>3, <2>3, FineStays DEF Trace
  <2>5. Fine(q, r.layout, {r.holds}, {}, Stages, {})
    BY <2>1, <2>4, FineStays
  <2>6. Fine(t[16], r.layout, {r.holds}, {}, Stages, {})
    BY <1>5, <2>1, <2>5, FineStays
  <2>7. Fine(t[18], r.layout, {r.holds}, {}, Stages, {})
    BY <1>1, <1>3, <2>6, FineStays DEF Trace
  <2> QED
    BY <2>7 DEF Fine
<1> QED
  BY <1>1, <1>6, <1>7

-----------------------------------------------------------------------------
(* From frame to frame *)

Aged(h) == IF h = "now" THEN "last" ELSE IF h = "last" THEN "older" ELSE h

LEMMA OlderIs ==
  ASSUME NEW r, IsState(r)
  PROVE  /\ IsState(Older(r)) /\ Older(r).layout = r.layout /\ Older(r).holds = Aged(r.holds)
         /\ Older(r).writer = r.writer /\ Older(r).visible = r.visible
         /\ Older(r).after = r.after /\ Older(r).faults = r.faults
<1>1. r = [layout |-> r.layout, holds |-> r.holds, writer |-> r.writer, visible |-> r.visible,
           after |-> r.after, faults |-> r.faults]
  BY DEF IsState
<1>2. Older(r) = [r EXCEPT !.holds = Aged(r.holds)]
  BY DEF Older, Aged
<1>3. Older(r) = [layout |-> r.layout, holds |-> Aged(r.holds), writer |-> r.writer,
                  visible |-> r.visible, after |-> r.after, faults |-> r.faults]
  BY <1>1, <1>2
<1>4. r.after \in [Stages -> SUBSET Stages]
  BY DEF IsState
<1> QED
  BY <1>3, <1>4 DEF IsState

LEMMA OlderKeeps ==
  ASSUME NEW r
  PROVE  /\ \A src : Movable(r, src) => Movable(Older(r), src)
         /\ \A layout, holds, stage :
              Wrote(r, layout, {holds}, stage) => Wrote(Older(r), layout, {Aged(holds)}, stage)
         /\ \A layout, holds, seen, busy, free :
              Fine(r, layout, {holds}, seen, busy, free)
                => Fine(Older(r), layout, {Aged(holds)}, seen, busy, free)
<1>1. CASE IsState(r)
  BY <1>1, OlderIs DEF Movable, Wrote, Fine
<1>2. CASE ~IsState(r)
  BY <1>2 DEF Movable, Wrote, Fine
<1> QED
  BY <1>1, <1>2

LEMMA SettledIs ==
  ASSUME NEW r, IsState(r), r.faults = {}
  PROVE  /\ \A src : Movable(Settled(r), src)
         /\ \A seen, busy : Fine(Settled(r), r.layout, {r.holds}, seen, busy, Stages)
<1>1. r = [layout |-> r.layout, holds |-> r.holds, writer |-> r.writer, visible |-> r.visible,
           after |-> r.after, faults |-> r.faults]
  BY DEF IsState
<1>2. Settled(r) = [layout |-> r.layout, holds |-> r.holds, writer |-> "nobody", visible |-> {},
                    after |-> [s \in Stages |-> Stages], faults |-> {}]
  <2> DEFINE all == [s \in Stages |-> Stages]
             q == Settled(r)
  <2>1. q = [r EXCEPT !.writer = "nobody", !.visible = {}, !.after = all]
    BY DEF Settled
  <2> HIDE DEF all, q
  <2>2. q = [layout |-> r.layout, holds |-> r.holds, writer |-> "nobody", visible |-> {},
             after |-> all, faults |-> {}]
    BY <1>1, <2>1
  <2> QED
    BY <2>2 DEF all, q
<1> DEFINE q == Settled(r)
<1>3. /\ IsState(q) /\ q.faults = {} /\ q.layout = r.layout /\ q.holds = r.holds
      /\ q.writer = "nobody" /\ \A s \in Stages : q.after[s] = Stages
  BY <1>2 DEF IsState
<1> HIDE DEF q
<1>4. \A src : Movable(q, src)
  BY <1>3 DEF Movable
<1>5. \A seen, busy : Fine(q, r.layout, {r.holds}, seen, busy, Stages)
  BY <1>3 DEF Fine
<1> QED
  BY <1>4, <1>5 DEF q

LEMMA FreshIs ==
  ASSUME NEW layout, NEW held
  PROVE  /\ \A src : Movable([Fresh(layout) EXCEPT !.holds = held], src)
         /\ \A src : Movable(Fresh(layout), src)
         /\ \A seen, busy :
              Fine([Fresh(layout) EXCEPT !.holds = held], layout, {held}, seen, busy, Stages)
         /\ \A seen, busy : Fine(Fresh(layout), layout, {"nothing"}, seen, busy, Stages)
<1>1. ASSUME NEW h, NEW q,
             q = [layout |-> layout, holds |-> h, writer |-> "nobody", visible |-> {},
                  after |-> [s \in Stages |-> Stages], faults |-> {}]
      PROVE  /\ \A src : Movable(q, src)
             /\ \A seen, busy : Fine(q, layout, {h}, seen, busy, Stages)
  <2>1. /\ IsState(q) /\ q.faults = {} /\ q.layout = layout /\ q.holds = h
        /\ q.writer = "nobody" /\ \A s \in Stages : q.after[s] = Stages
    BY <1>1 DEF IsState
  <2> QED
    BY <2>1 DEF Movable, Fine
<1>2. Fresh(layout) = [layout |-> layout, holds |-> "nothing", writer |-> "nobody", visible |-> {},
                       after |-> [s \in Stages |-> Stages], faults |-> {}]
  BY DEF Fresh
<1>3. [Fresh(layout) EXCEPT !.holds = held]
        = [layout |-> layout, holds |-> held, writer |-> "nobody", visible |-> {},
           after |-> [s \in Stages |-> Stages], faults |-> {}]
  BY <1>2
<1> QED
  BY <1>1, <1>2, <1>3

LEMMA AcquiredIs == Movable(Acquired("colour"), Colour)
<1> DEFINE q == Acquired("colour")
<1>1. q = [layout |-> "undefined", holds |-> "nothing", writer |-> "semaphore",
           visible |-> {"colour"}, after |-> [s \in Stages |-> Stages], faults |-> {}]
  <2>1. q = [Fresh("undefined") EXCEPT !.writer = "semaphore", !.visible = {"colour"}]
    BY DEF Acquired
  <2> HIDE DEF q
  <2> QED
    BY <2>1 DEF Fresh
<1>2. /\ IsState(q) /\ q.faults = {} /\ q.visible = {"colour"}
      /\ \A s \in Stages : q.after[s] = Stages
  BY <1>1 DEF IsState
<1> HIDE DEF q
<1>3. Movable(q, Colour)
  BY <1>2 DEF Movable, Colour
<1> QED
  BY <1>3 DEF q

\* What the resource that is followed is like between frames, in this renderer's
\* memory: of the histories and whether they are valid, of the exposure, of the
\* LUTs' air, of the texture and of the UI's.
Between(w, r, isValid, newest, isExposed, lutAir, landed, status) ==
  /\ w \in {"gbuffer", "shadow", "sky_view"} => Movable(r, Compute)
  /\ w = "depth" => Movable(r, Compute \cup Depth)
  /\ w \in {"hdr", "debug"} => Movable(r, Fragment)
  /\ w \in {"history_0", "history_1"} =>
       IF isValid /\ w = History[newest] THEN Fine(r, "read", ThisFrame, Samplers, Samplers, {})
       ELSE Movable(r, Samplers)
  /\ w = "exposure" =>
       IF isExposed THEN Fine(r, "read", ThisFrame, Samplers, Samplers, {})
       ELSE Movable(r, Samplers)
  /\ w \in LutTable => LutBefore(r, lutAir)
  /\ w \in {"clusters", "ambient"} => Fine(r, "buffer", {r.holds}, Compute, Compute, {})
  /\ w = "histogram" => \/ Wrote(r, "buffer", {"zeroed"}, "compute")
                        \/ Fine(r, "buffer", {"zeroed"}, Compute, {}, Stages)
  /\ w = "capture" => IsState(r) /\ r.faults = {} /\ r.layout = "buffer"
  /\ w = "target" => IsState(r) /\ r.faults = {}
  /\ w \in Range(Level) =>
       IF landed = 0 THEN Movable(r, {}) ELSE Fine(r, "read", {"data"}, Fragment, Fragment, {})
  /\ w = Ui => IF status = "ok" THEN Fine(r, "read", {"data"}, Fragment, Fragment, {})
               ELSE IsState(r) /\ r.faults = {}

Remembered ==
  /\ taa \in BOOLEAN /\ valid \in BOOLEAN /\ (valid => taa)
  /\ exposed \in BOOLEAN /\ lut \in Air \cup {NoAir}

\* The inductive invariant: nothing is wrong, and the next frame finds each
\* resource as its first barrier or access expects it.
FramesInv ==
  /\ HandlesInv /\ Remembered
  /\ Between(watch, resource, valid, write, exposed, lut, material, ui[Watched].status)

LEMMA BetweenPrimed ==
  Between(watch, resource, valid, write, exposed, lut, material, ui[Watched].status)'
  <=> Between(watch', resource', valid', write', exposed', lut', material', ui'[Watched].status)
BY DEF Between

\* So nothing is ever wrong.
LEMMA NothingWrong ==
  ASSUME NEW w \in Resources, NEW r, NEW isValid, NEW newest, NEW isExposed, NEW lutAir,
         NEW landed, NEW status, Between(w, r, isValid, newest, isExposed, lutAir, landed, status)
  PROVE  IsState(r) /\ r.faults = {}
<1>1. \/ w \in {"gbuffer", "shadow", "sky_view"} \/ w = "depth" \/ w \in {"hdr", "debug"}
      \/ w \in {"history_0", "history_1"} \/ w = "exposure" \/ w \in LutTable
      \/ w \in {"clusters", "ambient"} \/ w = "histogram" \/ w = "capture" \/ w = "target"
      \/ w \in Range(Level) \/ w = Ui
  BY DEF Resources, Singles, Screen, Buffers, LutTable
<1>2. /\ \A src : Movable(r, src) => IsState(r) /\ r.faults = {}
      /\ \A l, h, s : Wrote(r, l, h, s) => IsState(r) /\ r.faults = {}
      /\ \A l, h, s, b, e : Fine(r, l, h, s, b, e) => IsState(r) /\ r.faults = {}
  BY DEF Movable, Wrote, Fine
<1> QED
  BY <1>1, <1>2 DEF Between, LutBefore

LEMMA InitFrames == Init => FramesInv
<1> SUFFICES ASSUME Init PROVE FramesInv
  OBVIOUS
<1>1. HandlesInv
  BY InitHandles
<1>2. Remembered
  BY DEF Init, Remembered
<1>3. /\ valid = FALSE /\ exposed = FALSE /\ lut = NoAir /\ material = 0
      /\ ui[Watched].status = "none"
  <2>1. ui = [t \in Names |-> Unused] /\ Watched \in Names
    BY NamesAre DEF Init
  <2>2. ui[Watched] = Unused
    BY <2>1
  <2> QED
    BY <2>2 DEF Init, Unused
<1>4. watch \in Resources /\ Ui \notin Buffers
  BY DEF Init, Ui, Buffers
<1>5. CASE watch \notin Buffers
  <2>1. resource = Fresh("undefined")
    BY <1>5 DEF Init, Buffers
  <2>2. \A src : Movable(resource, src)
    BY <2>1, FreshIs
  <2>3. IsState(resource) /\ resource.faults = {}
    BY <2>2 DEF Movable
  <2>4. watch \notin {"clusters", "ambient", "histogram", "capture"}
    BY <1>5 DEF Buffers
  <2>5. Between(watch, resource, valid, write, exposed, lut, material, ui[Watched].status)
    BY <1>3, <2>2, <2>3, <2>4 DEF Between, LutBefore
  <2> QED
    BY <1>1, <1>2, <2>5 DEF FramesInv
<1>6. CASE watch \in Buffers
  <2>1. watch \notin Screen \cup LutTable \cup Range(Level)
        /\ watch \notin {"shadow", "sky_view", "exposure", "target", Ui}
    BY <1>6, NamesDiffer DEF Singles, Screen, LutTable, Buffers, Ui
  <2>2. CASE watch = "histogram"
    <3>1. resource = [Fresh("buffer") EXCEPT !.holds = "zeroed"]
      BY <2>2 DEF Init
    <3>2. Fine(resource, "buffer", {"zeroed"}, Compute, {}, Stages)
      BY <3>1, FreshIs
    <3>3. Between(watch, resource, valid, write, exposed, lut, material, ui[Watched].status)
      BY <2>1, <2>2, <3>2 DEF Between, Screen
    <3> QED
      BY <1>1, <1>2, <3>3 DEF FramesInv
  <2>3. CASE watch # "histogram"
    <3>1. resource = Fresh("buffer")
      BY <1>6, <2>3 DEF Init
    <3>2. Fine(resource, "buffer", {"nothing"}, Compute, Compute, Stages)
      BY <3>1, FreshIs
    <3>3. /\ Fine(resource, "buffer", {resource.holds}, Compute, Compute, {})
          /\ IsState(resource) /\ resource.faults = {} /\ resource.layout = "buffer"
      BY <3>2 DEF Fine
    <3>4. Between(watch, resource, valid, write, exposed, lut, material, ui[Watched].status)
      BY <2>1, <2>3, <3>3 DEF Between, Screen
    <3> QED
      BY <1>1, <1>2, <3>4 DEF FramesInv
  <2> QED
    BY <2>2, <2>3
<1> QED
  BY <1>5, <1>6

\* Between frames TAA is turned on or off, or starts anew.
LEMMA SettingsKeep ==
  ASSUME FramesInv, \/ \E on \in BOOLEAN : SetTaa(on)
                    \/ ResetTaa \/ UNCHANGED vars
  PROVE  FramesInv'
<1>1. HandlesInv'
  BY OthersKeep DEF FramesInv
<1>2. /\ UNCHANGED <<watch, resource, write, exposed, lut, material, ui>>
      /\ valid' \in BOOLEAN /\ (valid' => valid) /\ taa' \in BOOLEAN /\ (valid' => taa')
  <2>1. taa \in BOOLEAN /\ valid \in BOOLEAN /\ (valid => taa)
    BY DEF FramesInv, Remembered
  <2>2. ASSUME NEW on \in BOOLEAN, SetTaa(on)
        PROVE  /\ UNCHANGED <<watch, resource, write, exposed, lut, material, ui>>
               /\ taa' = on /\ valid' = (valid /\ on)
    BY <2>2 DEF SetTaa, textureVars
  <2>3. CASE ResetTaa
    BY <2>1, <2>3 DEF ResetTaa, textureVars
  <2>4. CASE UNCHANGED vars
    BY <2>1, <2>4 DEF vars, rememberedVars, textureVars
  <2>5. ASSUME NEW on \in BOOLEAN, SetTaa(on)
        PROVE  /\ UNCHANGED <<watch, resource, write, exposed, lut, material, ui>>
               /\ valid' \in BOOLEAN /\ (valid' => valid) /\ taa' \in BOOLEAN /\ (valid' => taa')
    BY <2>1, <2>2, <2>5
  <2> QED
    BY <2>3, <2>4, <2>5
<1>3. Remembered'
  BY <1>2 DEF FramesInv, Remembered
<1>4. Between(watch, resource, valid, write, exposed, lut, material, ui[Watched].status)
  BY DEF FramesInv
<1>5. Samplers \subseteq Samplers /\ Samplers \cap Samplers # {}
  BY DEF Samplers
<1>6. Fine(resource, "read", ThisFrame, Samplers, Samplers, {}) => Movable(resource, Samplers)
  BY <1>5, FineMoves
<1>7. Between(watch, resource, valid', write, exposed, lut, material, ui[Watched].status)
  BY <1>2, <1>4, <1>6 DEF Between
<1>8. Between(watch', resource', valid', write', exposed', lut', material', ui'[Watched].status)
  BY <1>2, <1>7
<1> QED
  BY <1>1, <1>3, <1>8, BetweenPrimed DEF FramesInv

\* The device is idle when the targets are made again.
LEMMA ChangeKeeps ==
  ASSUME FramesInv, OnSwapchainChanged
  PROVE  FramesInv'
<1>1. HandlesInv'
  BY OthersKeep DEF FramesInv
<1>2. /\ UNCHANGED <<watch, write, exposed, lut, material, ui, taa>> /\ valid' = FALSE
      /\ resource' = IF watch \in Screen THEN Fresh("undefined") ELSE Settled(resource)
  BY DEF OnSwapchainChanged, textureVars
<1>3. Remembered'
  BY <1>2 DEF FramesInv, Remembered
<1>4. Between(watch, resource, valid, write, exposed, lut, material, ui[Watched].status)
      /\ watch \in Resources
  BY DEF FramesInv, HandlesInv
<1>5. IsState(resource) /\ resource.faults = {}
  BY <1>4, NothingWrong
<1>6. CASE watch \in Screen
  <2>1. \A src : Movable(resource', src)
    BY <1>2, <1>6, FreshIs
  <2>2. watch \notin LutTable \cup Range(Level) \cup Buffers
        /\ watch \notin {"shadow", "sky_view", "exposure", "target", Ui}
    BY <1>6, NamesDiffer DEF Singles, Screen, LutTable, Buffers, Ui
  <2>3. Between(watch, resource', FALSE, write, exposed, lut, material, ui[Watched].status)
    BY <1>6, <2>1, <2>2 DEF Between, Screen, Buffers
  <2> QED
    BY <1>1, <1>2, <1>3, <2>3, BetweenPrimed DEF FramesInv
<1>7. CASE watch \notin Screen
  <2>1. /\ \A src : Movable(resource', src)
        /\ \A seen, busy : Fine(resource', resource.layout, {resource.holds}, seen, busy, Stages)
    BY <1>2, <1>5, <1>7, SettledIs
  <2>2. \A layout, holds, seen, busy :
          Fine(resource, layout, holds, seen, busy, {})
            => Fine(resource', layout, holds, seen, busy, {})
    BY <2>1 DEF Fine
  <2>3. Wrote(resource, "buffer", {"zeroed"}, "compute")
          => Fine(resource', "buffer", {"zeroed"}, Compute, {}, Stages)
    BY <2>1 DEF Wrote
  <2>4. Fine(resource, "buffer", {"zeroed"}, Compute, {}, Stages)
          => Fine(resource', "buffer", {"zeroed"}, Compute, {}, Stages)
    BY <2>1 DEF Fine
  <2>5. /\ IsState(resource') /\ resource'.faults = {} /\ resource'.layout = resource.layout
        /\ resource'.holds = resource.holds
    BY <2>1 DEF Fine
  <2>6. Between(watch, resource', FALSE, write, exposed, lut, material, ui[Watched].status)
    BY <1>4, <1>7, <2>1, <2>2, <2>3, <2>4, <2>5 DEF Between, Screen, LutBefore
  <2> QED
    BY <1>1, <1>2, <1>3, <2>6, BetweenPrimed DEF FramesInv
<1> QED
  BY <1>6, <1>7

-----------------------------------------------------------------------------
(* Draws *)

\* What becomes of the followed texture, as ImGui asks.
Did(texture, request) ==
  /\ request = "create" => texture.status \in {"wanted", "ok"}
  /\ request = "destroy" => texture.status = "none"
  /\ request \notin {"create", "destroy"} => texture = ui[Watched]

LEMMA UpdateElsewhere ==
  ASSUME NEW p, DOMAIN p.textures = Names, NEW t \in Names, NEW request
  PROVE  LET q == UpdateTexture(p, t, request)
         IN  /\ DOMAIN q.textures = Names
             /\ \A u \in Names : u # t => q.textures[u] = p.textures[u]
<1>1. CASE request = "create"
  <2>1. UpdateTexture(p, t, request) = Creates(p, t)
    BY <1>1 DEF UpdateTexture
  <2>2. CASE Exhausted(p.bindless)
    BY <2>1, <2>2 DEF Creates
  <2>3. CASE ~Exhausted(p.bindless)
    <3>1. \E made : Creates(p, t).textures = [p.textures EXCEPT ![t] = made]
      BY <2>3 DEF Creates
    <3> QED
      BY <2>1, <3>1
  <2> QED
    BY <2>2, <2>3
<1>2. CASE request = "destroy"
  BY <1>2 DEF UpdateTexture, Destroys, Dropped
<1>3. CASE request \notin {"create", "destroy"}
  BY <1>3 DEF UpdateTexture
<1> QED
  BY <1>1, <1>2, <1>3

LEMMA UpdateHere ==
  ASSUME ui \in [Names -> Texture], NEW p, p.textures = ui, NEW request
  PROVE  Did(UpdateTexture(p, Watched, request).textures[Watched], request)
<1>1. Watched \in Names /\ DOMAIN ui = Names /\ ui[Watched] \in Texture
  BY NamesAre
<1>2. ui[Watched] = [status |-> ui[Watched].status, times |-> ui[Watched].times,
                     handle |-> ui[Watched].handle]
  BY <1>1 DEF Texture
<1>3. CASE request = "create"
  <2>1. UpdateTexture(p, Watched, request) = Creates(p, Watched)
    BY <1>3 DEF UpdateTexture
  <2>2. CASE Exhausted(p.bindless)
    <3>1. Creates(p, Watched).textures = [ui EXCEPT ![Watched].status = "wanted"]
      BY <2>2 DEF Creates
    <3>2. Creates(p, Watched).textures[Watched] = [ui[Watched] EXCEPT !.status = "wanted"]
      BY <1>1, <3>1
    <3>3. Creates(p, Watched).textures[Watched].status = "wanted"
      BY <1>2, <3>2
    <3> QED
      BY <1>3, <2>1, <3>3 DEF Did
  <2>3. CASE ~Exhausted(p.bindless)
    <3>1. \E times, handle :
            Creates(p, Watched).textures
              = [ui EXCEPT ![Watched] = [status |-> "ok", times |-> times, handle |-> handle]]
      BY <2>3 DEF Creates
    <3>2. Creates(p, Watched).textures[Watched].status = "ok"
      BY <1>1, <3>1
    <3> QED
      BY <1>3, <2>1, <3>2 DEF Did
  <2> QED
    BY <2>2, <2>3
<1>4. CASE request = "destroy"
  <2>1. UpdateTexture(p, Watched, request).textures
          = [ui EXCEPT ![Watched].status = "none", ![Watched].handle = 0]
    BY <1>4 DEF UpdateTexture, Destroys, Dropped
  <2>2. UpdateTexture(p, Watched, request).textures[Watched]
          = [ui[Watched] EXCEPT !.status = "none", !.handle = 0]
    BY <1>1, <2>1
  <2>3. UpdateTexture(p, Watched, request).textures[Watched].status = "none"
    BY <1>2, <2>2
  <2> QED
    BY <1>4, <2>3 DEF Did
<1>5. CASE request \notin {"create", "destroy"}
  BY <1>5 DEF UpdateTexture, Did
<1> QED
  BY <1>3, <1>4, <1>5

LEMMA PrepareWatched ==
  ASSUME ui \in [Names -> Texture], NEW b, NEW requests
  PROVE  Did(Prepare(b, requests).textures[Watched], requests[Watched])
<1> DEFINE l == Len(UiTextures)
           request == requests[Watched]
           start == [bindless |-> FreeRetired(b), textures |-> ui, retires |-> <<>>]
<1>1. l \in Nat /\ l >= 1 /\ Watched \in Names
  <2>1. UiTextures \in Seq(Range(UiTextures)) /\ UiTextures # <<>>
    BY RenderingAssumption
  <2> QED
    BY <2>1, NamesAre
<1>2. PICK f : UpdatesTo(b, requests, f, l) /\ Prepare(b, requests) = f[l]
  BY PrepareIs
<1>3. f[0] = start
  BY <1>1, <1>2 DEF UpdatesTo
<1>4. \A n \in 1 .. l : f[n] = UpdateTexture(f[n - 1], UiTextures[n], requests[UiTextures[n]])
  <2> SUFFICES ASSUME NEW n \in 1 .. l
               PROVE  f[n] = UpdateTexture(f[n - 1], UiTextures[n], requests[UiTextures[n]])
    OBVIOUS
  <2>1. n \in 0 .. l /\ n # 0
    BY <1>1
  <2> QED
    BY <1>2, <2>1 DEF UpdatesTo
<1>5. f[0].textures = ui
  BY <1>3
<1> HIDE DEF l, start
<1> DEFINE S == {n \in Nat : n + 1 <= l => /\ DOMAIN f[n + 1].textures = Names
                                           /\ Did(f[n + 1].textures[Watched], request)}
<1>6. 0 \in S
  <2>1. f[1] = UpdateTexture(f[0], Watched, request)
    BY <1>1, <1>4 DEF Watched
  <2>2. DOMAIN f[1].textures = Names
    BY <1>1, <1>5, <2>1, UpdateElsewhere
  <2>3. Did(f[1].textures[Watched], request)
    BY <1>5, <2>1, UpdateHere
  <2> QED
    BY <2>2, <2>3
<1>7. ASSUME NEW n \in Nat, n \in S PROVE n + 1 \in S
  <2> SUFFICES ASSUME n + 2 <= l
               PROVE  /\ DOMAIN f[n + 2].textures = Names
                      /\ Did(f[n + 2].textures[Watched], request)
    OBVIOUS
  <2> DEFINE t == UiTextures[n + 2]
  <2>1. n + 1 <= l /\ n + 2 \in 1 .. l /\ 1 \in 1 .. l /\ n + 2 # 1 /\ (n + 2) - 1 = n + 1
    BY <1>1
  <2>2. f[n + 2] = UpdateTexture(f[n + 1], t, requests[t])
    BY <1>4, <2>1
  <2>3. t \in Names /\ t # Watched
    BY <2>1, NamesAre DEF Watched, l
  <2>4. DOMAIN f[n + 1].textures = Names /\ Did(f[n + 1].textures[Watched], request)
    BY <1>7, <2>1
  <2> HIDE DEF t
  <2>5. /\ DOMAIN f[n + 2].textures = Names
        /\ f[n + 2].textures[Watched] = f[n + 1].textures[Watched]
    BY <1>1, <2>2, <2>3, <2>4, UpdateElsewhere
  <2> QED
    BY <2>4, <2>5
<1>8. \A n \in Nat : n \in S
  <2> HIDE DEF S
  <2> QED
    BY <1>6, <1>7, Induct
<1>9. l - 1 \in Nat /\ (l - 1) + 1 = l
  BY <1>1
<1>10. Did(f[l].textures[Watched], request)
  BY <1>8, <1>9
<1> QED
  BY <1>2, <1>10

\* What a draw does to the followed resource, and to what the renderer remembers.
Drew(f, created, request) ==
  /\ IsFrame(f) /\ f.air \in Air \cup {NoAir}
  /\ f.taa = taa /\ f.write = HistoryWritten /\ f.valid = valid /\ f.lut = lut
  /\ f.exposed = exposed
  /\ (f.lands => material = 0 /\ material' # 0) /\ (~f.lands => material' = material)
  /\ (f.landed => material' > 0)
  /\ f.shown = (ui'[Watched].status = "ok")
  /\ created = (request = "create" /\ f.shown)
  /\ f.ui = IF request = "create" /\ ~created THEN "nothing" ELSE request
  /\ Did(ui'[Watched], request)
  /\ watch = Ui => request \in Wants(Watched)
  /\ resource' = Run(Found(created), watch, Record(f))
  /\ valid' = (valid \/ taa) /\ write' = HistoryWritten /\ exposed' = TRUE
  /\ lut' = IF f.air # NoAir THEN f.air ELSE lut
  /\ watch' = watch /\ taa' = taa

LEMMA DrewIs ==
  ASSUME HandlesInv, NEW s \in Drawn, NEW lands \in {FALSE, MayLand}, NEW requests \in Requests,
         Draw(s, lands, requests)
  PROVE  \E f, created : Drew(f, created, requests[Watched])
<1> DEFINE streamed == IF lands THEN StreamTexture(bindless)
                       ELSE [bindless |-> bindless, material |-> material]
           p == Prepare(streamed.bindless, requests)
           create == requests[Watched] = "create"
           created == create /\ p.textures[Watched].status = "ok"
           f == [taa |-> taa, shadows |-> s.shadows, windows |-> s.windows, lines |-> s.lines,
                 capture |-> s.capture, air |-> s.air, inside |-> s.inside,
                 lands |-> lands, landed |-> streamed.material > 0,
                 ui |-> IF create /\ ~created THEN "nothing" ELSE requests[Watched],
                 shown |-> p.textures[Watched].status = "ok",
                 write |-> HistoryWritten, valid |-> valid, lut |-> lut, exposed |-> exposed]
<1>1. /\ resource' = Run(Found(created), watch, Record(f))
      /\ valid' = (valid \/ taa) /\ write' = HistoryWritten /\ exposed' = TRUE
      /\ lut' = IF s.air # NoAir THEN s.air ELSE lut
      /\ material' = streamed.material /\ ui' = p.textures
      /\ watch' = watch /\ taa' = taa
  BY DEF Draw
<1>2. Books(bindless, ui, retired, material) /\ ui \in [Names -> Texture] /\ write \in 0 .. 1
  BY DEF HandlesInv, Books
<1>3. /\ s.air \in Air \cup {NoAir} /\ (s.inside => s.air # NoAir)
  <2>1. s \in Scenes
    BY RenderingAssumption DEF Drawn
  <2>2. s \in AnyScene /\ (s.inside => s.air # NoAir)
    BY <2>1, RenderingAssumption
  <2> QED
    BY <2>2 DEF AnyScene
<1>4. HistoryWritten \in 0 .. 1
  BY <1>2 DEF HistoryWritten
<1>5. ASSUME lands PROVE material = 0 /\ streamed.material # 0
  <2>1. lands = TRUE /\ material = 0
    BY <1>5 DEF MayLand
  <2>2. streamed.material = StreamTexture(bindless).material
    BY <2>1
  <2>3. CASE Exhausted(bindless)
    <3>1. streamed.material = -1
      BY <2>2, <2>3 DEF StreamTexture
    <3> HIDE DEF streamed
    <3> QED
      BY <2>1, <3>1
  <2>4. CASE ~Exhausted(bindless)
    <3>1. <<"material", 0>> \in Images \ {None}
      BY ImagesAre
    <3>2. NextHandle(bindless) \in 1 .. MaxHandles
      BY <1>2, <2>4, <3>1, AddIs
    <3>3. streamed.material = NextHandle(bindless)
      BY <2>2, <2>4 DEF StreamTexture
    <3> HIDE DEF streamed
    <3> QED
      BY <2>1, <3>2, <3>3, NamesAre
  <2> QED
    BY <2>1, <2>3, <2>4
<1>6. ASSUME ~lands PROVE streamed.material = material
  BY <1>6
<1>7. Did(p.textures[Watched], requests[Watched])
  <2> HIDE DEF streamed
  <2> QED
    BY <1>2, PrepareWatched
<1>8. watch = Ui => requests[Watched] \in Wants(Watched)
  BY NamesAre DEF Requests
<1> HIDE DEF streamed, p
<1>9. /\ f.air = s.air /\ f.inside = s.inside /\ f.lands = lands
      /\ f.landed = (streamed.material > 0) /\ f.shown = (p.textures[Watched].status = "ok")
      /\ f.ui = (IF create /\ ~created THEN "nothing" ELSE requests[Watched])
      /\ f.taa = taa /\ f.write = HistoryWritten /\ f.valid = valid /\ f.lut = lut
      /\ f.exposed = exposed
  OBVIOUS
<1>10. created = (create /\ f.shown)
  BY <1>9
<1> HIDE DEF f, created
<1>11. Drew(f, created, requests[Watched])
  BY <1>1, <1>3, <1>4, <1>5, <1>6, <1>7, <1>8, <1>9, <1>10 DEF Drew, IsFrame
<1> QED
  BY <1>11

\* The frame leaves the resource as the next one expects it, one after the other.
LEMMA ScreenNext ==
  ASSUME FramesInv, NEW f, NEW created, NEW request, Drew(f, created, request)
  PROVE  /\ watch \in {"gbuffer", "shadow", "sky_view"} => Movable(resource', Compute)
         /\ watch = "depth" => Movable(resource', Compute \cup Depth)
         /\ watch \in {"hdr", "debug"} => Movable(resource', Fragment)
<1>1. Between(watch, resource, valid, write, exposed, lut, material, ui[Watched].status)
  BY DEF FramesInv
<1>2. IsFrame(f) /\ resource' = Run(Found(created), watch, Record(f))
  BY DEF Drew
<1>3. watch \notin {"target", "capture", Ui} => Found(created) = Older(resource)
  BY DEF Found
<1>4. \A src : Movable(resource, src) => Movable(Older(resource), src)
  BY OlderKeeps
<1>5. watch \in {"gbuffer", "shadow", "sky_view"} => Movable(resource', Compute)
  BY <1>1, <1>2, <1>3, <1>4, GBufferFrame, ShadowFrame, SkyViewFrame DEF Between, Ui
<1>6. watch = "depth" => Movable(resource', Compute \cup Depth)
  BY <1>1, <1>2, <1>3, <1>4, DepthFrame DEF Between, Ui
<1>7. watch \in {"hdr", "debug"} => Movable(resource', Fragment)
  BY <1>1, <1>2, <1>3, <1>4, HdrFrame, DebugFrame DEF Between, Ui
<1> QED
  BY <1>5, <1>6, <1>7

LEMMA HistoriesNext ==
  ASSUME FramesInv, NEW f, NEW created, NEW request, Drew(f, created, request),
         watch \in {"history_0", "history_1"}
  PROVE  IF valid' /\ watch = History[write']
         THEN Fine(resource', "read", ThisFrame, Samplers, Samplers, {})
         ELSE Movable(resource', Samplers)
<1>1. Between(watch, resource, valid, write, exposed, lut, material, ui[Watched].status)
      /\ Remembered /\ write \in 0 .. 1
  BY DEF FramesInv, HandlesInv
<1>2. /\ IsFrame(f) /\ resource' = Run(Found(created), watch, Record(f))
      /\ f.taa = taa /\ f.valid = valid /\ f.write = HistoryWritten /\ write' = HistoryWritten
      /\ valid' = (valid \/ taa)
  BY DEF Drew
<1>3. Found(created) = Older(resource)
  BY DEF Found, Ui
<1>4. \A src : Movable(resource, src) => Movable(Older(resource), src)
  BY OlderKeeps
<1>5. Fine(resource, "read", ThisFrame, Samplers, Samplers, {})
        => Fine(Older(resource), "read", LastFrame, Samplers, Samplers, {})
  BY OlderKeeps DEF ThisFrame, LastFrame, Aged
<1>6. IF valid /\ watch = History[write]
      THEN Fine(resource, "read", ThisFrame, Samplers, Samplers, {})
      ELSE Movable(resource, Samplers)
  BY <1>1 DEF Between
<1>7. CASE taa
  <2>1. f.write = 1 - write /\ 1 - f.write = write /\ History[write] # History[1 - write]
    BY <1>1, <1>2, <1>7, HistoryAre DEF HistoryWritten
  <2>2. valid'
    BY <1>2, <1>7
  <2>3. watch = History[write] \/ watch = History[1 - write]
    BY <1>1, HistoryAre
  <2>4. CASE watch = History[1 - write]
    <3>1. watch = History[f.write] /\ watch = History[write'] /\ Movable(resource, Samplers)
      BY <1>2, <1>6, <2>1, <2>4
    <3>2. Fine(resource', "read", ThisFrame, Samplers, Samplers, {})
      BY <1>2, <1>3, <1>4, <1>7, <3>1, HistoryFrame
    <3> QED
      BY <2>2, <3>1, <3>2
  <2>5. CASE watch = History[write]
    <3>1. watch = History[1 - f.write] /\ watch # History[write']
      BY <1>2, <2>1, <2>5
    <3>2. IF f.valid THEN Fine(Older(resource), "read", LastFrame, Samplers, Samplers, {})
          ELSE Movable(Older(resource), Samplers)
      BY <1>2, <1>4, <1>5, <1>6, <2>5
    <3>3. Movable(resource', Samplers)
      BY <1>2, <1>3, <1>7, <3>1, <3>2, OtherHistoryFrame
    <3> QED
      BY <3>1, <3>3
  <2> QED
    BY <2>3, <2>4, <2>5
<1>8. CASE ~taa
  <2>1. ~valid /\ ~valid'
    BY <1>1, <1>2, <1>8 DEF Remembered
  <2>2. Movable(Older(resource), Samplers)
    BY <1>4, <1>6, <2>1
  <2>3. Movable(resource', Samplers)
    BY <1>2, <1>3, <1>8, <2>2, HistoriesRest
  <2> QED
    BY <2>1, <2>3
<1> QED
  BY <1>7, <1>8

LEMMA KeptNext ==
  ASSUME FramesInv, NEW f, NEW created, NEW request, Drew(f, created, request)
  PROVE  /\ watch = "exposure" => Fine(resource', "read", ThisFrame, Samplers, Samplers, {})
         /\ watch \in LutTable => LutBefore(resource', lut')
<1>1. Between(watch, resource, valid, write, exposed, lut, material, ui[Watched].status)
      /\ Remembered
  BY DEF FramesInv
<1>2. /\ IsFrame(f) /\ resource' = Run(Found(created), watch, Record(f))
      /\ f.exposed = exposed /\ f.lut = lut /\ lut' = IF f.air # NoAir THEN f.air ELSE lut
  BY DEF Drew
<1>3. watch \notin {"target", "capture", Ui} => Found(created) = Older(resource)
  BY DEF Found
<1>4. \A src : Movable(resource, src) => Movable(Older(resource), src)
  BY OlderKeeps
<1>5. ASSUME watch = "exposure"
      PROVE  Fine(resource', "read", ThisFrame, Samplers, Samplers, {})
  <2>1. IF exposed THEN Fine(resource, "read", ThisFrame, Samplers, Samplers, {})
        ELSE Movable(resource, Samplers)
    BY <1>1, <1>5 DEF Between
  <2>2. Fine(resource, "read", ThisFrame, Samplers, Samplers, {})
          => Fine(Older(resource), "read", {"last"}, Samplers, Samplers, {})
    BY OlderKeeps DEF ThisFrame, Aged
  <2>3. Found(created) = Older(resource)
    BY <1>3, <1>5 DEF Ui
  <2> QED
    BY <1>2, <1>4, <1>5, <2>1, <2>2, <2>3, ExposureFrame
<1>6. ASSUME watch \in LutTable PROVE LutBefore(resource', lut')
  <2>1. LutBefore(resource, lut) /\ lut \in Air \cup {NoAir}
    BY <1>1, <1>6 DEF Between, Remembered
  <2>2. Found(created) = Older(resource)
    BY <1>3, <1>6 DEF LutTable, Ui
  <2>3. ASSUME lut # NoAir, Fine(resource, "read", {lut}, Compute, Compute, {})
        PROVE  Fine(Older(resource), "read", {lut}, Compute, Compute, {})
    <3>1. Aged(lut) = lut
      BY <2>1, <2>3, NamesAssumption DEF Aged, ThisFrame, LastFrame
    <3> QED
      BY <2>3, <3>1, OlderKeeps
  <2>4. LutBefore(Older(resource), f.lut)
    BY <1>2, <1>4, <2>1, <2>3 DEF LutBefore
  <2> QED
    BY <1>2, <1>6, <2>2, <2>4, LutFrame
<1> QED
  BY <1>5, <1>6

LEMMA BuffersNext ==
  ASSUME FramesInv, NEW f, NEW created, NEW request, Drew(f, created, request)
  PROVE  /\ watch \in {"clusters", "ambient"} =>
              Fine(resource', "buffer", {resource'.holds}, Compute, Compute, {})
         /\ watch = "histogram" => Wrote(resource', "buffer", {"zeroed"}, "compute")
         /\ watch = "capture" =>
              IsState(resource') /\ resource'.faults = {} /\ resource'.layout = "buffer"
         /\ watch = "target" => IsState(resource') /\ resource'.faults = {}
<1>1. Between(watch, resource, valid, write, exposed, lut, material, ui[Watched].status)
  BY DEF FramesInv
<1>2. IsFrame(f) /\ resource' = Run(Found(created), watch, Record(f))
  BY DEF Drew
<1>3. watch \notin {"target", "capture", Ui} => Found(created) = Older(resource)
  BY DEF Found
<1>4. ASSUME watch \in {"clusters", "ambient"}
      PROVE  Fine(resource', "buffer", {resource'.holds}, Compute, Compute, {})
  <2>1. Fine(resource, "buffer", {resource.holds}, Compute, Compute, {})
    BY <1>1, <1>4 DEF Between
  <2>2. Fine(Older(resource), "buffer", {Aged(resource.holds)}, Compute, Compute, {})
    BY <2>1, OlderKeeps
  <2>3. Found(created) = Older(resource)
    BY <1>3, <1>4 DEF Ui
  <2>4. \E holds : Fine(resource', "buffer", holds, Compute, Compute, {})
    BY <1>2, <1>4, <2>2, <2>3, ClustersFrame, AmbientFrame
  <2> QED
    BY <2>4 DEF Fine
<1>5. ASSUME watch = "histogram" PROVE Wrote(resource', "buffer", {"zeroed"}, "compute")
  <2>1. Aged("zeroed") = "zeroed"
    BY DEF Aged
  <2>2. \/ Wrote(resource, "buffer", {"zeroed"}, "compute")
        \/ Fine(resource, "buffer", {"zeroed"}, Compute, {}, Stages)
    BY <1>1, <1>5 DEF Between
  <2>3. \/ Wrote(Older(resource), "buffer", {"zeroed"}, "compute")
        \/ Fine(Older(resource), "buffer", {"zeroed"}, Compute, {}, Stages)
    <3>1. /\ Wrote(resource, "buffer", {"zeroed"}, "compute")
               => Wrote(Older(resource), "buffer", {Aged("zeroed")}, "compute")
          /\ Fine(resource, "buffer", {"zeroed"}, Compute, {}, Stages)
               => Fine(Older(resource), "buffer", {Aged("zeroed")}, Compute, {}, Stages)
      BY OlderKeeps
    <3> QED
      BY <2>1, <2>2, <3>1
  <2>4. Found(created) = Older(resource)
    BY <1>3, <1>5 DEF Ui
  <2> QED
    BY <1>2, <1>5, <2>3, <2>4, HistogramFrame
<1>6. ASSUME watch = "capture"
      PROVE  IsState(resource') /\ resource'.faults = {} /\ resource'.layout = "buffer"
  <2>1. IsState(resource) /\ resource.faults = {} /\ resource.layout = "buffer"
    BY <1>1, <1>6 DEF Between
  <2>2. Found(created) = Settled(resource)
    BY <1>6 DEF Found, Ui
  <2>3. Fine(Settled(resource), "buffer", {resource.holds}, Stages, {}, Stages)
    BY <2>1, SettledIs
  <2> QED
    BY <1>2, <1>6, <2>2, <2>3, CaptureFrame
<1>7. ASSUME watch = "target" PROVE IsState(resource') /\ resource'.faults = {}
  <2>1. Found(created) = Acquired("colour")
    BY <1>7 DEF Found, Ui
  <2> QED
    BY <1>2, <1>7, <2>1, AcquiredIs, TargetFrame
<1> QED
  BY <1>4, <1>5, <1>6, <1>7

LEMMA LevelsNext ==
  ASSUME FramesInv, NEW f, NEW created, NEW request, Drew(f, created, request),
         watch \in Range(Level)
  PROVE  IF material' = 0 THEN Movable(resource', {})
         ELSE Fine(resource', "read", {"data"}, Fragment, Fragment, {})
<1>1. /\ IF material = 0 THEN Movable(resource, {})
         ELSE Fine(resource, "read", {"data"}, Fragment, Fragment, {})
      /\ material \in -1 .. MaxHandles
  BY DEF FramesInv, Between, HandlesInv, Books
<1>2. /\ IsFrame(f) /\ resource' = Run(Found(created), watch, Record(f))
      /\ (f.lands => material = 0 /\ material' # 0) /\ (~f.lands => material' = material)
      /\ (f.landed => material' > 0)
  BY DEF Drew
<1>3. Found(created) = Older(resource)
  <2>1. watch \notin {"target", "capture", Ui}
    BY NamesDiffer DEF Singles, Buffers
  <2> QED
    BY <2>1 DEF Found
<1>4. /\ Movable(resource, {}) => Movable(Older(resource), {})
      /\ Fine(resource, "read", {"data"}, Fragment, Fragment, {})
           => Fine(Older(resource), "read", {"data"}, Fragment, Fragment, {})
  <2>1. Aged("data") = "data"
    BY DEF Aged
  <2>2. Fine(resource, "read", {"data"}, Fragment, Fragment, {})
          => Fine(Older(resource), "read", {Aged("data")}, Fragment, Fragment, {})
    BY OlderKeeps
  <2> QED
    BY <2>1, <2>2, OlderKeeps
<1>5. CASE f.lands
  BY <1>1, <1>2, <1>3, <1>4, <1>5, LevelFrame
<1>6. CASE ~f.lands /\ material # 0
  BY <1>1, <1>2, <1>3, <1>4, <1>6, LevelFrame
<1>7. CASE ~f.lands /\ material = 0
  <2>1. ~f.landed
    BY <1>2, <1>7
  <2> QED
    BY <1>1, <1>2, <1>3, <1>4, <1>7, <2>1, LevelFrame
<1> QED
  BY <1>5, <1>6, <1>7

LEMMA UiNext ==
  ASSUME FramesInv, NEW f, NEW created, NEW request, Drew(f, created, request), watch = Ui
  PROVE  IF ui'[Watched].status = "ok"
         THEN Fine(resource', "read", {"data"}, Fragment, Fragment, {})
         ELSE IsState(resource') /\ resource'.faults = {}
<1> DEFINE status == ui[Watched].status
           after == ui'[Watched].status
<1>1. /\ IF status = "ok" THEN Fine(resource, "read", {"data"}, Fragment, Fragment, {})
         ELSE IsState(resource) /\ resource.faults = {}
      /\ status \in {"none", "wanted", "ok"}
  <2>1. ui[Watched] \in Texture
    BY NamesAre DEF FramesInv, HandlesInv, Books
  <2> QED
    BY <2>1 DEF FramesInv, Between, Texture
<1>2. /\ IsFrame(f) /\ resource' = Run(Found(created), Ui, Record(f))
      /\ f.shown = (after = "ok") /\ created = (request = "create" /\ f.shown)
      /\ f.ui = IF request = "create" /\ ~created THEN "nothing" ELSE request
      /\ Did(ui'[Watched], request) /\ request \in Wants(Watched)
  BY DEF Drew
<1>3. Found(created) = IF created THEN Fresh("undefined") ELSE Older(resource)
  BY DEF Found, Ui
<1>4. IsState(Older(resource)) /\ Older(resource).faults = {}
  BY <1>1, OlderIs DEF Fine
<1>5. status = "ok" => Fine(Older(resource), "read", {"data"}, Fragment, Fragment, {})
  <2>1. Aged("data") = "data"
    BY DEF Aged
  <2>2. Fine(resource, "read", {"data"}, Fragment, Fragment, {})
          => Fine(Older(resource), "read", {Aged("data")}, Fragment, Fragment, {})
    BY OlderKeeps
  <2> QED
    BY <1>1, <2>1, <2>2
<1>6. CASE created
  <2>1. f.ui = "create" /\ after = "ok" /\ Found(created) = Fresh("undefined")
    BY <1>2, <1>3, <1>6
  <2>2. Movable(Found(created), {})
    BY <2>1, FreshIs
  <2> QED
    BY <1>2, <2>1, <2>2, UiFrame
<1>7. CASE ~created
  <2>1. Found(created) = Older(resource) /\ f.ui # "create"
    BY <1>2, <1>3, <1>7
  <2>2. CASE status = "ok" /\ request # "destroy"
    <3>1. request \in {"nothing", "update"}
      BY <1>2, <2>2 DEF Wants
    <3>2. after = "ok"
      BY <1>2, <2>2, <3>1 DEF Did
    <3> QED
      BY <1>2, <1>5, <2>1, <2>2, <3>2, UiFrame
  <2>3. CASE ~(status = "ok" /\ request # "destroy")
    <3>1. f.ui \notin {"create", "update"}
      BY <1>1, <1>2, <1>7, <2>3 DEF Wants
    <3>2. after # "ok"
      <4>1. CASE request = "create"
        BY <1>2, <1>7, <4>1
      <4>2. CASE request = "destroy"
        BY <1>2, <4>2 DEF Did
      <4>3. CASE request \notin {"create", "destroy"}
        BY <1>2, <2>3, <4>3 DEF Did
      <4> QED
        BY <4>1, <4>2, <4>3
    <3> QED
      BY <1>2, <1>4, <2>1, <3>1, <3>2, UiFrame
  <2> QED
    BY <2>2, <2>3
<1> QED
  BY <1>6, <1>7

LEMMA DrawFrames ==
  ASSUME FramesInv, Draws
  PROVE  FramesInv'
<1>1. PICK s \in Drawn, lands \in {FALSE, MayLand}, requests \in Requests :
        Draw(s, lands, requests)
  BY DEF Draws
<1>2. HandlesInv /\ Remembered
  BY DEF FramesInv
<1>3. HandlesInv'
  BY <1>1, <1>2, DrawKeeps
<1>4. PICK f, created : Drew(f, created, requests[Watched])
  BY <1>1, <1>2, DrewIs
<1>5. /\ f.air \in Air \cup {NoAir} /\ valid' = (valid \/ taa) /\ write' = HistoryWritten
      /\ exposed' = TRUE /\ lut' = (IF f.air # NoAir THEN f.air ELSE lut)
      /\ watch' = watch /\ taa' = taa
  BY <1>4 DEF Drew
<1>6. Remembered'
  BY <1>2, <1>5 DEF Remembered
<1> DEFINE request == requests[Watched]
<1> HIDE DEF request
<1>7. Drew(f, created, request)
  BY <1>4 DEF request
<1>8. Between(watch, resource', valid', write', TRUE, lut', material', ui'[Watched].status)
  BY <1>7, ScreenNext, HistoriesNext, KeptNext, BuffersNext, LevelsNext, UiNext DEF Between
<1>9. Between(watch', resource', valid', write', exposed', lut', material', ui'[Watched].status)
  BY <1>5, <1>8
<1> QED
  BY <1>3, <1>6, <1>9, BetweenPrimed DEF FramesInv

LEMMA NextFrames == FramesInv /\ [Next]_vars => FramesInv'
<1> SUFFICES ASSUME FramesInv, [Next]_vars PROVE FramesInv'
  OBVIOUS
<1>1. CASE Draws
  BY <1>1, DrawFrames
<1>2. CASE OnSwapchainChanged
  BY <1>2, ChangeKeeps
<1>3. CASE ~Draws /\ ~OnSwapchainChanged
  BY <1>3, SettingsKeep DEF Next
<1> QED
  BY <1>1, <1>2, <1>3

LEMMA FramesInvHolds == FramesInv => Synchronised /\ ReadsFresh
<1> SUFFICES ASSUME FramesInv PROVE Synchronised /\ ReadsFresh
  OBVIOUS
<1>1. resource.faults = {}
  BY NothingWrong DEF FramesInv, HandlesInv
<1> QED
  BY <1>1 DEF Synchronised, ReadsFresh

\* Every frame finds each resource as the last one, or the rebuild, left it.
LEMMA FramesStay == Spec => []FramesInv
BY InitFrames, NextFrames, PTL DEF Spec

\* Whatever is drawn, in whatever order TAA, captures, airs and textures come and
\* go, and the targets are made again, with any texture's mip levels and any
\* number of frames in flight: every access of every frame's commands finds its
\* image in the layout it names, and is ordered after what it may not overtake.
THEOREM AccessesAreSynchronised == Spec => []Synchronised
BY FramesStay, FramesInvHolds, PTL

\* And it reads what was written for it: this frame's targets, the last frame's
\* history and exposure, LUTs of the air that is drawn, bins that are zeroed.
THEOREM ReadsAreFresh == Spec => []ReadsFresh
BY FramesStay, FramesInvHolds, PTL

=============================================================================
