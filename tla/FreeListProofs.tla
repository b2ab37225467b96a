--------------------------- MODULE FreeListProofs ---------------------------
(***************************************************************************)
(* The allocators keep their lists, and their promise, for every size of   *)
(* heap, header, slack and boundary, after any number of calls.            *)
(***************************************************************************)
EXTENDS FreeList, FiniteRanges

BlockRecords == [size : 0 .. Top, free : BOOLEAN]

\* A list that tiles the heap.
IsList(bl) ==
  /\ DOMAIN bl \subseteq 0 .. Top
  /\ bl \in [DOMAIN bl -> BlockRecords]
  /\ Tiled(bl)

InUse(bl) == {a \in DOMAIN bl : ~bl[a].free}

\* No two free blocks side by side.
NoneFollows(bl) == \A a \in DOMAIN bl : ~FollowsFree(bl, a)

LEMMA Sizes ==
  ASSUME heap \in Heaps
  PROVE  /\ Top \in Nat /\ H \in Nat /\ H > 0 /\ H <= Top
         /\ Slack[heap] \in Nat /\ Boundary[heap] \in Nat
         /\ Requests \subseteq Nat
BY HeapAssumption DEF Top, H, Requests

\* The least member, as Min names it.
LEMMA MinIsLeast ==
  ASSUME NEW n \in Int, NEW T, T \subseteq 0 .. n, T # {}
  PROVE  Min(T) \in T /\ \A y \in T : Min(T) <= y
<1>1. \E x \in T : \A y \in T : x <= y
  BY MinExists
<1> QED BY <1>1 DEF Min

(***************************************************************************)
(* Facts about one list.                                                   *)
(***************************************************************************)
LEMMA ListFields ==
  ASSUME heap \in Heaps, NEW bl, IsList(bl), NEW a \in DOMAIN bl
  PROVE  /\ a \in 0 .. Top /\ bl[a].size \in 0 .. Top /\ bl[a].free \in BOOLEAN
         /\ bl[a] = Block(bl[a].size, bl[a].free)
         /\ End(bl, a) \in Nat /\ a + H <= End(bl, a) /\ End(bl, a) <= Top /\ a < Top
         /\ End(bl, a) = a + H + bl[a].size
<1>1. a \in 0 .. Top /\ bl[a] \in BlockRecords
  BY DEF IsList
<1>2. /\ bl[a].size \in 0 .. Top /\ bl[a].free \in BOOLEAN
      /\ bl[a] = Block(bl[a].size, bl[a].free)
  BY <1>1 DEF BlockRecords, Block
<1>3. End(bl, a) = a + H + bl[a].size
  BY DEF End
<1>4. End(bl, a) \in 0 .. Top
  <2>1. End(bl, a) \in DOMAIN bl \cup {Top}
    BY DEF IsList, Tiled
  <2> QED BY <2>1, Sizes DEF IsList
<1> QED BY <1>1, <1>2, <1>3, <1>4, Sizes

\* Each address of the heap is in a block: the last that begins at or before it.
LEMMA Covered ==
  ASSUME heap \in Heaps, NEW bl, IsList(bl), NEW x \in 0 .. Top - 1
  PROVE  \E c \in DOMAIN bl : c <= x /\ x < End(bl, c)
<1> DEFINE T == {c \in DOMAIN bl : c <= x}
<1>1. Top \in Int /\ T \subseteq 0 .. Top /\ T # {}
  <2>1. 0 \in DOMAIN bl
    BY DEF IsList, Tiled
  <2> QED BY <2>1, Sizes DEF IsList
<1>2. PICK c \in T : \A d \in T : d <= c
  <2> HIDE DEF T
  <2> QED BY <1>1, MaxExists
<1>3. x < End(bl, c)
  <2> SUFFICES ASSUME ~(x < End(bl, c)) PROVE FALSE
    OBVIOUS
  <2>1. c \in DOMAIN bl
    OBVIOUS
  <2>2. End(bl, c) \in Nat /\ c + H <= End(bl, c) /\ c \in Nat
    BY <2>1, ListFields
  <2>3. End(bl, c) <= x /\ End(bl, c) # Top
    BY <2>2, Sizes
  <2>4. End(bl, c) \in DOMAIN bl
    BY <2>1, <2>3 DEF IsList, Tiled
  <2>5. End(bl, c) <= c
    BY <2>3, <2>4, <1>2
  <2> QED BY <2>2, <2>5, Sizes
<1> QED BY <1>3

\* Where one block ends the other begins, or it ends before.
LEMMA Apart ==
  ASSUME heap \in Heaps, NEW bl, IsList(bl), NEW a \in DOMAIN bl, NEW b \in DOMAIN bl, a # b
  PROVE  End(bl, a) <= b \/ End(bl, b) <= a
<1>1. a \in Nat /\ b \in Nat
  BY ListFields
<1> QED BY <1>1 DEF IsList, Tiled

\* Changing is_free moves no header.
LEMMA MarkedList ==
  ASSUME heap \in Heaps, NEW bl, IsList(bl), NEW a \in DOMAIN bl, NEW f \in BOOLEAN
  PROVE  /\ IsList(Marked(bl, a, f)) /\ DOMAIN Marked(bl, a, f) = DOMAIN bl
         /\ Marked(bl, a, f)[a] = Block(bl[a].size, f)
         /\ \A x \in DOMAIN bl : /\ x # a => Marked(bl, a, f)[x] = bl[x]
                                /\ End(Marked(bl, a, f), x) = End(bl, x)
<1> DEFINE m == Marked(bl, a, f)
<1>1. /\ DOMAIN m = DOMAIN bl
      /\ m[a] = Block(bl[a].size, f)
      /\ \A x \in DOMAIN bl : x # a => m[x] = bl[x]
  BY DEF IsList, Marked
<1>2. m \in [DOMAIN m -> BlockRecords]
  <2>1. m[a] \in BlockRecords
    BY <1>1, ListFields DEF Block, BlockRecords
  <2>2. Block(bl[a].size, f) \in BlockRecords
    BY <2>1, <1>1
  <2>3. bl \in [DOMAIN bl -> BlockRecords]
    BY DEF IsList
  <2> QED BY <2>2, <2>3, <1>1 DEF Marked
<1> HIDE DEF m
<1>3. ASSUME NEW x \in DOMAIN bl PROVE m[x].size = bl[x].size
  <2>1. CASE x = a
    BY <1>1, <2>1 DEF Block
  <2>2. CASE x # a
    BY <1>1, <2>2
  <2> QED BY <2>1, <2>2
<1>4. \A x \in DOMAIN bl : End(m, x) = End(bl, x)
  BY <1>3 DEF End
<1>5. Tiled(m)
  BY <1>1, <1>4 DEF IsList, Tiled
<1>6. IsList(m)
  BY <1>1, <1>2, <1>5 DEF IsList
<1> QED BY <1>1, <1>4, <1>6 DEF m

\* Taking from a free block that is large enough: the list still tiles the heap,
\* that block is in use and large enough, and the blocks in use before are as they were.
LEMMA TakenList ==
  ASSUME heap \in Heaps, NEW bl, IsList(bl), NEW a \in DOMAIN bl, bl[a].free,
         NEW r \in Nat, bl[a].size >= r,
         NEW t, t = Taken(bl, a, r)
  PROVE  /\ IsList(t)
         /\ InUse(t) = InUse(bl) \cup {a}
         /\ a \in DOMAIN t /\ t[a].size >= r
         /\ \A x \in InUse(bl) : t[x] = bl[x]
         /\ NoneFollows(bl) => NoneFollows(t)
<1>a. /\ a \in 0 .. Top /\ bl[a].size \in 0 .. Top /\ End(bl, a) \in Nat /\ End(bl, a) <= Top
      /\ End(bl, a) = a + H + bl[a].size
  BY ListFields
<1>s. Top \in Nat /\ H \in Nat /\ H > 0 /\ H <= Top /\ Slack[heap] \in Nat
  BY Sizes
<1>1. CASE ~Splits(bl, a, r)
  <2>1. t = Marked(bl, a, FALSE)
    BY <1>1 DEF Taken
  <2>2. /\ IsList(t) /\ DOMAIN t = DOMAIN bl
        /\ t[a] = Block(bl[a].size, FALSE)
        /\ \A x \in DOMAIN bl : (x # a => t[x] = bl[x]) /\ End(t, x) = End(bl, x)
    <3>1. FALSE \in BOOLEAN
      OBVIOUS
    <3>2. \A f \in BOOLEAN :
            /\ IsList(Marked(bl, a, f)) /\ DOMAIN Marked(bl, a, f) = DOMAIN bl
            /\ Marked(bl, a, f)[a] = Block(bl[a].size, f)
            /\ \A x \in DOMAIN bl : /\ x # a => Marked(bl, a, f)[x] = bl[x]
                                   /\ End(Marked(bl, a, f), x) = End(bl, x)
      BY MarkedList
    <3> QED BY <2>1, <3>1, <3>2, Zenon
  <2>3. ~t[a].free /\ t[a].size = bl[a].size
    BY <2>2 DEF Block
  <2>4. InUse(t) = InUse(bl) \cup {a}
    BY <2>2, <2>3 DEF InUse
  <2>5. \A x \in InUse(bl) : t[x] = bl[x]
    BY <2>2 DEF InUse
  <2>6. NoneFollows(bl) => NoneFollows(t)
    BY <2>2, <2>3 DEF NoneFollows, FollowsFree
  <2> QED BY <2>2, <2>3, <2>4, <2>5, <2>6
<1>2. CASE Splits(bl, a, r)
  <2> DEFINE rest == a + H + r
             left == bl[a].size - r - H
  <2>1. /\ rest \in 0 .. Top /\ left \in 0 .. Top /\ a < rest /\ rest < End(bl, a) /\ r \in 0 .. Top
        /\ rest + H + left = End(bl, a)
    BY <1>2, <1>a, <1>s DEF Splits
  <2>2. rest \notin DOMAIN bl
    <3> SUFFICES ASSUME rest \in DOMAIN bl PROVE FALSE
      OBVIOUS
    <3>1. End(bl, a) <= rest
      BY <2>1 DEF IsList, Tiled
    <3> QED BY <3>1, <2>1, <1>a
  <2>3. t = [x \in DOMAIN bl \cup {rest} |->
               IF x = a THEN Block(r, FALSE)
               ELSE IF x = rest THEN Block(left, TRUE)
               ELSE bl[x]]
    BY <1>2 DEF Taken, RestSize
  <2> HIDE DEF left
  <2>4. /\ DOMAIN t = DOMAIN bl \cup {rest}
        /\ t[a] = Block(r, FALSE) /\ t[rest] = Block(left, TRUE)
        /\ \A x \in DOMAIN bl : x # a => t[x] = bl[x]
    BY <2>1, <2>2, <2>3
  <2>5. /\ End(t, a) = rest /\ End(t, rest) = End(bl, a)
        /\ \A x \in DOMAIN bl : x # a => End(t, x) = End(bl, x)
    BY <2>1, <2>4 DEF End, Block
  <2>6. ~t[a].free /\ t[rest].free /\ t[a].size = r
    BY <2>4 DEF Block
  <2>7. t \in [DOMAIN t -> BlockRecords]
    <3>1. Block(r, FALSE) \in BlockRecords /\ Block(left, TRUE) \in BlockRecords
      BY <2>1 DEF Block, BlockRecords
    <3>2. \A x \in DOMAIN bl : bl[x] \in BlockRecords
      BY DEF IsList
    <3>3. \A x \in DOMAIN t : t[x] \in BlockRecords
      BY <3>1, <3>2, <2>4
    <3> QED BY <3>3, <2>3
  <2> HIDE DEF rest
  <2>8. Tiled(t)
    <3>1. 0 \in DOMAIN t
      BY <2>4 DEF IsList, Tiled
    <3>2. ASSUME NEW x \in DOMAIN t PROVE End(t, x) \in DOMAIN t \cup {Top}
      BY <2>4, <2>5 DEF IsList, Tiled
    <3>3. ASSUME NEW x \in DOMAIN t, NEW y \in DOMAIN t, x < y PROVE End(t, x) <= y
      <4>1. CASE x = a /\ y = rest
        BY <4>1, <2>5, <2>1
      <4>2. CASE x = a /\ y # rest
        <5>1. End(bl, a) <= y
          BY <4>2, <3>3, <2>4 DEF IsList, Tiled
        <5>2. y \in 0 .. Top
          BY <4>2, <2>4 DEF IsList
        <5> QED BY <5>1, <5>2, <4>2, <2>5, <2>1, <1>a
      <4>3. CASE x = rest
        <5>1. y \in DOMAIN bl /\ y \in 0 .. Top /\ a < y
          BY <4>3, <3>3, <2>4, <2>1, <1>a DEF IsList
        <5> QED BY <5>1, <4>3, <2>5 DEF IsList, Tiled
      <4>4. CASE x # a /\ x # rest /\ y = rest
        <5>1. x \in DOMAIN bl /\ End(t, x) = End(bl, x)
          BY <4>4, <2>4, <2>5
        <5>2. x \in Nat /\ End(bl, x) \in Nat /\ x <= End(bl, x)
          BY <5>1, <1>s, ListFields
        <5>3. End(bl, x) <= a \/ End(bl, a) <= x
          BY <5>1, <4>4, Apart
        <5> QED BY <5>1, <5>2, <5>3, <4>4, <3>3, <2>1, <1>a
      <4>5. CASE x # a /\ x # rest /\ y # rest
        BY <4>5, <3>3, <2>4, <2>5 DEF IsList, Tiled
      <4> QED BY <4>1, <4>2, <4>3, <4>4, <4>5
    <3> QED BY <3>1, <3>2, <3>3 DEF Tiled
  <2>9. IsList(t)
    BY <2>7, <2>8, <2>4, <2>1 DEF IsList
  <2>10. InUse(t) = InUse(bl) \cup {a}
    BY <2>2, <2>4, <2>6 DEF InUse
  <2>11. \A x \in InUse(bl) : t[x] = bl[x]
    BY <2>4 DEF InUse
  <2>12. ASSUME NoneFollows(bl) PROVE NoneFollows(t)
    <3> SUFFICES ASSUME NEW y \in DOMAIN t, t[y].free, NEW x \in DOMAIN t, t[x].free, End(t, x) = y
                 PROVE  FALSE
      BY DEF NoneFollows, FollowsFree
    <3>1. x # a /\ y # a
      BY <2>6
    <3>2. CASE x = rest
      <4>1. y = End(bl, a) /\ y # rest
        BY <3>2, <2>5, <2>1
      <4>2. y \in DOMAIN bl /\ bl[y].free
        BY <4>1, <3>1, <2>4
      <4> QED BY <4>1, <4>2, <2>12 DEF NoneFollows, FollowsFree
    <3>3. CASE x # rest
      <4>1. x \in DOMAIN bl /\ bl[x].free /\ End(bl, x) = y
        BY <3>1, <3>3, <2>4, <2>5
      <4>2. CASE y = rest
        <5>1. End(bl, x) <= a \/ End(bl, a) <= x
          BY <4>1, <3>1, Apart
        <5>2. x \in Nat /\ x < y
          BY <4>1, <1>s, ListFields
        <5> QED BY <5>1, <5>2, <4>1, <4>2, <2>1, <1>a
      <4>3. CASE y # rest
        BY <4>1, <4>3, <3>1, <2>4, <2>12 DEF NoneFollows, FollowsFree
      <4> QED BY <4>2, <4>3
    <3> QED BY <3>2, <3>3
  <2>13. a \in DOMAIN t /\ t[a].size >= r
    <3>1. r >= r
      OBVIOUS
    <3> QED BY <3>1, <2>4, <2>6
  <2> QED BY <2>9, <2>10, <2>11, <2>12, <2>13
<1> QED BY <1>1, <1>2

\* What the coalescing walk leaves: a list that tiles the heap, with no two free
\* blocks side by side, and with the blocks in use as they were.
LEMMA FusedList ==
  ASSUME heap \in Heaps, NEW bl, IsList(bl)
  PROVE  /\ IsList(Fused(bl)) /\ NoneFollows(Fused(bl))
         /\ InUse(Fused(bl)) = InUse(bl)
         /\ \A x \in InUse(bl) : Fused(bl)[x] = bl[x]
<1> DEFINE kept == {a \in DOMAIN bl : ~FollowsFree(bl, a)}
           After(a) == {b \in kept : b > a} \cup {Top}
           next(a) == Min(After(a))
           F == Fused(bl)
<1>s. Top \in Nat /\ H \in Nat /\ H > 0 /\ H <= Top
  BY Sizes
<1>d. \A x \in DOMAIN bl : /\ x \in 0 .. Top /\ x < Top /\ End(bl, x) \in Nat
                           /\ x + H <= End(bl, x) /\ End(bl, x) <= Top
                           /\ bl[x].size \in 0 .. Top /\ bl[x].free \in BOOLEAN
                           /\ End(bl, x) = x + H + bl[x].size
  BY ListFields
<1>1. F = [a \in kept |-> Block(next(a) - a - H, bl[a].free)]
  BY DEF Fused
<1>2. ASSUME NEW a \in DOMAIN bl
      PROVE  /\ next(a) \in kept \cup {Top}
             /\ next(a) \in 0 .. Top /\ a < next(a) /\ End(bl, a) <= next(a)
             /\ \A b \in kept : a < b => next(a) <= b
  <2>1. Top \in Int /\ After(a) \subseteq 0 .. Top /\ After(a) # {}
    BY <1>d, <1>s
  <2>2. next(a) \in After(a) /\ \A b \in After(a) : next(a) <= b
    <3> HIDE DEF After
    <3> QED BY <2>1, MinIsLeast
  <2> HIDE DEF next
  <2>3. next(a) \in kept \cup {Top} /\ next(a) \in 0 .. Top /\ a < next(a)
    BY <2>2, <2>1, <1>d
  <2>4. End(bl, a) <= next(a)
    <3>1. CASE next(a) = Top
      BY <3>1, <1>d
    <3>2. CASE next(a) \in kept
      <4>1. next(a) \in DOMAIN bl
        BY <3>2
      <4> QED BY <4>1, <2>3 DEF IsList, Tiled
    <3> QED BY <3>1, <3>2, <2>3
  <2>5. ASSUME NEW b \in kept, a < b PROVE next(a) <= b
    <3>1. b \in After(a)
      BY <2>5, <1>d
    <3> QED BY <3>1, <2>2
  <2> QED BY <2>3, <2>4, <2>5
<1> HIDE DEF next, F
<1>3. DOMAIN F = kept /\ \A a \in kept : F[a] = Block(next(a) - a - H, bl[a].free)
  BY <1>1
<1>4. \A a \in kept : F[a].size = next(a) - a - H /\ F[a].free = bl[a].free
  BY <1>3 DEF Block
<1>5. \A a \in kept : next(a) - a - H \in 0 .. Top /\ End(F, a) = next(a)
  <2> SUFFICES ASSUME NEW a \in kept
               PROVE  next(a) - a - H \in 0 .. Top /\ End(F, a) = next(a)
    OBVIOUS
  <2>1. a \in DOMAIN bl
    OBVIOUS
  <2>2. End(F, a) = a + H + (next(a) - a - H)
    BY <1>4 DEF End
  <2> QED BY <2>1, <2>2, <1>2, <1>d, <1>s
<1>6. 0 \in kept
  <2>1. 0 \in DOMAIN bl
    BY DEF IsList, Tiled
  <2> QED BY <2>1, <1>d, <1>s DEF FollowsFree
<1>7. IsList(F)
  <2>1. F \in [DOMAIN F -> BlockRecords]
    <3>1. ASSUME NEW a \in kept PROVE Block(next(a) - a - H, bl[a].free) \in BlockRecords
      BY <1>5, <1>d DEF Block, BlockRecords
    <3>2. \A a \in kept : F[a] \in BlockRecords
      BY <3>1, <1>3
    <3> QED BY <1>1, <1>3, <3>2
  <2>2. DOMAIN F \subseteq 0 .. Top
    BY <1>3, <1>d
  <2>3. Tiled(F)
    BY <1>2, <1>3, <1>5, <1>6 DEF Tiled
  <2> QED BY <2>1, <2>2, <2>3 DEF IsList
<1>8. ASSUME NEW x \in InUse(bl) PROVE x \in kept /\ next(x) = End(bl, x)
  <2>1. x \in DOMAIN bl /\ ~bl[x].free
    BY DEF InUse
  <2>2. x \in kept
    BY <2>1 DEF FollowsFree
  <2>3. CASE End(bl, x) = Top
    BY <2>2, <2>3, <2>1, <1>2, <1>d
  <2>4. CASE End(bl, x) # Top
    <3>1. End(bl, x) \in DOMAIN bl
      BY <2>1, <2>4 DEF IsList, Tiled
    <3>2. ASSUME FollowsFree(bl, End(bl, x)) PROVE FALSE
      <4>1. PICK b \in DOMAIN bl : bl[b].free /\ End(bl, b) = End(bl, x)
        BY <3>2 DEF FollowsFree
      <4>2. b # x
        BY <4>1, <2>1
      <4>3. End(bl, b) <= x \/ End(bl, x) <= b
        BY <4>2, <2>1, Apart
      <4> QED BY <4>1, <4>3, <2>1, <1>d, <1>s
    <3>3. End(bl, x) \in kept
      BY <3>1, <3>2
    <3>4. next(x) <= End(bl, x)
      BY <3>3, <2>1, <1>2, <1>d, <1>s
    <3> QED BY <3>4, <2>2, <2>1, <1>2, <1>d
  <2> QED BY <2>3, <2>4
<1>9. \A x \in InUse(bl) : F[x] = bl[x]
  <2> SUFFICES ASSUME NEW x \in InUse(bl) PROVE F[x] = bl[x]
    OBVIOUS
  <2>1. x \in kept /\ next(x) = End(bl, x) /\ x \in DOMAIN bl
    BY <1>8 DEF InUse
  <2>2. next(x) - x - H = bl[x].size
    BY <2>1, <1>d, <1>s
  <2>3. bl[x] = Block(bl[x].size, bl[x].free)
    BY <2>1, ListFields
  <2> QED BY <2>1, <2>2, <2>3, <1>3
<1>10. InUse(F) = InUse(bl)
  <2>1. \A x : x \in InUse(F) => x \in InUse(bl)
    BY <1>3, <1>4 DEF InUse
  <2>2. \A x : x \in InUse(bl) => x \in InUse(F)
    BY <1>3, <1>4, <1>8 DEF InUse
  <2> QED BY <2>1, <2>2
<1>11. NoneFollows(F)
  <2> SUFFICES ASSUME NEW a \in kept, F[a].free, NEW b \in kept, F[b].free, End(F, b) = a
               PROVE  FALSE
    BY <1>3 DEF NoneFollows, FollowsFree
  <2>1. bl[a].free /\ bl[b].free /\ next(b) = a /\ a \in DOMAIN bl /\ b \in DOMAIN bl
    BY <1>4, <1>5
  <2>2. a \in 0 .. Top /\ a < Top /\ b \in 0 .. Top /\ b < a
    BY <2>1, <1>2, <1>d
  <2>3. a - 1 \in 0 .. Top - 1
    BY <2>2, <1>s
  <2>4. PICK c \in DOMAIN bl : c <= a - 1 /\ a - 1 < End(bl, c)
    BY <2>3, Covered
  <2>5. End(bl, c) = a
    <3>1. c < a
      BY <2>4, <2>2, <1>d
    <3>2. End(bl, c) <= a
      BY <3>1, <2>1 DEF IsList, Tiled
    <3> QED BY <3>2, <2>4, <2>2, <1>d
  <2>6. CASE bl[c].free
    BY <2>6, <2>5, <2>1 DEF FollowsFree
  <2>7. CASE ~bl[c].free
    <3>1. c \in kept /\ c # b
      BY <2>7, <2>1 DEF FollowsFree
    <3>2. End(bl, b) <= c \/ End(bl, c) <= b
      BY <3>1, <2>1, Apart
    <3>3. b < c /\ c < a
      BY <3>2, <2>5, <2>4, <2>2, <2>1, <1>d, <1>s
    <3> QED BY <3>1, <3>3, <2>1, <2>2, <1>2, <1>d
  <2> QED BY <2>6, <2>7
<1> QED BY <1>7, <1>9, <1>10, <1>11 DEF F

\* Freeing a block in use.
LEMMA FreedList ==
  ASSUME heap \in Heaps, NEW bl, IsList(bl), NEW a \in DOMAIN bl
  PROVE  /\ IsList(Freed(bl, a)) /\ NoneFollows(Freed(bl, a))
         /\ InUse(Freed(bl, a)) = InUse(bl) \ {a}
         /\ \A x \in InUse(bl) \ {a} : Freed(bl, a)[x] = bl[x]
<1> DEFINE m == Marked(bl, a, TRUE)
<1>1. TRUE \in BOOLEAN
  OBVIOUS
<1>2. \A f \in BOOLEAN :
        /\ IsList(Marked(bl, a, f)) /\ DOMAIN Marked(bl, a, f) = DOMAIN bl
        /\ Marked(bl, a, f)[a] = Block(bl[a].size, f)
        /\ \A x \in DOMAIN bl : /\ x # a => Marked(bl, a, f)[x] = bl[x]
                               /\ End(Marked(bl, a, f), x) = End(bl, x)
  BY MarkedList
<1>3. /\ IsList(m) /\ DOMAIN m = DOMAIN bl /\ m[a] = Block(bl[a].size, TRUE)
      /\ \A x \in DOMAIN bl : x # a => m[x] = bl[x]
  BY <1>1, <1>2, Zenon
<1> HIDE DEF m
<1>4. /\ IsList(Fused(m)) /\ NoneFollows(Fused(m)) /\ InUse(Fused(m)) = InUse(m)
      /\ \A x \in InUse(m) : Fused(m)[x] = m[x]
  BY <1>3, FusedList
<1>5. m[a].free
  BY <1>3 DEF Block
<1>6. InUse(m) = InUse(bl) \ {a}
  BY <1>3, <1>5 DEF InUse
<1>7. \A x \in InUse(bl) \ {a} : m[x] = bl[x]
  BY <1>3 DEF InUse
<1>8. Freed(bl, a) = Fused(m)
  BY DEF Freed, m
<1> QED BY <1>4, <1>6, <1>7, <1>8

(***************************************************************************)
(* The list and the callers.                                               *)
(***************************************************************************)
Agree(bl, g) ==
  /\ IsList(bl) /\ NoneFollows(bl)
  /\ DOMAIN g = InUse(bl)
  /\ g \in [DOMAIN g -> Requests]
  /\ \A a \in DOMAIN g : bl[a].size >= g[a]
  /\ Boundary[heap] > 0 => \A a \in DOMAIN g : ~Crosses(a, g[a])

Added(g, a, r) == [x \in DOMAIN g \cup {a} |-> IF x = a THEN r ELSE g[x]]

LEMMA TakenAgrees ==
  ASSUME heap \in Heaps, Agree(blocks, given), NEW r \in Requests, NEW a \in Candidates(r)
  PROVE  Agree(Taken(blocks, a, r), Added(given, a, r))
<1> DEFINE t == Taken(blocks, a, r)
           g == Added(given, a, r)
<1>1. a \in DOMAIN blocks /\ blocks[a].free /\ blocks[a].size >= r /\ ~Crosses(a, r)
  BY DEF Candidates, Usable
<1>2. r \in Nat /\ IsList(blocks)
  BY Sizes DEF Agree
<1>3. /\ IsList(t) /\ InUse(t) = InUse(blocks) \cup {a}
      /\ a \in DOMAIN t /\ t[a].size >= r
      /\ \A x \in InUse(blocks) : t[x] = blocks[x]
      /\ NoneFollows(blocks) => NoneFollows(t)
  BY <1>1, <1>2, TakenList
<1> HIDE DEF t
<1>4. a \notin DOMAIN given
  BY <1>1 DEF Agree, InUse
<1>5. /\ DOMAIN g = DOMAIN given \cup {a} /\ g[a] = r
      /\ \A x \in DOMAIN given : g[x] = given[x]
      /\ g \in [DOMAIN g -> Requests]
  BY <1>4 DEF Agree, Added
<1> HIDE DEF g
<1>6. \A x \in DOMAIN g : t[x].size >= g[x]
  BY <1>3, <1>5 DEF Agree
<1>7. Boundary[heap] > 0 => \A x \in DOMAIN g : ~Crosses(x, g[x])
  BY <1>1, <1>5 DEF Agree
<1>8. Agree(t, g)
  BY <1>3, <1>5, <1>6, <1>7 DEF Agree
<1> QED BY <1>8 DEF t, g

LEMMA FreedAgrees ==
  ASSUME heap \in Heaps, NEW bl, NEW g, Agree(bl, g), NEW a \in DOMAIN g
  PROVE  Agree(Freed(bl, a), Without(g, a))
<1> DEFINE f == Freed(bl, a)
           w == Without(g, a)
<1>1. IsList(bl) /\ a \in DOMAIN bl /\ DOMAIN g = InUse(bl)
  BY DEF Agree, InUse
<1>2. /\ IsList(f) /\ NoneFollows(f) /\ InUse(f) = InUse(bl) \ {a}
      /\ \A x \in InUse(bl) \ {a} : f[x] = bl[x]
  BY <1>1, FreedList
<1> HIDE DEF f
<1>3. /\ DOMAIN w = DOMAIN g \ {a} /\ \A x \in DOMAIN w : w[x] = g[x]
      /\ w \in [DOMAIN w -> Requests]
  BY DEF Without, Agree
<1> HIDE DEF w
<1>4. \A x \in DOMAIN w : f[x].size >= w[x]
  BY <1>1, <1>2, <1>3 DEF Agree
<1>5. Boundary[heap] > 0 => \A x \in DOMAIN w : ~Crosses(x, w[x])
  BY <1>3 DEF Agree
<1>6. Agree(f, w)
  BY <1>1, <1>2, <1>3, <1>4, <1>5 DEF Agree
<1> QED BY <1>6 DEF f, w

\* The first fit is one of the candidates.
LEMMA FirstFit ==
  ASSUME heap \in Heaps, IsList(blocks), NEW r, Candidates(r) # {}
  PROVE  Min(Candidates(r)) \in Candidates(r)
<1>1. Top \in Int /\ Candidates(r) \subseteq 0 .. Top
  BY Sizes DEF Candidates, IsList
<1> QED BY <1>1, MinIsLeast

(***************************************************************************)
(* The inductive invariant: besides the list and the callers' regions, that *)
(* no two free blocks are side by side, that what was given crosses no      *)
(* boundary, and that there is still no block for a request just refused.   *)
(***************************************************************************)
Inv ==
  /\ heap \in Heaps
  /\ Agree(blocks, given)
  /\ refused \in Requests \cup {NoAnswer}
  /\ refused # NoAnswer => Candidates(refused) = {}

LEMMA AgreePrimed ==
  ASSUME heap' = heap, Agree(blocks', given')
  PROVE  Agree(blocks, given)'
BY DEF Agree, IsList, Tiled, End, H, Top, NoneFollows, FollowsFree, InUse, BlockRecords, Crosses

LEMMA NoAnswerIsNone == NoAnswer \notin Requests
BY DEF NoAnswer, Requests

LEMMA InitInv == Init => Inv
<1> SUFFICES ASSUME Init PROVE Inv
  OBVIOUS
<1>s. Top \in Nat /\ H \in Nat /\ H > 0 /\ H <= Top
  BY Sizes DEF Init
<1>1. DOMAIN blocks = {0} /\ blocks[0].size = Top - H /\ blocks[0].free
  BY DEF Init, Block
<1>2. End(blocks, 0) = Top
  <2>1. End(blocks, 0) = 0 + H + (Top - H)
    BY <1>1 DEF End
  <2> QED BY <2>1, <1>s
<1>3. blocks \in [DOMAIN blocks -> BlockRecords]
  <2>1. Block(Top - H, TRUE) \in BlockRecords
    BY <1>s DEF Block, BlockRecords
  <2> QED BY <2>1 DEF Init
<1>4. IsList(blocks)
  BY <1>1, <1>2, <1>3, <1>s DEF IsList, Tiled
<1>5. NoneFollows(blocks)
  <2>1. Top # 0
    BY <1>s
  <2> QED BY <1>1, <1>2, <2>1 DEF NoneFollows, FollowsFree
<1>6. InUse(blocks) = {} /\ DOMAIN given = {}
  BY <1>1 DEF Init, InUse
<1>7. given \in [DOMAIN given -> Requests]
  BY <1>6 DEF Init
<1>8. Agree(blocks, given)
  BY <1>4, <1>5, <1>6, <1>7 DEF Agree
<1> QED BY <1>8 DEF Init, Inv

LEMMA Step == Inv /\ [Next]_vars => Inv'
<1> SUFFICES ASSUME Inv, [Next]_vars PROVE Inv'
  OBVIOUS
<1>h. heap \in Heaps /\ Agree(blocks, given) /\ IsList(blocks)
  BY DEF Inv, Agree
<1>k. ASSUME heap' = heap, Agree(blocks', given'), refused' = NoAnswer PROVE Inv'
  BY <1>k, <1>h, AgreePrimed DEF Inv
<1>1. ASSUME NEW r \in Requests, Alloc(r) PROVE Inv'
  <2>1. Min(Candidates(r)) \in Candidates(r)
    BY <1>1, <1>h, FirstFit DEF Alloc
  <2>2. /\ blocks' = Taken(blocks, Min(Candidates(r)), r)
        /\ given' = Added(given, Min(Candidates(r)), r)
        /\ heap' = heap /\ refused' = NoAnswer
    BY <1>1 DEF Alloc, With, Added
  <2> QED BY <2>1, <2>2, <1>h, <1>k, TakenAgrees
<1>2. ASSUME NEW r \in Requests, AllocFails(r) PROVE Inv'
  <2>1. (refused # NoAnswer => Candidates(refused) = {})'
    BY <1>2 DEF AllocFails, Candidates, Usable, Crosses, H
  <2>2. Agree(blocks, given)'
    BY <1>2, <1>h, AgreePrimed DEF AllocFails
  <2> QED BY <1>2, <1>h, <2>1, <2>2 DEF Inv, AllocFails
<1>3. ASSUME NEW a \in DOMAIN given, Free(a) PROVE Inv'
  BY <1>3, <1>h, <1>k, FreedAgrees DEF Free
<1>4. ASSUME NEW a \in DOMAIN given, NEW r \in Requests, ReallocInPlace(a, r) PROVE Inv'
  <2>1. Boundary[heap] = 0
    BY <1>4, <1>h, HeapAssumption DEF ReallocInPlace
  <2>2. /\ blocks[a].size >= r /\ given' = [given EXCEPT ![a] = r]
        /\ blocks' = blocks /\ heap' = heap /\ refused' = NoAnswer
    BY <1>4 DEF ReallocInPlace
  <2>3. /\ DOMAIN given' = DOMAIN given /\ given'[a] = r
        /\ \A x \in DOMAIN given : x # a => given'[x] = given[x]
        /\ given' \in [DOMAIN given' -> Requests]
    BY <2>2, <1>h DEF Agree
  <2>4. \A x \in DOMAIN given' : blocks'[x].size >= given'[x]
    BY <2>2, <2>3, <1>h DEF Agree
  <2>5. Agree(blocks', given')
    BY <2>1, <2>2, <2>3, <2>4, <1>h DEF Agree
  <2> QED BY <2>2, <2>5, <1>k
<1>5. ASSUME NEW a \in DOMAIN given, NEW r \in Requests, ReallocMoves(a, r) PROVE Inv'
  <2> DEFINE b == Min(Candidates(r))
  <2>1. b \in Candidates(r)
    BY <1>5, <1>h, FirstFit DEF ReallocMoves
  <2>2. /\ blocks' = Freed(Taken(blocks, b, r), a)
        /\ given' = Without(Added(given, b, r), a)
        /\ heap' = heap /\ refused' = NoAnswer
    BY <1>5 DEF ReallocMoves, With, Added
  <2> HIDE DEF b
  <2>3. Agree(Taken(blocks, b, r), Added(given, b, r))
    BY <2>1, <1>h, TakenAgrees
  <2>4. a \in DOMAIN Added(given, b, r)
    BY DEF Added
  <2>5. Agree(blocks', given')
    BY <2>2, <2>3, <2>4, <1>h, FreedAgrees
  <2> QED BY <2>2, <2>5, <1>k
<1>6. CASE UNCHANGED vars
  <2>1. Agree(blocks, given)'
    BY <1>6, <1>h, AgreePrimed DEF vars
  <2>2. Candidates(refused)' = Candidates(refused)
    BY <1>6 DEF vars, Candidates, Usable, Crosses, H
  <2> QED BY <1>6, <2>1, <2>2 DEF Inv, vars
<1> QED BY <1>1, <1>2, <1>3, <1>4, <1>5, <1>6 DEF Next

LEMMA AlwaysInv == Spec => []Inv
<1> QED BY InitInv, Step, PTL DEF Spec

(***************************************************************************)
(* What follows from it.                                                   *)
(***************************************************************************)
LEMMA InvTypes == Inv => TypeOK
BY DEF Inv, Agree, IsList, BlockRecords, InUse, TypeOK

\* The variables keep their types: headers lie in the heap, callers hold headers
\* of the list only.
THEOREM TypeCorrect == Spec => []TypeOK
<1> QED BY AlwaysInv, InvTypes, PTL

LEMMA InvAgrees == Inv => HeapAgrees
<1> SUFFICES ASSUME Inv PROVE HeapAgrees
  OBVIOUS
<1>1. Tiled(blocks)
  BY DEF Inv, Agree, IsList
<1>2. HeldBlocks
  BY DEF Inv, Agree, InUse, HeldBlocks
<1> QED BY <1>1, <1>2 DEF HeapAgrees

\* Whatever is allocated, freed and reallocated in whatever order, the blocks
\* tile the heap and those in use are the ones somebody holds, as large as asked.
THEOREM HeapAlwaysAgrees == Spec => []HeapAgrees
<1> QED BY AlwaysInv, InvAgrees, PTL

LEMMA InvCoalesced == Inv => Coalesced
<1> SUFFICES ASSUME Inv PROVE Coalesced
  OBVIOUS
<1>h. heap \in Heaps /\ IsList(blocks) /\ NoneFollows(blocks)
  BY DEF Inv, Agree
<1>s. Top \in Nat /\ H \in Nat /\ H > 0 /\ H <= Top
  BY <1>h, Sizes
<1>1. ASSUME DOMAIN given = {} PROVE blocks = [a \in {0} |-> Block(Top - H, TRUE)]
  <2>1. \A a \in DOMAIN blocks : blocks[a].free
    BY <1>1 DEF Inv, Agree, InUse
  <2>2. 0 \in DOMAIN blocks
    BY <1>h DEF IsList, Tiled
  <2>3. End(blocks, 0) = Top
    <3> SUFFICES ASSUME End(blocks, 0) # Top PROVE FALSE
      OBVIOUS
    <3>1. End(blocks, 0) \in DOMAIN blocks
      BY <2>2, <1>h DEF IsList, Tiled
    <3> QED BY <3>1, <2>1, <2>2, <1>h DEF NoneFollows, FollowsFree
  <2>4. ASSUME NEW a \in DOMAIN blocks PROVE a = 0
    <3> SUFFICES ASSUME a # 0 PROVE FALSE
      OBVIOUS
    <3>1. a \in 0 .. Top /\ a < Top
      BY <1>h, ListFields
    <3>2. End(blocks, 0) <= a
      BY <3>1, <2>2, <1>h DEF IsList, Tiled
    <3> QED BY <3>1, <3>2, <2>3, <1>s
  <2>5. DOMAIN blocks = {0}
    BY <2>2, <2>4
  <2>6. blocks[0] = Block(Top - H, TRUE)
    <3>1. /\ blocks[0] \in BlockRecords /\ blocks[0].size \in 0 .. Top
          /\ End(blocks, 0) = 0 + H + blocks[0].size
      BY <2>2, <1>h, ListFields DEF IsList
    <3>2. blocks[0].size = Top - H
      BY <3>1, <2>3, <1>s
    <3>3. blocks[0].free = TRUE
      BY <2>1, <2>2, <3>1 DEF BlockRecords
    <3> QED BY <3>1, <3>2, <3>3 DEF BlockRecords, Block
  <2> QED BY <2>5, <2>6, <1>h DEF IsList
<1> QED BY <1>1, <1>h DEF Coalesced, NoneFollows

\* Freeing leaves no two free blocks side by side; with all freed the heap is the
\* one block it began as.
THEOREM FreedIsFused == Spec => []Coalesced
<1> QED BY AlwaysInv, InvCoalesced, PTL

LEMMA InvFull == Inv => NullMeansFull
<1> SUFFICES ASSUME Inv, refused # NoAnswer, Boundary[heap] = 0,
                    NEW a \in 0 .. Top - H - refused,
                    (a .. a + H + refused - 1) \cap UsedCells = {}
             PROVE  FALSE
  BY DEF NullMeansFull
<1>h. heap \in Heaps /\ IsList(blocks) /\ NoneFollows(blocks) /\ DOMAIN given = InUse(blocks)
  BY DEF Inv, Agree
<1>s. Top \in Nat /\ H \in Nat /\ H > 0 /\ H <= Top /\ refused \in Nat
  BY <1>h, Sizes DEF Inv
<1>1. a \in 0 .. Top - 1 /\ a + H + refused <= Top
  BY <1>s
<1>2. PICK c \in DOMAIN blocks : c <= a /\ a < End(blocks, c)
  BY <1>1, <1>h, Covered
<1>3. /\ c \in 0 .. Top /\ blocks[c].size \in 0 .. Top /\ End(blocks, c) \in Nat
      /\ End(blocks, c) = c + H + blocks[c].size
  BY <1>h, ListFields
<1>4. \A x \in DOMAIN given, y \in Int : x <= y /\ y < End(blocks, x) => y \in UsedCells
  <2> SUFFICES ASSUME NEW x \in DOMAIN given, NEW y \in Int, x <= y, y < End(blocks, x)
               PROVE  y \in UsedCells
    OBVIOUS
  <2>1. x \in DOMAIN blocks
    BY <1>h DEF InUse
  <2>2. x \in 0 .. Top /\ End(blocks, x) \in Nat
    BY <2>1, <1>h, ListFields
  <2>3. y \in x .. End(blocks, x) - 1
    BY <2>2
  <2> QED BY <2>3 DEF UsedCells
<1>5. blocks[c].free
  <2> SUFFICES ASSUME ~blocks[c].free PROVE FALSE
    OBVIOUS
  <2>1. c \in DOMAIN given
    BY <1>h DEF InUse
  <2>2. a \in UsedCells
    BY <2>1, <1>1, <1>2, <1>4
  <2>3. a \in a .. a + H + refused - 1
    BY <1>1, <1>s
  <2> QED BY <2>2, <2>3
<1>6. blocks[c].size < refused
  <2>1. ~Crosses(c, refused)
    BY DEF Crosses
  <2>2. c \notin Candidates(refused)
    BY DEF Inv
  <2>3. ~(blocks[c].size >= refused)
    BY <2>1, <2>2, <1>5 DEF Candidates, Usable
  <2> QED BY <2>3, <1>3, <1>s
<1> DEFINE e == End(blocks, c)
<1>7. e \in Nat /\ a < e /\ e < a + H + refused
  BY <1>1, <1>2, <1>3, <1>6, <1>s
<1>8. e \in DOMAIN blocks
  BY <1>7, <1>1, <1>s, <1>h DEF IsList, Tiled
<1>9. ~blocks[e].free
  BY <1>8, <1>5, <1>h DEF NoneFollows, FollowsFree
<1> HIDE DEF e
<1>10. e \in DOMAIN given
  BY <1>8, <1>9, <1>h DEF InUse
<1>11. e + H <= End(blocks, e) /\ End(blocks, e) \in Nat
  BY <1>8, <1>h, ListFields
<1>12. e \in UsedCells
  BY <1>7, <1>10, <1>11, <1>4, <1>s
<1>13. e \in a .. a + H + refused - 1
  BY <1>7, <1>1, <1>s
<1> QED BY <1>12, <1>13

\* Where there is no boundary, NULL means that no gap between the blocks in use
\* holds the request with its header.
THEOREM NullIsFull == Spec => []NullMeansFull
<1> QED BY AlwaysInv, InvFull, PTL

LEMMA DivBounds ==
  ASSUME NEW n \in Nat, NEW b \in Nat, b > 0
  PROVE  n \div b \in Nat /\ b * (n \div b) <= n /\ n < b * (n \div b) + b
BY SMTT(30)

LEMMA MultiplesOrdered ==
  ASSUME NEW b \in Nat, b > 0, NEW p \in Nat, NEW q \in Nat
  PROVE  /\ b * p \in Nat /\ b * q \in Nat /\ q * b = b * q
         /\ p <= q => b * p <= b * q
         /\ p < q => b * p + b <= b * q
BY SMTT(30)

LEMMA InvPlaced == Inv => DmaPlaced
<1> SUFFICES ASSUME Inv, Boundary[heap] > 0, NEW a \in DOMAIN given, NEW k \in 0 .. Top,
                    a + H < k * Boundary[heap], k * Boundary[heap] < a + H + given[a]
             PROVE  FALSE
  BY DEF DmaPlaced
<1> DEFINE B == Boundary[heap]
           x == a + H
           r == given[a]
           q == x \div B
<1>h. heap \in Heaps /\ IsList(blocks)
  BY DEF Inv, Agree
<1>1. /\ B \in Nat /\ B > 0 /\ a \in Nat /\ H \in Nat /\ Top \in Nat /\ r \in Nat
      /\ x \div B = (x + r - 1) \div B
  <2>1. ~Crosses(a, given[a]) /\ a \in DOMAIN blocks /\ given[a] \in Requests
    BY DEF Inv, Agree, InUse
  <2>2. (a + H) \div Boundary[heap] = (a + H + given[a] - 1) \div Boundary[heap]
    BY <2>1 DEF Crosses
  <2> QED BY <2>1, <2>2, <1>h, Sizes, ListFields
<1>2. x \in Nat /\ k \in Nat
  BY <1>1
<1>3. x < k * B /\ k * B < x + r
  OBVIOUS
<1> HIDE DEF B, x, r
<1>4. k * B = B * k /\ B * k \in Nat
  BY <1>1, <1>2, MultiplesOrdered
<1>5. r > 0 /\ x + r - 1 \in Nat
  BY <1>1, <1>2, <1>3, <1>4
<1>6. q \in Nat /\ B * q <= x /\ x < B * q + B
  BY <1>1, <1>2, DivBounds
<1>7. x + r - 1 < B * q + B
  BY <1>1, <1>5, DivBounds
<1> HIDE DEF q
<1>8. B * q \in Nat /\ (k <= q => B * k <= B * q) /\ (q < k => B * q + B <= B * k)
  BY <1>1, <1>2, <1>6, MultiplesOrdered
<1>9. CASE k <= q
  BY <1>9, <1>1, <1>2, <1>3, <1>4, <1>6, <1>8
<1>10. CASE q < k
  BY <1>10, <1>1, <1>2, <1>3, <1>4, <1>7, <1>8, SMTT(60)
<1> QED BY <1>9, <1>10, <1>2, <1>6

\* A block of the DMA heap never lies across a boundary of the chip.
THEOREM DmaIsPlaced == Spec => []DmaPlaced
<1> QED BY AlwaysInv, InvPlaced, PTL

(***************************************************************************)
(* The refinement.                                                         *)
(***************************************************************************)
RegionsOf(g) == [p \in {a + H : a \in DOMAIN g} |-> g[p - H]]

LEMMA RegionAt ==
  ASSUME H \in Nat, NEW g, DOMAIN g \subseteq Int
  PROVE  /\ \A p : p \in DOMAIN RegionsOf(g) <=> \E a \in DOMAIN g : p = a + H
         /\ DOMAIN RegionsOf(g) \subseteq Int
         /\ \A a \in DOMAIN g : RegionsOf(g)[a + H] = g[a]
<1>1. \A p : p \in DOMAIN RegionsOf(g) <=> \E a \in DOMAIN g : p = a + H
  BY DEF RegionsOf
<1>2. ASSUME NEW a \in DOMAIN g PROVE RegionsOf(g)[a + H] = g[a]
  <2>1. (a + H) - H = a
    OBVIOUS
  <2> QED BY <2>1 DEF RegionsOf
<1> QED BY <1>1, <1>2

LEMMA RegionAdded ==
  ASSUME H \in Nat, NEW g, DOMAIN g \subseteq Int, NEW a \in Int, NEW r
  PROVE  RegionsOf(Added(g, a, r)) = Promise!Added(RegionsOf(g), a + H, r)
<1> DEFINE n == Added(g, a, r)
           left == RegionsOf(n)
           right == Promise!Added(RegionsOf(g), a + H, r)
<1>1. /\ DOMAIN n = DOMAIN g \cup {a} /\ n[a] = r
      /\ \A x \in DOMAIN g : x # a => n[x] = g[x]
  BY DEF Added
<1>2. /\ DOMAIN right = DOMAIN RegionsOf(g) \cup {a + H}
      /\ right[a + H] = r
      /\ \A p \in DOMAIN RegionsOf(g) : p # a + H => right[p] = RegionsOf(g)[p]
      /\ right = [p \in DOMAIN right |-> right[p]]
  BY DEF Promise!Added
<1>3. left = [p \in DOMAIN left |-> left[p]]
  BY DEF RegionsOf
<1> HIDE DEF n, right
<1>4. /\ \A p : p \in DOMAIN left <=> \E x \in DOMAIN n : p = x + H
      /\ \A x \in DOMAIN n : left[x + H] = n[x]
  BY <1>1, RegionAt
<1>5. /\ \A p : p \in DOMAIN RegionsOf(g) <=> \E x \in DOMAIN g : p = x + H
      /\ \A x \in DOMAIN g : RegionsOf(g)[x + H] = g[x]
  BY RegionAt
<1> HIDE DEF left
<1>6. DOMAIN left = DOMAIN right
  BY <1>1, <1>2, <1>4, <1>5
<1>7. ASSUME NEW p \in DOMAIN left PROVE left[p] = right[p]
  <2>1. PICK x \in DOMAIN n : p = x + H
    BY <1>4
  <2>2. CASE x = a
    BY <2>1, <2>2, <1>1, <1>2, <1>4
  <2>3. CASE x # a
    <3>1. x \in DOMAIN g /\ x + H # a + H
      BY <2>3, <1>1
    <3>2. left[p] = g[x]
      BY <2>1, <3>1, <2>3, <1>1, <1>4
    <3>3. right[p] = g[x]
      BY <2>1, <3>1, <1>2, <1>5
    <3> QED BY <3>2, <3>3
  <2> QED BY <2>2, <2>3
<1>8. left = right
  <2>1. [p \in DOMAIN left |-> left[p]] = [p \in DOMAIN right |-> right[p]]
    BY <1>6, <1>7
  <2> QED BY <2>1, <1>2, <1>3
<1> QED BY <1>8 DEF left, right, n

LEMMA RegionRemoved ==
  ASSUME H \in Nat, NEW g, DOMAIN g \subseteq Int, NEW a \in DOMAIN g
  PROVE  RegionsOf(Without(g, a)) = Promise!Removed(RegionsOf(g), a + H)
<1> DEFINE n == Without(g, a)
           left == RegionsOf(n)
           right == Promise!Removed(RegionsOf(g), a + H)
<1>1. /\ DOMAIN n = DOMAIN g \ {a}
      /\ \A x \in DOMAIN n : n[x] = g[x]
  BY DEF Without
<1>2. /\ DOMAIN right = DOMAIN RegionsOf(g) \ {a + H}
      /\ \A p \in DOMAIN right : right[p] = RegionsOf(g)[p]
      /\ right = [p \in DOMAIN right |-> right[p]]
  BY DEF Promise!Removed
<1>3. left = [p \in DOMAIN left |-> left[p]]
  BY DEF RegionsOf
<1> HIDE DEF n, right
<1>4. /\ \A p : p \in DOMAIN left <=> \E x \in DOMAIN n : p = x + H
      /\ \A x \in DOMAIN n : left[x + H] = n[x]
  BY <1>1, RegionAt
<1>5. /\ \A p : p \in DOMAIN RegionsOf(g) <=> \E x \in DOMAIN g : p = x + H
      /\ \A x \in DOMAIN g : RegionsOf(g)[x + H] = g[x]
  BY RegionAt
<1> HIDE DEF left
<1>6. ASSUME NEW x \in DOMAIN g, x + H = a + H PROVE x = a
  <2>1. x \in Int /\ a \in Int
    OBVIOUS
  <2>2. \A i, j \in Int, h \in Nat : i + h = j + h => i = j
    OBVIOUS
  <2> QED BY <2>1, <2>2, <1>6
<1>7. DOMAIN left = DOMAIN right
  BY <1>1, <1>2, <1>4, <1>5, <1>6
<1>8. ASSUME NEW p \in DOMAIN left PROVE left[p] = right[p]
  <2>1. PICK x \in DOMAIN n : p = x + H
    BY <1>4
  <2>2. left[p] = g[x]
    BY <2>1, <1>1, <1>4
  <2>3. right[p] = g[x]
    BY <2>1, <1>1, <1>2, <1>5, <1>7
  <2> QED BY <2>2, <2>3
<1>9. left = right
  <2>1. [p \in DOMAIN left |-> left[p]] = [p \in DOMAIN right |-> right[p]]
    BY <1>7, <1>8
  <2> QED BY <2>1, <1>2, <1>3
<1> QED BY <1>9 DEF left, right, n

\* A block in use in list t, as large as r, fits next to the regions of the others.
LEMMA RegionFits ==
  ASSUME heap \in Heaps, NEW t, NEW g, Agree(t, g), NEW a \in DOMAIN t, ~t[a].free,
         NEW r \in Requests, t[a].size >= r,
         NEW s, s = RegionsOf(Without(g, a))
  PROVE  a + H \in 0 .. Top /\ Promise!Fits(s, a + H, r)
<1> DEFINE w == Without(g, a)
<1>l. IsList(t) /\ DOMAIN g = InUse(t)
  BY DEF Agree
<1>s. Top \in Nat /\ H \in Nat /\ H > 0 /\ r \in Nat
  BY Sizes
<1>1. /\ a \in 0 .. Top /\ t[a].size \in 0 .. Top /\ End(t, a) <= Top
      /\ End(t, a) = a + H + t[a].size
  BY <1>l, ListFields
<1>2. a + H \in 0 .. Top /\ a + H + r <= End(t, a) /\ a + H + r <= Top
  BY <1>1, <1>s
<1>3. DOMAIN w = DOMAIN g \ {a} /\ \A x \in DOMAIN w : w[x] = g[x]
  BY DEF Without
<1>4. DOMAIN w \subseteq Int
  <2>1. \A x \in DOMAIN t : x \in Int
    BY <1>l DEF IsList
  <2> QED BY <2>1, <1>3, <1>l DEF InUse
<1> HIDE DEF w
<1>5. /\ \A p : p \in DOMAIN RegionsOf(w) <=> \E x \in DOMAIN w : p = x + H
      /\ \A x \in DOMAIN w : RegionsOf(w)[x + H] = w[x]
  BY <1>4, <1>s, RegionAt
<1>6. ASSUME NEW p \in DOMAIN s
      PROVE  p # a + H /\ Promise!Cells(s, p) \cap (a + H .. a + H + r - 1) = {}
  <2>0. s = RegionsOf(w)
    BY DEF w
  <2>1. PICK x \in DOMAIN w : p = x + H
    BY <2>0, <1>5
  <2>2. x \in DOMAIN t /\ x # a /\ x \in DOMAIN g
    BY <1>3, <1>l DEF InUse
  <2>3. g[x] \in Requests /\ t[x].size >= g[x]
    BY <2>2 DEF Agree
  <2>4. g[x] \in Nat
    BY <2>3, Sizes
  <2>5. /\ x \in 0 .. Top /\ t[x].size \in 0 .. Top /\ End(t, x) = x + H + t[x].size
    BY <2>2, <1>l, ListFields
  <2>6. s[p] = g[x]
    BY <2>0, <2>1, <1>3, <1>5
  <2>7. End(t, x) <= a \/ End(t, a) <= x
    BY <2>2, <1>l, Apart
  <2>8. p # a + H
    BY <2>1, <2>2, <2>5, <1>1, <1>s
  <2>9. Promise!Cells(s, p) = x + H .. x + H + g[x] - 1
    BY <2>1, <2>6 DEF Promise!Cells
  <2>10. ASSUME NEW y \in x + H .. x + H + g[x] - 1, y \in a + H .. a + H + r - 1 PROVE FALSE
    BY <2>10, <2>3, <2>4, <2>5, <2>7, <1>1, <1>2, <1>s
  <2> QED BY <2>8, <2>9, <2>10
<1> QED BY <1>2, <1>6 DEF Promise!Fits

LEMMA RegionsNow == regions = RegionsOf(given)
BY DEF regions, starts, RegionsOf

LEMMA RegionsNext == heap' = heap => regions' = RegionsOf(given')
BY DEF regions, starts, RegionsOf, H

LEMMA InitMaps == Init => Promise!Init
<1> SUFFICES ASSUME Init PROVE Promise!Init
  OBVIOUS
<1>1. Top \in Nat
  BY Sizes DEF Init
<1>2. regions = [x \in {} |-> 0]
  <2>1. DOMAIN given = {}
    BY DEF Init
  <2> QED BY <2>1 DEF regions, starts
<1> QED BY <1>1, <1>2 DEF Promise!Init

\* The block that is taken is apart from all the regions in use.
LEMMA TakenFits ==
  ASSUME heap \in Heaps, Agree(blocks, given), NEW r \in Requests, NEW b \in Candidates(r)
  PROVE  b + H \in 0 .. Top /\ Promise!Fits(regions, b + H, r)
<1> DEFINE t == Taken(blocks, b, r)
           g == Added(given, b, r)
<1>1. b \in DOMAIN blocks /\ blocks[b].free /\ blocks[b].size >= r
  BY DEF Candidates, Usable
<1>2. r \in Nat /\ IsList(blocks)
  BY Sizes DEF Agree
<1>3. InUse(t) = InUse(blocks) \cup {b} /\ b \in DOMAIN t /\ t[b].size >= r
  BY <1>1, <1>2, TakenList
<1>4. ~t[b].free
  BY <1>3 DEF InUse
<1>5. Agree(t, g)
  BY TakenAgrees
<1>6. Without(g, b) = given
  <2>1. b \notin DOMAIN given
    BY <1>1 DEF Agree, InUse
  <2>2. given = [x \in DOMAIN given |-> given[x]]
    BY DEF Agree
  <2> QED BY <2>1, <2>2 DEF Without, Added
<1> HIDE DEF t, g
<1>7. regions = RegionsOf(Without(g, b))
  BY <1>6, RegionsNow
<1> QED BY <1>3, <1>4, <1>5, <1>7, RegionFits

LEMMA StepMaps == Inv /\ [Next]_vars => [Promise!Next]_<<Top, regions>>
<1> SUFFICES ASSUME Inv, [Next]_vars PROVE [Promise!Next]_<<Top, regions>>
  OBVIOUS
<1>h. heap \in Heaps /\ Agree(blocks, given) /\ IsList(blocks) /\ DOMAIN given = InUse(blocks)
  BY DEF Inv, Agree
<1>s. Top \in Nat /\ H \in Nat
  BY <1>h, Sizes
<1>d. DOMAIN blocks \subseteq Int /\ DOMAIN given \subseteq DOMAIN blocks /\ DOMAIN given \subseteq Int
  <2>1. DOMAIN blocks \subseteq Int
    BY <1>h DEF IsList
  <2>2. DOMAIN given \subseteq DOMAIN blocks
    BY <1>h DEF InUse
  <2> QED BY <2>1, <2>2
<1>r. heap' = heap => Top' = Top /\ regions' = RegionsOf(given')
  BY RegionsNext DEF Top
<1>o. \A a \in DOMAIN given : a + H \in DOMAIN regions
  BY <1>s, <1>d, RegionsNow, RegionAt
<1>1. ASSUME NEW r \in Requests, Alloc(r) PROVE Promise!Next
  <2> DEFINE b == Min(Candidates(r))
  <2>1. b \in Candidates(r)
    BY <1>1, <1>h, FirstFit DEF Alloc
  <2>2. given' = Added(given, b, r) /\ heap' = heap
    BY <1>1 DEF Alloc, With, Added
  <2> HIDE DEF b
  <2>3. b \in Int
    BY <2>1, <1>d DEF Candidates
  <2>4. b + H \in 0 .. Top /\ Promise!Fits(regions, b + H, r)
    BY <2>1, <1>h, TakenFits
  <2>5. regions' = Promise!Added(regions, b + H, r) /\ Top' = Top
    BY <2>2, <2>3, <1>s, <1>d, <1>r, RegionsNow, RegionAdded
  <2> QED BY <2>4, <2>5 DEF Promise!Next, Promise!Alloc
<1>2. ASSUME NEW r \in Requests, AllocFails(r) PROVE UNCHANGED <<Top, regions>>
  BY <1>2, <1>r, RegionsNow DEF AllocFails
<1>3. ASSUME NEW a \in DOMAIN given, Free(a) PROVE Promise!Next
  <2>1. given' = Without(given, a) /\ heap' = heap
    BY <1>3 DEF Free
  <2>2. regions' = Promise!Removed(regions, a + H) /\ Top' = Top
    BY <2>1, <1>s, <1>d, <1>r, RegionsNow, RegionRemoved
  <2> QED BY <2>2, <1>o DEF Promise!Next, Promise!Free
<1>4. ASSUME NEW a \in DOMAIN given, NEW r \in Requests, ReallocInPlace(a, r) PROVE Promise!Next
  <2>1. blocks[a].size >= r /\ given' = [given EXCEPT ![a] = r] /\ heap' = heap
    BY <1>4 DEF ReallocInPlace
  <2>2. given' = Added(given, a, r)
    <3>1. given = [x \in DOMAIN given |-> given[x]] /\ DOMAIN given \cup {a} = DOMAIN given
      BY <1>h DEF Agree
    <3> QED BY <3>1, <2>1 DEF Added
  <2>3. a \in Int /\ a \in DOMAIN blocks /\ ~blocks[a].free
    BY <1>d, <1>h DEF InUse
  <2>4. regions' = Promise!Added(regions, a + H, r) /\ Top' = Top
    BY <2>1, <2>2, <2>3, <1>s, <1>d, <1>r, RegionsNow, RegionAdded
  <2>5. Promise!Removed(regions, a + H) = RegionsOf(Without(given, a))
    BY <1>s, <1>d, RegionsNow, RegionRemoved
  <2>6. Promise!Fits(Promise!Removed(regions, a + H), a + H, r)
    BY <2>1, <2>3, <2>5, <1>h, RegionFits
  <2>7. Promise!Added(regions, a + H, r) = [regions EXCEPT ![a + H] = r]
    <3>1. a + H \in DOMAIN regions /\ regions = [p \in DOMAIN regions |-> regions[p]]
      BY <1>o DEF regions
    <3>2. DOMAIN regions \cup {a + H} = DOMAIN regions
      BY <3>1
    <3> QED BY <3>1, <3>2 DEF Promise!Added
  <2> QED BY <2>4, <2>6, <2>7, <1>o DEF Promise!Next, Promise!Resize
<1>5. ASSUME NEW a \in DOMAIN given, NEW r \in Requests, ReallocMoves(a, r) PROVE Promise!Next
  <2> DEFINE b == Min(Candidates(r))
             g == Added(given, b, r)
  <2>1. b \in Candidates(r)
    BY <1>5, <1>h, FirstFit DEF ReallocMoves
  <2>2. given' = Without(g, a) /\ heap' = heap
    BY <1>5 DEF ReallocMoves, With, Added
  <2> HIDE DEF b
  <2>3. b \in Int
    BY <2>1, <1>d DEF Candidates
  <2>4. b + H \in 0 .. Top /\ Promise!Fits(regions, b + H, r)
    BY <2>1, <1>h, TakenFits
  <2>5. DOMAIN g \subseteq Int /\ a \in DOMAIN g
    BY <2>3, <1>d DEF Added
  <2>6. RegionsOf(g) = Promise!Added(regions, b + H, r)
    BY <2>3, <1>s, <1>d, RegionsNow, RegionAdded
  <2> HIDE DEF g
  <2>7. RegionsOf(Without(g, a)) = Promise!Removed(RegionsOf(g), a + H)
    BY <2>5, <1>s, RegionRemoved
  <2>8. regions' = Promise!Removed(Promise!Added(regions, b + H, r), a + H) /\ Top' = Top
    BY <2>2, <2>6, <2>7, <1>r
  <2> QED BY <2>4, <2>8, <1>o DEF Promise!Next, Promise!Move
<1>6. CASE UNCHANGED vars
  BY <1>6, <1>r, RegionsNow DEF vars
<1> QED BY <1>1, <1>2, <1>3, <1>4, <1>5, <1>6 DEF Next

\* The allocators keep the promise of an allocator: what is live is inside the heap
\* and apart, and stays where it is but in a realloc that moves it to a place apart
\* from the old one.
THEOREM PromiseIsKept == Spec => KeepsPromise
<1>1. Inv /\ [Next]_vars => [Promise!Next]_<<Top, regions>>
  BY StepMaps
<1> QED BY <1>1, InitMaps, AlwaysInv, PTL DEF Spec, KeepsPromise, Promise!Spec
=============================================================================
