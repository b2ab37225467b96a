--------------------------- MODULE DesktopProofs ---------------------------
(***************************************************************************)
(* Proofs about Desktop, for any number of windows and processes.          *)
(***************************************************************************)
EXTENDS Desktop, FiniteRanges

(***************************************************************************)
(* The searches and the order.                                             *)
(***************************************************************************)
Orders == [Ranks -> Slots]
Injective(order) == \A q, r \in Ranks : order[q] = order[r] => q = r
WindowRecords == [active : BOOLEAN, type : Types, min : BOOLEAN, owner : 0 .. MaxProcesses - 1]
ProcessRecords == [active : BOOLEAN, linked : Slots \cup {-1}, parent : Slots \cup {-1}, own : BOOLEAN]

LEMMA Sizes ==
  /\ MaxWindows \in Nat /\ MaxWindows > 1 /\ MaxProcesses \in Nat /\ MaxProcesses > 1
  /\ 0 \in Slots /\ 0 \in Ranks /\ Ranks = Slots /\ -1 \notin Slots
  /\ Ranks \subseteq Int /\ 0 \in 0 .. MaxProcesses - 1
BY SizesAssumption DEF Slots, Ranks

\* The rank found for a window holds it.
LEMMA LastPosFound ==
  ASSUME NEW order \in Orders, NEW w
  PROVE  /\ LastPos(order, w) \in Ranks \cup {-1}
         /\ LastPos(order, w) # -1 => order[LastPos(order, w)] = w
<1> DEFINE H == {r \in Ranks : order[r] = w}
<1>1. CASE H = {}
  BY <1>1, Sizes DEF LastPos
<1>2. CASE H # {}
  <2>1. H \subseteq 0 .. (MaxWindows - 1) /\ MaxWindows - 1 \in Int
    BY Sizes DEF Ranks
  <2>2. PICK x \in H : \A y \in H : y <= x
    BY <2>1, <1>2, MaxExists
  <2>3. \E r \in Ranks : order[r] = w /\ \A q \in Ranks : order[q] = w => q <= r
    BY <2>2
  <2>4. LastPos(order, w) = CHOOSE r \in Ranks : order[r] = w /\ \A q \in Ranks : order[q] = w => q <= r
    BY <1>2 DEF LastPos
  <2>5. LastPos(order, w) \in Ranks /\ order[LastPos(order, w)] = w
    BY <2>3, <2>4
  <2> QED BY <2>5
<1> QED BY <1>1, <1>2

\* Moving the window of a rank to the first one keeps an order an order, and
\* a permutation a permutation.
LEMMA SlideKeeps ==
  ASSUME NEW order \in Orders, NEW pos \in Ranks, NEW w \in Slots
  PROVE  /\ Slide(order, pos, w) \in Orders
         /\ Injective(order) /\ order[pos] = w => Injective(Slide(order, pos, w))
<1> DEFINE s == Slide(order, pos, w)
<1>1. \A r \in Ranks : r # 0 => r - 1 \in Ranks
  BY Sizes DEF Ranks
<1>2. s \in Orders
  BY <1>1 DEF Slide, Orders
<1>3. ASSUME Injective(order), order[pos] = w,
             NEW q \in Ranks, NEW r \in Ranks, s[q] = s[r]
      PROVE  q = r
  <2>1. /\ s[q] = IF q = 0 THEN w ELSE IF q <= pos THEN order[q - 1] ELSE order[q]
        /\ s[r] = IF r = 0 THEN w ELSE IF r <= pos THEN order[r - 1] ELSE order[r]
    BY DEF Slide
  <2>2. \A a, b \in Ranks : order[a] = order[b] => a = b
    BY <1>3 DEF Injective
  <2>3. q \in Int /\ r \in Int /\ pos \in Int /\ q >= 0 /\ r >= 0
    BY Sizes DEF Ranks
  <2>4. CASE q = 0
    <3>1. CASE r # 0 /\ r <= pos
      BY <3>1, <2>4, <2>1, <2>2, <2>3, <1>1, <1>3
    <3>2. CASE r # 0 /\ ~(r <= pos)
      BY <3>2, <2>4, <2>1, <2>2, <2>3, <1>3
    <3> QED BY <2>4, <3>1, <3>2
  <2>5. CASE q # 0 /\ q <= pos
    <3>1. CASE r = 0
      BY <3>1, <2>5, <2>1, <2>2, <2>3, <1>1, <1>3
    <3>2. CASE r # 0 /\ r <= pos
      <4>1. q - 1 = r - 1
        BY <3>2, <2>5, <2>1, <2>2, <1>1, <1>3
      <4> QED BY <4>1, <2>3
    <3>3. CASE r # 0 /\ ~(r <= pos)
      <4>1. q - 1 = r
        BY <3>3, <2>5, <2>1, <2>2, <1>1, <1>3
      <4> QED BY <4>1, <3>3, <2>5, <2>3
    <3> QED BY <3>1, <3>2, <3>3
  <2>6. CASE q # 0 /\ ~(q <= pos)
    <3>1. CASE r = 0
      BY <3>1, <2>6, <2>1, <2>2, <2>3, <1>3
    <3>2. CASE r # 0 /\ r <= pos
      <4>1. q = r - 1
        BY <3>2, <2>6, <2>1, <2>2, <1>1, <1>3
      <4> QED BY <4>1, <3>2, <2>6, <2>3
    <3>3. CASE r # 0 /\ ~(r <= pos)
      BY <3>3, <2>6, <2>1, <2>2, <1>3
    <3> QED BY <3>1, <3>2, <3>3
  <2> QED BY <2>4, <2>5, <2>6
<1> QED BY <1>2, <1>3 DEF Injective

\* So does bringing any slot to the front,
LEMMA FrontKeeps ==
  ASSUME NEW order \in Orders, NEW w
  PROVE  /\ Front(order, w) \in Orders
         /\ Injective(order) => Injective(Front(order, w))
<1>1. CASE LastPos(order, w) <= 0
  BY <1>1 DEF Front
<1>2. CASE ~(LastPos(order, w) <= 0)
  <2>1. LastPos(order, w) \in Ranks /\ order[LastPos(order, w)] = w
    BY <1>2, LastPosFound
  <2>2. w \in Slots
    BY <2>1 DEF Orders
  <2> QED BY <1>2, <2>1, <2>2, SlideKeeps DEF Front
<1> QED BY <1>1, <1>2

\* protecting a menu,
LEMMA GuardedKeeps ==
  ASSUME NEW order \in Orders, NEW win, NEW t
  PROVE  /\ Guarded(order, win, t) \in Orders
         /\ Injective(order) => Injective(Guarded(order, win, t))
BY FrontKeeps DEF Guarded

\* bring_to_front with a rank that holds the window,
LEMMA BringKeeps ==
  ASSUME NEW order \in Orders, NEW win, NEW pos \in Ranks \cup {-1}, NEW w \in Slots
  PROVE  /\ BringToFront(order, win, pos, w) \in Orders
         /\ Injective(order) /\ (pos # -1 => order[pos] = w)
            => Injective(BringToFront(order, win, pos, w))
<1>1. CASE pos <= 0
  BY <1>1 DEF BringToFront
<1>2. CASE ~(pos <= 0)
  <2> DEFINE a == Slide(order, pos, w)
             b == Guarded(a, win, "start_menu")
             c == Guarded(b, win, "app_menu")
  <2>1. pos \in Ranks /\ pos # -1
    BY <1>2, Sizes
  <2>2. a \in Orders /\ (Injective(order) /\ order[pos] = w => Injective(a))
    BY <2>1, SlideKeeps
  <2> HIDE DEF a
  <2>3. b \in Orders /\ (Injective(a) => Injective(b))
    BY <2>2, GuardedKeeps
  <2> HIDE DEF b
  <2>4. c \in Orders /\ (Injective(b) => Injective(c))
    BY <2>3, GuardedKeeps
  <2>5. BringToFront(order, win, pos, w) = c
    BY <1>2 DEF BringToFront, a, b
  <2> QED BY <2>1, <2>2, <2>3, <2>4, <2>5
<1> QED BY <1>1, <1>2

\* and minimising it.
LEMMA SunkKeeps ==
  ASSUME NEW order \in Orders, NEW pos \in Ranks \cup {-1}, NEW w \in Slots
  PROVE  /\ Sunk(order, pos, w) \in Orders
         /\ Injective(order) /\ (pos # -1 => order[pos] = w) => Injective(Sunk(order, pos, w))
<1>1. CASE pos = -1
  BY <1>1 DEF Sunk
<1>2. CASE pos # -1
  <2> DEFINE s == Sunk(order, pos, w)
  <2>1. pos \in Ranks
    BY <1>2
  <2>2. \A r \in Ranks : r < MaxWindows - 1 => r + 1 \in Ranks
    BY Sizes DEF Ranks
  <2>3. s \in Orders
    BY <1>2, <2>2 DEF Sunk, Orders
  <2>4. ASSUME Injective(order), order[pos] = w,
               NEW q \in Ranks, NEW r \in Ranks, s[q] = s[r]
        PROVE  q = r
    <3>1. /\ s[q] = IF q < pos THEN order[q] ELSE IF q < MaxWindows - 1 THEN order[q + 1] ELSE w
          /\ s[r] = IF r < pos THEN order[r] ELSE IF r < MaxWindows - 1 THEN order[r + 1] ELSE w
      BY <1>2 DEF Sunk
    <3>2. \A a, b \in Ranks : order[a] = order[b] => a = b
      BY <2>4 DEF Injective
    <3>3. /\ q \in Int /\ r \in Int /\ pos \in Int /\ MaxWindows \in Int
          /\ q <= MaxWindows - 1 /\ r <= MaxWindows - 1
      BY <2>1, Sizes DEF Ranks
    <3>4. CASE q < pos
      <4>1. CASE r < pos
        BY <3>4, <4>1, <3>1, <3>2, <2>4
      <4>2. CASE ~(r < pos) /\ r < MaxWindows - 1
        <5>1. q = r + 1
          BY <3>4, <4>2, <3>1, <3>2, <2>2, <2>4
        <5> QED BY <5>1, <3>4, <4>2, <3>3
      <4>3. CASE ~(r < pos) /\ ~(r < MaxWindows - 1)
        <5>1. q = pos
          BY <3>4, <4>3, <3>1, <3>2, <2>1, <2>4
        <5> QED BY <5>1, <3>4, <3>3
      <4> QED BY <4>1, <4>2, <4>3
    <3>5. CASE ~(q < pos) /\ q < MaxWindows - 1
      <4>1. CASE r < pos
        <5>1. q + 1 = r
          BY <3>5, <4>1, <3>1, <3>2, <2>2, <2>4
        <5> QED BY <5>1, <3>5, <4>1, <3>3
      <4>2. CASE ~(r < pos) /\ r < MaxWindows - 1
        <5>1. q + 1 = r + 1
          BY <3>5, <4>2, <3>1, <3>2, <2>2, <2>4
        <5> QED BY <5>1, <3>3
      <4>3. CASE ~(r < pos) /\ ~(r < MaxWindows - 1)
        <5>1. q + 1 = pos
          BY <3>5, <4>3, <3>1, <3>2, <2>1, <2>2, <2>4
        <5> QED BY <5>1, <3>5, <3>3
      <4> QED BY <4>1, <4>2, <4>3
    <3>6. CASE ~(q < pos) /\ ~(q < MaxWindows - 1)
      <4>1. CASE r < pos
        <5>1. r = pos
          BY <3>6, <4>1, <3>1, <3>2, <2>1, <2>4
        <5> QED BY <5>1, <4>1, <3>3
      <4>2. CASE ~(r < pos) /\ r < MaxWindows - 1
        <5>1. r + 1 = pos
          BY <3>6, <4>2, <3>1, <3>2, <2>1, <2>2, <2>4
        <5> QED BY <5>1, <4>2, <3>3
      <4>3. CASE ~(r < pos) /\ ~(r < MaxWindows - 1)
        BY <3>6, <4>3, <3>3
      <4> QED BY <4>1, <4>2, <4>3
    <3> QED BY <3>4, <3>5, <3>6
  <2>5. Injective(order) /\ order[pos] = w => Injective(s)
    BY <2>4 DEF Injective
  <2> QED BY <1>2, <2>3, <2>5
<1> QED BY <1>1, <1>2

(***************************************************************************)
(* The other searches.                                                     *)
(***************************************************************************)
\* open_window's slot is free and is not slot 0,
LEMMA FreeSlotFound ==
  ASSUME NEW win
  PROVE  FreeSlot(win) # -1 => /\ FreeSlot(win) \in Slots \ {0}
                               /\ ~win[FreeSlot(win)].active
<1> DEFINE F == {w \in Slots \ {0} : ~win[w].active}
<1>1. CASE F = {}
  BY <1>1 DEF FreeSlot
<1>2. CASE F # {}
  <2>1. F \subseteq 0 .. (MaxWindows - 1) /\ MaxWindows - 1 \in Int
    BY Sizes DEF Slots
  <2>2. PICK x \in F : \A y \in F : x <= y
    BY <2>1, <1>2, MinExists
  <2>3. \E w \in Slots \ {0} : ~win[w].active /\ \A v \in Slots \ {0} : ~win[v].active => w <= v
    BY <2>2
  <2>4. FreeSlot(win) = CHOOSE w \in Slots \ {0} : ~win[w].active /\ \A v \in Slots \ {0} : ~win[v].active => w <= v
    BY <1>2 DEF FreeSlot
  <2> QED BY <2>3, <2>4
<1> QED BY <1>1, <1>2

\* get_free_pid's process is not active,
LEMMA FreePidFound ==
  FreePid # -1 => FreePid \in Apps /\ ~process_table[FreePid].active
<1> DEFINE F == {p \in Apps : ~process_table[p].active}
<1>1. CASE F = {}
  BY <1>1 DEF FreePid
<1>2. CASE F # {}
  <2>1. F \subseteq 0 .. (MaxProcesses - 1) /\ MaxProcesses - 1 \in Int
    BY Sizes DEF Apps
  <2>2. PICK x \in F : \A y \in F : x <= y
    BY <2>1, <1>2, MinExists
  <2>3. \E p \in Apps : ~process_table[p].active /\ \A q \in Apps : ~process_table[q].active => p <= q
    BY <2>2
  <2>4. FreePid = CHOOSE p \in Apps : ~process_table[p].active /\ \A q \in Apps : ~process_table[q].active => p <= q
    BY <1>2 DEF FreePid
  <2> QED BY <2>3, <2>4
<1> QED BY <1>1, <1>2

\* and the window a click hits is one under the pointer.
LEMMA TopmostFound ==
  ASSUME window_order \in Orders, NEW S, \E r \in Ranks : window_order[r] \in S
  PROVE  Topmost(S) \in S /\ Topmost(S) \in Slots
<1> DEFINE F == {r \in Ranks : window_order[r] \in S}
<1>1. F \subseteq 0 .. (MaxWindows - 1) /\ MaxWindows - 1 \in Int /\ F # {}
  BY Sizes DEF Ranks
<1>2. PICK x \in F : \A y \in F : x <= y
  BY <1>1, MinExists
<1>3. \E r \in Ranks : window_order[r] \in S /\ \A q \in Ranks : window_order[q] \in S => r <= q
  BY <1>2
<1> DEFINE r == CHOOSE r \in Ranks : window_order[r] \in S /\ \A q \in Ranks : window_order[q] \in S => r <= q
<1>4. r \in Ranks /\ window_order[r] \in S
  BY <1>3
<1>5. Topmost(S) = window_order[r]
  BY DEF Topmost
<1> QED BY <1>4, <1>5 DEF Orders

(***************************************************************************)
(* Types, and the permutation: a rank pid 0 has found still holds its      *)
(* window unless a syscall has come in between.                            *)
(***************************************************************************)
KRecords == [at : Places, win : Slots, pos : Ranks \cup {-1}, job : Jobs, type : Types,
             owner : 0 .. MaxProcesses - 1, parent : Slots \cup {-1}]

RankHeld == ~torn /\ k.at \in {"slide", "sink"} /\ k.pos # -1 => window_order[k.pos] = k.win

OrderInv == TypeOK /\ OrderIsPermutation /\ RankHeld

LEMMA KTyped ==
  /\ Idle \in KRecords /\ Idle.at = "idle"
  /\ \A at \in Places, w \in Slots : [Idle EXCEPT !.at = at, !.win = w] \in KRecords
  /\ \A type \in Types, owner \in 0 .. MaxProcesses - 1, parent \in Slots \cup {-1} :
       Opening(type, owner, parent) \in KRecords /\ Opening(type, owner, parent).at = "pick"
BY Sizes, ZenonT(60) DEF Idle, Opening, KRecords, Places, Calm, Jobs, Types, MenuTypes

LEMMA RaisingTyped ==
  ASSUME window_order \in Orders, NEW w \in Slots, NEW job \in Jobs
  PROVE  /\ Raising(w, job) \in KRecords
         /\ Raising(w, job).at = "slide" /\ Raising(w, job).win = w
         /\ Raising(w, job).pos = LastPos(window_order, w)
<1>1. LastPos(window_order, w) \in Ranks \cup {-1}
  BY LastPosFound
<1> QED BY <1>1, Sizes DEF Raising, Idle, KRecords, Places, Calm, Jobs, Types, MenuTypes

LEMMA ClosedTyped ==
  /\ Closed \in WindowRecords /\ Dead \in ProcessRecords
  /\ \A win \in [Slots -> WindowRecords] : \A S : Without(win, S) \in [Slots -> WindowRecords]
<1>1. Closed \in WindowRecords /\ Dead \in ProcessRecords
  BY Sizes DEF Closed, Dead, WindowRecords, ProcessRecords, Types
<1>2. \A owner \in 0 .. MaxProcesses - 1 : [Closed EXCEPT !.owner = owner] \in WindowRecords
  BY <1>1 DEF WindowRecords
<1>3. ASSUME NEW win \in [Slots -> WindowRecords], NEW S PROVE Without(win, S) \in [Slots -> WindowRecords]
  <2>1. \A w \in Slots : win[w] \in WindowRecords /\ win[w].owner \in 0 .. MaxProcesses - 1
    BY DEF WindowRecords
  <2> QED BY <1>2, <2>1 DEF Without
<1> QED BY <1>1, <1>3

LEMMA OpenedTyped ==
  ASSUME NEW win \in [Slots -> WindowRecords], NEW w \in Slots
  PROVE  /\ \A type \in Types :
              /\ Claimed(win, w, type) \in [Slots -> WindowRecords]
              /\ Claimed(win, w, type)[w].active /\ Claimed(win, w, type)[w].type = type
              /\ Claimed(win, w, type)[w].owner = win[w].owner /\ Claimed(win, w, type)[w].min = win[w].min
              /\ \A v \in Slots : v # w => Claimed(win, w, type)[v] = win[v]
         /\ \A owner \in 0 .. MaxProcesses - 1 :
              /\ Owned(win, w, owner) \in [Slots -> WindowRecords]
              /\ Owned(win, w, owner)[w].active = win[w].active /\ Owned(win, w, owner)[w].type = win[w].type
              /\ Owned(win, w, owner)[w].owner = owner /\ Owned(win, w, owner)[w].min = win[w].min
              /\ \A v \in Slots : v # w => Owned(win, w, owner)[v] = win[v]
BY DEF WindowRecords, Claimed, Owned

\* The window syscall 14 opens.
LEMMA ChildTyped ==
  ASSUME NEW win \in [Slots -> WindowRecords], NEW w \in Slots, NEW p \in Apps, NEW opened,
         opened = Owned(Claimed(win, w, "app_gui"), w, p)
  PROVE  /\ opened \in [Slots -> WindowRecords]
         /\ opened[w].active /\ opened[w].type = "app_gui" /\ opened[w].owner = p /\ opened[w].min = win[w].min
         /\ \A v \in Slots : v # w => opened[v] = win[v]
<1> DEFINE c == Claimed(win, w, "app_gui")
<1>1. "app_gui" \in Types /\ p \in 0 .. MaxProcesses - 1
  BY DEF Types, Apps
<1>2. /\ c \in [Slots -> WindowRecords]
      /\ c[w].active /\ c[w].type = "app_gui" /\ c[w].min = win[w].min
      /\ \A v \in Slots : v # w => c[v] = win[v]
  BY <1>1, OpenedTyped
<1>3. opened = Owned(c, w, p)
  OBVIOUS
<1> HIDE DEF c
<1> QED BY <1>1, <1>2, <1>3, OpenedTyped

LEMMA CreatedTyped ==
  ASSUME process_table \in [Apps -> ProcessRecords], NEW p, NEW linked \in Slots \cup {-1},
         NEW parent \in Slots \cup {-1}, NEW own \in BOOLEAN
  PROVE  Created(p, linked, parent, own) \in [Apps -> ProcessRecords]
<1>1. [active |-> TRUE, linked |-> linked, parent |-> parent, own |-> own] \in ProcessRecords
  BY DEF ProcessRecords
<1> QED BY <1>1 DEF Created

LEMMA EndedTyped ==
  ASSUME process_table \in [Apps -> ProcessRecords], NEW S
  PROVE  Ended(S) \in [Apps -> ProcessRecords]
BY ClosedTyped DEF Ended

\* The type invariant with its record sets named.
LEMMA TypeShape ==
  TypeOK <=> /\ windows \in [Slots -> WindowRecords]
             /\ window_order \in Orders
             /\ global_active_win \in Slots \cup {-1}
             /\ process_table \in [Apps -> ProcessRecords]
             /\ pressed \in [win : Slots \cup {-1}, btn : Buttons]
             /\ down \in BOOLEAN
             /\ k \in KRecords
             /\ torn \in BOOLEAN
BY DEF TypeOK, WindowRecords, Orders, ProcessRecords, KRecords

LEMMA OrderInit == Init => OrderInv
<1> SUFFICES ASSUME Init PROVE OrderInv
  OBVIOUS
<1>1. windows \in [Slots -> WindowRecords] /\ process_table \in [Apps -> ProcessRecords]
  BY ClosedTyped DEF Init
<1>2. window_order \in Orders
  BY Sizes DEF Init, Orders
<1>3. k \in KRecords /\ k.at = "idle"
  BY KTyped DEF Init
<1>4. pressed \in [win : Slots \cup {-1}, btn : Buttons]
  BY DEF Init, NoPress, Buttons
<1>5. TypeOK
  BY <1>1, <1>2, <1>3, <1>4, TypeShape DEF Init
<1> QED BY <1>3, <1>5 DEF Init, OrderInv, OrderIsPermutation, RankHeld

\* A step that leaves the order alone, and k or puts it where no rank is kept.
LEMMA OrderKept ==
  ASSUME OrderInv, TypeOK', UNCHANGED <<window_order, torn>>,
         \/ UNCHANGED k
         \/ k'.at \notin {"slide", "sink"}
         \/ k'.pos = LastPos(window_order, k'.win)
  PROVE  OrderInv'
<1>1. OrderIsPermutation'
  BY DEF OrderInv, OrderIsPermutation
<1>2. window_order \in Orders
  BY TypeShape DEF OrderInv
<1>3. RankHeld'
  <2>1. CASE UNCHANGED k
    BY <2>1 DEF OrderInv, RankHeld
  <2>2. CASE k'.at \notin {"slide", "sink"}
    BY <2>2 DEF RankHeld
  <2>3. CASE k'.pos = LastPos(window_order, k'.win)
    BY <2>3, <1>2, LastPosFound DEF RankHeld
  <2> QED BY <2>1, <2>2, <2>3
<1> QED BY <1>1, <1>3 DEF OrderInv

\* A raise keeps the permutation.
LEMMA RaiseKeeps ==
  ASSUME OrderInv, Raise
  PROVE  /\ window_order' \in Orders /\ global_active_win' \in Slots
         /\ down' = down /\ torn' = torn
         /\ OrderIsPermutation'
<1>1. /\ window_order \in Orders /\ k \in KRecords
  BY TypeShape DEF OrderInv
<1>2. k.win \in Slots /\ k.pos \in Ranks \cup {-1} /\ k.at = "slide"
  BY <1>1 DEF KRecords, Raise
<1>3. window_order' \in Orders
  BY <1>1, <1>2, BringKeeps DEF Raise
<1>4. ASSUME ~torn PROVE Injective(window_order')
  <2>1. Injective(window_order) /\ (k.pos # -1 => window_order[k.pos] = k.win)
    BY <1>4, <1>2 DEF OrderInv, OrderIsPermutation, Injective, RankHeld
  <2> QED BY <2>1, <1>1, <1>2, BringKeeps DEF Raise
<1>5. OrderIsPermutation'
  BY <1>4 DEF OrderIsPermutation, Injective, Raise
<1> QED BY <1>2, <1>3, <1>5 DEF Raise

\* A raise that leaves pid 0 outside the window code keeps the invariant.
LEMMA RaiseStep ==
  ASSUME OrderInv, Raise,
         windows' \in [Slots -> WindowRecords], process_table' \in [Apps -> ProcessRecords],
         pressed' \in [win : Slots \cup {-1}, btn : Buttons],
         k' \in KRecords, k'.at \notin {"slide", "sink"}
  PROVE  OrderInv'
<1>1. /\ window_order' \in Orders /\ global_active_win' \in Slots
      /\ down' = down /\ torn' = torn /\ OrderIsPermutation'
  BY RaiseKeeps
<1>2. down \in BOOLEAN /\ torn \in BOOLEAN
  BY TypeShape DEF OrderInv
<1>3. TypeOK'
  BY <1>1, <1>2 DEF TypeOK, WindowRecords, Orders, ProcessRecords, KRecords
<1> QED BY <1>1, <1>3 DEF OrderInv, RankHeld

LEMMA OrderNext == OrderInv /\ [Next]_vars => OrderInv'
<1> SUFFICES ASSUME OrderInv, [Next]_vars PROVE OrderInv'
  OBVIOUS
<1> DEFINE Presses == [win : Slots \cup {-1}, btn : Buttons]
<1>0. /\ windows \in [Slots -> WindowRecords] /\ window_order \in Orders
      /\ global_active_win \in Slots \cup {-1} /\ process_table \in [Apps -> ProcessRecords]
      /\ pressed \in Presses /\ down \in BOOLEAN /\ k \in KRecords /\ torn \in BOOLEAN
  BY TypeShape DEF OrderInv
<1>k. /\ k.win \in Slots /\ k.pos \in Ranks \cup {-1} /\ k.job \in Jobs /\ k.type \in Types
      /\ k.owner \in 0 .. MaxProcesses - 1 /\ k.parent \in Slots \cup {-1}
  BY <1>0 DEF KRecords
<1>t. ASSUME windows' \in [Slots -> WindowRecords], window_order' \in Orders,
             global_active_win' \in Slots \cup {-1}, process_table' \in [Apps -> ProcessRecords],
             pressed' \in Presses, down' \in BOOLEAN, k' \in KRecords, torn' \in BOOLEAN
      PROVE  TypeOK'
  BY <1>t DEF TypeOK, WindowRecords, Orders, ProcessRecords, KRecords
<1> DEFINE MenuType == {"terminal", "start_menu", "app_menu", "app_gui"}
<1>m. MenuType \subseteq Types /\ NoPress \in Presses /\ -1 \in Slots \cup {-1}
  BY DEF Types, MenuTypes, NoPress, Buttons
<1>f. FreePid # -1 => FreePid \in 0 .. MaxProcesses - 1 /\ FreePid \in Apps
  BY FreePidFound DEF Apps
<1> HIDE DEF Presses, MenuType
<1>1. CASE PickSlot
  <2>1. process_table' \in [Apps -> ProcessRecords]
    <3>1. Created(k.owner, -1, k.parent, FALSE) \in [Apps -> ProcessRecords]
      BY <1>0, <1>k, CreatedTyped
    <3> QED BY <3>1, <1>0, <1>1 DEF PickSlot
  <2>2. k' \in KRecords /\ k'.at \notin {"slide", "sink"}
    <3>1. CASE FreeSlot(windows) = -1
      BY <3>1, <1>1, KTyped DEF PickSlot
    <3>2. CASE FreeSlot(windows) # -1
      <4>1. FreeSlot(windows) \in Slots
        BY <3>2, FreeSlotFound
      <4>2. k' = [k EXCEPT !.at = "fill", !.win = FreeSlot(windows)]
        BY <3>2, <1>1 DEF PickSlot
      <4> QED BY <4>1, <4>2, <1>0 DEF KRecords, Places, Calm
    <3> QED BY <3>1, <3>2
  <2>3. TypeOK'
    BY <2>1, <2>2, <1>0, <1>1, <1>t DEF PickSlot
  <2> QED BY <2>2, <2>3, <1>1, OrderKept DEF PickSlot
<1>2. CASE FillSlot
  <2>1. windows' \in [Slots -> WindowRecords]
    BY <1>0, <1>k, <1>2, OpenedTyped DEF FillSlot
  <2>2. k' \in KRecords /\ k'.at = "own"
    BY <1>0, <1>2 DEF FillSlot, KRecords, Places
  <2>3. TypeOK'
    BY <2>1, <2>2, <1>0, <1>2, <1>t DEF FillSlot
  <2> QED BY <2>2, <2>3, <1>2, OrderKept DEF FillSlot
<1>24. CASE OwnSlot
  <2>1. windows' \in [Slots -> WindowRecords]
    BY <1>0, <1>k, <1>24, OpenedTyped DEF OwnSlot
  <2>2. LastPos(window_order, k.win) \in Ranks \cup {-1}
    BY <1>0, LastPosFound
  <2>3. /\ k' \in KRecords /\ k'.win = k.win /\ k'.pos = LastPos(window_order, k.win)
    BY <2>2, <1>0, <1>24 DEF OwnSlot, KRecords, Places
  <2>4. TypeOK'
    BY <2>1, <2>3, <1>0, <1>24, <1>t DEF OwnSlot
  <2> QED BY <2>3, <2>4, <1>24, OrderKept DEF OwnSlot
<1>3. CASE OpenedWindow
  <2>0. (windows[k.win].active /\ windows[k.win].owner = k.owner) \in BOOLEAN
    OBVIOUS
  <2>1. Created(k.owner, k.win, k.parent, windows[k.win].active /\ windows[k.win].owner = k.owner)
          \in [Apps -> ProcessRecords]
    BY <2>0, <1>0, <1>k, CreatedTyped
  <2>2. process_table' \in [Apps -> ProcessRecords]
    BY <2>1, <1>0, <1>3 DEF OpenedWindow
  <2> QED BY <2>2, <1>0, <1>3, KTyped, RaiseStep DEF OpenedWindow, Presses
<1>4. CASE Restored
  <2>1. [windows EXCEPT ![k.win].min = FALSE] \in [Slots -> WindowRecords]
    BY <1>0, <1>k DEF WindowRecords
  <2>2. windows' \in [Slots -> WindowRecords]
    BY <2>1, <1>4, ClosedTyped DEF Restored
  <2> QED BY <2>2, <1>0, <1>4, KTyped, RaiseStep DEF Restored, Presses
<1>5. CASE ClickedWindow
  <2>1. pressed' \in Presses
    BY <1>0, <1>k, <1>5 DEF ClickedWindow, Presses, Buttons
  <2> QED BY <2>1, <1>0, <1>5, KTyped, RaiseStep DEF ClickedWindow, Presses
<1>6. CASE ClickedTerminal
  <2>1. windows' \in [Slots -> WindowRecords]
    BY <1>0, <1>6, ClosedTyped DEF ClickedTerminal
  <2>2. k' \in KRecords /\ k'.at = "pick"
    BY <1>6, <1>m, KTyped, Sizes DEF ClickedTerminal, MenuType
  <2> QED BY <2>1, <2>2, <1>0, <1>6, RaiseStep DEF ClickedTerminal, Presses
<1>7. CASE ClickedApplications
  <2>1. windows' \in [Slots -> WindowRecords]
    BY <1>0, <1>7, ClosedTyped DEF ClickedApplications
  <2>2. k' \in KRecords /\ k'.at = "pick"
    BY <1>7, <1>m, KTyped, Sizes DEF ClickedApplications, MenuType
  <2> QED BY <2>1, <2>2, <1>0, <1>7, RaiseStep DEF ClickedApplications, Presses
<1>8. CASE ClickedProgram
  <2>1. windows' \in [Slots -> WindowRecords]
    BY <1>0, <1>8, ClosedTyped DEF ClickedProgram
  <2>2. k' \in KRecords /\ k'.at \notin {"slide", "sink"}
    <3>1. CASE k' = Idle
      BY <3>1, KTyped
    <3>2. CASE k' = [Idle EXCEPT !.at = "below"]
      BY <3>2, <1>0, KTyped DEF KRecords, Places, Calm
    <3>3. CASE FreePid # -1 /\ \E type \in {"app_gui", "terminal"} : k' = Opening(type, FreePid, -1)
      BY <3>3, <1>m, <1>f, KTyped, ZenonT(60) DEF MenuType
    <3> QED BY <3>1, <3>2, <3>3, <1>8 DEF ClickedProgram
  <2> QED BY <2>1, <2>2, <1>0, <1>8, RaiseStep DEF ClickedProgram, Presses
<1>25. CASE ClickGoesBelow
  <2>1. k' \in KRecords /\ (k'.at = "idle" \/ k'.pos = LastPos(window_order, k'.win))
    <3>1. CASE k' = Idle
      BY <3>1, KTyped
    <3>2. CASE k' # Idle
      <4>1. PICK w \in Slots : \E job \in Jobs : k' = Raising(w, job)
        <5>1. PICK r \in Ranks : \E job \in ClickJobs(window_order[r]) : k' = Raising(window_order[r], job)
          BY <3>2, <1>25 DEF ClickGoesBelow
        <5> QED BY <5>1, <1>0 DEF ClickJobs, Jobs, Orders
      <4>2. PICK job \in Jobs : k' = Raising(w, job)
        BY <4>1
      <4> QED BY <4>2, <1>0, RaisingTyped
    <3> QED BY <3>1, <3>2
  <2>2. TypeOK'
    BY <2>1, <1>0, <1>25, <1>t DEF ClickGoesBelow
  <2> QED BY <2>1, <2>2, <1>25, OrderKept DEF ClickGoesBelow
<1>9. CASE Sink
  <2>1. window_order' \in Orders
    BY <1>0, <1>k, <1>9, SunkKeeps DEF Sink
  <2>2. OrderIsPermutation'
    <3>1. ~torn => Injective(window_order')
      <4> SUFFICES ASSUME ~torn PROVE Injective(window_order')
        OBVIOUS
      <4>1. Injective(window_order) /\ (k.pos # -1 => window_order[k.pos] = k.win)
        BY <1>9 DEF OrderInv, OrderIsPermutation, Injective, RankHeld, Sink
      <4> QED BY <4>1, <1>0, <1>k, <1>9, SunkKeeps DEF Sink
    <3> QED BY <3>1, <1>9 DEF OrderIsPermutation, Injective, Sink
  <2>3. TypeOK'
    BY <2>1, <1>0, <1>9, <1>t, KTyped DEF Sink
  <2> QED BY <2>2, <2>3, <1>9, KTyped DEF Sink, OrderInv, RankHeld
<1>10. CASE PressStart
  <2>1. windows' \in [Slots -> WindowRecords]
    BY <1>0, <1>10, ClosedTyped DEF PressStart
  <2>2. k' \in KRecords /\ (k' = k \/ k'.at = "pick")
    BY <1>0, <1>10, <1>m, KTyped, Sizes, ZenonT(60) DEF PressStart, MenuType
  <2>3. TypeOK'
    BY <2>1, <2>2, <1>0, <1>10, <1>t DEF PressStart, PressBegins
  <2> QED BY <2>2, <2>3, <1>10, OrderKept DEF PressStart
<1>11. CASE PressBar
  <2>1. windows' \in [Slots -> WindowRecords]
    BY <1>0, <1>11, ClosedTyped DEF PressBar
  <2>2. pressed' \in Presses
    BY <1>0, <1>11 DEF PressBar, Presses, Buttons
  <2>3. TypeOK'
    BY <2>1, <2>2, <1>0, <1>11, <1>t DEF PressBar, PressBegins
  <2> QED BY <2>3, <1>11, OrderKept DEF PressBar
<1>12. ASSUME NEW w \in Slots, PressTaskbar(w) PROVE OrderInv'
  <2>1. windows' \in [Slots -> WindowRecords]
    BY <1>0, <1>12, ClosedTyped DEF PressTaskbar
  <2>2. k' \in KRecords /\ k'.pos = LastPos(window_order, k'.win)
    BY <1>0, <1>12, RaisingTyped DEF PressTaskbar, Jobs
  <2>3. TypeOK'
    BY <2>1, <2>2, <1>0, <1>12, <1>t DEF PressTaskbar, PressBegins
  <2> QED BY <2>2, <2>3, <1>12, OrderKept DEF PressTaskbar
<1>13. ASSUME NEW under \in SUBSET Slots, PressWindow(under) PROVE OrderInv'
  <2> DEFINE hits == {w \in under : \E r \in Ranks : window_order[r] = w}
  <2>1. windows' \in [Slots -> WindowRecords]
    BY <1>0, <1>13, ClosedTyped DEF PressWindow
  <2>2. k' \in KRecords /\ (k' = k \/ k'.pos = LastPos(window_order, k'.win))
    <3>1. CASE hits = {}
      BY <3>1, <1>0, <1>13 DEF PressWindow
    <3>2. CASE hits # {}
      <4>1. Topmost(hits) \in Slots
        BY <3>2, <1>0, TopmostFound
      <4>2. PICK job \in Jobs : k' = Raising(Topmost(hits), job)
        BY <3>2, <1>13 DEF PressWindow, ClickJobs, Jobs
      <4> QED BY <4>1, <4>2, <1>0, RaisingTyped
    <3> QED BY <3>1, <3>2
  <2>3. TypeOK'
    BY <2>1, <2>2, <1>0, <1>13, <1>t DEF PressWindow, PressBegins
  <2> QED BY <2>2, <2>3, <1>13, OrderKept DEF PressWindow
<1>14. CASE ReleaseIdle
  <2>1. TypeOK'
    BY <1>0, <1>14, <1>m, <1>t DEF ReleaseIdle, ReleaseBegins
  <2> QED BY <2>1, <1>14, OrderKept DEF ReleaseIdle
<1>15. CASE ReleaseInfo
  <2>1. k' \in KRecords /\ k'.at = "pick"
    <3>1. PICK type \in {"app_gui", "terminal"} : k' = Opening(type, FreePid, -1)
      BY <1>15 DEF ReleaseInfo
    <3>2. type \in Types /\ FreePid \in 0 .. MaxProcesses - 1 /\ -1 \in Slots \cup {-1}
      BY <1>15, <1>f DEF ReleaseInfo, Types
    <3> QED BY <3>1, <3>2, KTyped
  <2>2. TypeOK'
    BY <2>1, <1>0, <1>15, <1>m, <1>t DEF ReleaseInfo, ReleaseBegins
  <2> QED BY <2>1, <2>2, <1>15, OrderKept DEF ReleaseInfo
<1>16. CASE ReleaseClose
  <2>1. k' \in KRecords /\ k'.at = "scan"
    <3>1. pressed.win \in Slots
      BY <1>0, <1>16 DEF ReleaseClose, Presses
    <3>2. k' = [Idle EXCEPT !.at = "scan", !.win = pressed.win] /\ "scan" \in Places
      BY <1>16 DEF ReleaseClose, Places, Calm
    <3> QED BY <3>1, <3>2, KTyped DEF Idle
  <2>2. TypeOK'
    BY <2>1, <1>0, <1>16, <1>m, <1>t DEF ReleaseClose, ReleaseBegins
  <2> QED BY <2>1, <2>2, <1>16, OrderKept DEF ReleaseClose
<1>26. ASSUME NEW p \in Apps, CloseWindowsOf(p) PROVE OrderInv'
  <2>1. windows' \in [Slots -> WindowRecords]
    BY <1>0, <1>26, ClosedTyped DEF CloseWindowsOf
  <2>2. k' \in KRecords /\ k'.at = "reap"
    <3>1. k' = [k EXCEPT !.at = "reap", !.owner = p]
      BY <1>26 DEF CloseWindowsOf
    <3>2. "reap" \in Places /\ p \in 0 .. MaxProcesses - 1
      BY DEF Places, Calm, Apps
    <3> QED BY <3>1, <3>2, <1>0 DEF KRecords
  <2>3. TypeOK'
    BY <2>1, <2>2, <1>0, <1>26, <1>t DEF CloseWindowsOf
  <2> QED BY <2>2, <2>3, <1>26, OrderKept DEF CloseWindowsOf
<1>27. CASE EndClient
  <2>1. process_table' \in [Apps -> ProcessRecords]
    BY <1>0, <1>27, EndedTyped DEF EndClient
  <2>2. k' \in KRecords /\ k'.at = "scan"
    BY <1>0, <1>27 DEF EndClient, KRecords, Places, Calm
  <2>3. TypeOK'
    BY <2>1, <2>2, <1>0, <1>27, <1>t DEF EndClient
  <2> QED BY <2>2, <2>3, <1>27, OrderKept DEF EndClient
<1>28. CASE CloseLast
  <2>1. windows' \in [Slots -> WindowRecords]
    BY <1>0, <1>28, ClosedTyped DEF CloseLast
  <2>2. TypeOK'
    BY <2>1, <1>0, <1>28, <1>t, KTyped DEF CloseLast
  <2> QED BY <2>2, <1>28, KTyped, OrderKept DEF CloseLast
<1>17. CASE ReleaseMin
  <2>1. k.at = "idle" /\ pressed.win \in Slots \cup {-1}
    BY <1>0, <1>17 DEF ReleaseMin, ReleaseBegins, Presses
  <2>2. windows' \in [Slots -> WindowRecords]
    BY <1>0, <1>17 DEF ReleaseMin, WindowRecords
  <2>3. k' \in KRecords /\ k'.pos = LastPos(window_order, k'.win)
    <3>1. LastPos(window_order, pressed.win) \in Ranks \cup {-1}
      BY <1>0, LastPosFound
    <3>2. pressed.win \in Slots
      BY <2>1, <1>17 DEF ReleaseMin
    <3> QED BY <3>1, <3>2, <1>17, KTyped DEF ReleaseMin, KRecords, Places, Calm
  <2>4. TypeOK'
    BY <2>2, <2>3, <1>0, <1>17, <1>m, <1>t DEF ReleaseMin, ReleaseBegins
  <2> QED BY <2>3, <2>4, <1>17, OrderKept DEF ReleaseMin
<1>18. CASE RunGui
  <2>1. k' \in KRecords /\ k'.at = "pick"
    BY <1>0, <1>18, <1>m, <1>f, KTyped DEF RunGui, MenuType
  <2>2. TypeOK'
    BY <2>1, <1>0, <1>18, <1>t DEF RunGui
  <2> QED BY <2>1, <2>2, <1>18, OrderKept DEF RunGui
<1>19. CASE RunText
  <2>1. process_table' \in [Apps -> ProcessRecords]
    BY <1>0, <1>19, Sizes, CreatedTyped DEF RunText, Orders
  <2>2. TypeOK'
    BY <2>1, <1>0, <1>19, <1>t DEF RunText
  <2> QED BY <2>2, <1>19, OrderKept DEF RunText
<1>20. ASSUME NEW p \in Apps, KillCommand(p) \/ Die(p) PROVE OrderInv'
  <2>1. process_table' \in [Apps -> ProcessRecords]
    BY <1>0, <1>20, EndedTyped DEF KillCommand, Die
  <2>2. TypeOK'
    BY <2>1, <1>0, <1>20, <1>t DEF KillCommand, Die
  <2> QED BY <2>2, <1>20, OrderKept DEF KillCommand, Die
<1>21. ASSUME NEW p \in Apps, Exit(p) PROVE OrderInv'
  <2>1. windows' \in [Slots -> WindowRecords] /\ process_table' \in [Apps -> ProcessRecords]
    BY <1>0, <1>21, ClosedTyped, EndedTyped DEF Exit
  <2>2. TypeOK'
    BY <2>1, <1>0, <1>21, <1>t DEF Exit
  <2> QED BY <2>2, <1>21, OrderKept DEF Exit
<1>22. ASSUME NEW p \in Apps, ChildWindow(p) PROVE OrderInv'
  <2> DEFINE w == FreeSlot(windows)
             opened == Owned(Claimed(windows, w, "app_gui"), w, p)
             pos == LastPos(window_order, w)
  <2>1. w \in Slots /\ pos \in Ranks \cup {-1} /\ (pos # -1 => window_order[pos] = w)
    BY <1>0, <1>22, FreeSlotFound, LastPosFound DEF ChildWindow
  <2>2. opened \in [Slots -> WindowRecords]
    BY <2>1, <1>0, ChildTyped
  <2>3. window_order' \in Orders /\ (Injective(window_order) => Injective(window_order'))
    BY <2>1, <1>0, <1>22, BringKeeps DEF ChildWindow
  <2>4. TypeOK'
    BY <2>1, <2>2, <2>3, <1>0, <1>22, <1>t DEF ChildWindow
  <2>5. OrderIsPermutation'
    BY <2>3, <1>22 DEF OrderInv, OrderIsPermutation, Injective, ChildWindow
  <2>6. RankHeld'
    BY <1>22 DEF ChildWindow, RankHeld, Calm
  <2> QED BY <2>4, <2>5, <2>6 DEF OrderInv
<1>23. CASE UNCHANGED vars
  <2>1. TypeOK'
    BY <1>0, <1>23, <1>t DEF vars
  <2> QED BY <2>1, <1>23, OrderKept DEF vars
<1> QED
  BY <1>1, <1>2, <1>3, <1>4, <1>5, <1>6, <1>7, <1>8, <1>9, <1>10, <1>11, <1>12, <1>13, <1>14,
     <1>15, <1>16, <1>17, <1>18, <1>19, <1>20, <1>21, <1>22, <1>23, <1>24, <1>25, <1>26, <1>27,
     <1>28 DEF Next, Kernel

\* Type correctness, and every slot at one rank (window_order, 1749-1783 and
\* 7085-7138), for any number of windows and processes.
THEOREM TypeCorrect == Spec => []TypeOK
<1>1. OrderInv => TypeOK
  BY DEF OrderInv
<1> QED BY <1>1, OrderInit, OrderNext, PTL DEF Spec

THEOREM OrderStays == Spec => []OrderIsPermutation
<1>1. OrderInv => OrderIsPermutation
  BY DEF OrderInv
<1> QED BY <1>1, OrderInit, OrderNext, PTL DEF Spec

(***************************************************************************)
(* The window a program got stays its own.  While pid 0 is between the     *)
(* choice of a slot and its last use, the pid it opens for is not yet in   *)
(* use, and the slot is no program's; while it closes a window, the        *)
(* clients it has passed are gone.                                         *)
(***************************************************************************)
Has(win, p, w) == w \in Slots /\ win[w].active /\ win[w].owner = p
Owns(p) == process_table[p].active /\ process_table[p].own
OwnHeld == \A p \in Apps : Owns(p) /\ ~BeingClosed(p) => Has(windows, p, process_table[p].linked)
Opens == k.at \in {"pick", "fill", "own"} \/ (k.at = "slide" /\ k.job = "open")
PidUnused == Opens /\ k.owner > 0 => ~process_table[k.owner].active
SlotUnused == k.at \in {"fill", "own"} => \A p \in Apps : Owns(p) => process_table[p].linked # k.win
Scanned ==
  \A p \in Apps : p \in Clients(k.win) =>
    (k.at = "scan" => p > k.owner) /\ (k.at = "reap" => p >= k.owner)
MenusAreKernels ==
  /\ \A w \in Slots : windows[w].type \in MenuTypes /\ ~(k.at = "own" /\ w = k.win) => windows[w].owner = 0
  /\ k.at \in {"pick", "fill"} /\ k.type \in MenuTypes => k.owner = 0
  /\ k.at = "own" /\ windows[k.win].type \in MenuTypes => k.owner = 0
OwnInv == OwnHeld /\ PidUnused /\ SlotUnused /\ Scanned /\ MenusAreKernels

LEMMA OwnInit == Init => OwnInv
<1> SUFFICES ASSUME Init PROVE OwnInv
  OBVIOUS
<1>1. k.at = "idle" /\ \A p \in Apps : ~process_table[p].active
  BY DEF Init, Idle, Dead
<1>2. \A w \in Slots : windows[w].type \notin MenuTypes
  BY DEF Init, Closed, MenuTypes
<1> QED
  BY <1>1, <1>2 DEF OwnInv, OwnHeld, Owns, PidUnused, SlotUnused, Scanned, MenusAreKernels, Opens

LEMMA PidsPositive == \A p \in Apps : p > 0 /\ p \in Int
BY Sizes DEF Apps

LEMMA OpeningFields ==
  ASSUME NEW type, NEW owner, NEW parent
  PROVE  /\ Opening(type, owner, parent).at = "pick"
         /\ Opening(type, owner, parent).type = type
         /\ Opening(type, owner, parent).owner = owner
BY DEF Opening, Idle

LEMMA RaisingFields ==
  ASSUME NEW w, NEW job
  PROVE  /\ Raising(w, job).at = "slide"
         /\ Raising(w, job).job = job
         /\ Raising(w, job).owner = 0
BY DEF Raising, Idle

\* Closing windows that are no program's own keeps what programs have; and a
\* closed slot keeps its owner and has no type.
LEMMA WithoutKeeps ==
  ASSUME windows \in [Slots -> WindowRecords], NEW S, NEW p, NEW w,
         Has(windows, p, w), w \notin S
  PROVE  Has(Without(windows, S), p, w)
BY DEF Has, Without

LEMMA WithoutMenus ==
  ASSUME NEW win \in [Slots -> WindowRecords], NEW S, NEW w \in Slots
  PROVE  /\ Without(win, S)[w].owner = win[w].owner
         /\ Without(win, S)[w].type \in MenuTypes => win[w].type \in MenuTypes
<1>1. CASE w \in S
  <2>1. Without(win, S)[w] = [Closed EXCEPT !.owner = win[w].owner]
    BY <1>1 DEF Without
  <2> QED BY <2>1 DEF Closed, MenuTypes
<1>2. CASE w \notin S
  BY <1>2 DEF Without
<1> QED BY <1>1, <1>2

\* A step of pid 0 that closes menus, leaves the processes alone and goes to a
\* place where nothing is kept, or where it opens for an unused pid.
LEMMA MenusClosed ==
  ASSUME TypeOK, OwnInv, NEW S, \A w \in S : windows[w].type \in MenuTypes,
         windows' = Without(windows, S), UNCHANGED process_table, k.at \notin {"own", "reap"},
         \/ k'.at \in {"idle", "sink", "below"}
         \/ k'.at = "slide" /\ k'.job # "open"
         \/ /\ k'.at = "pick" /\ (k'.type \in MenuTypes => k'.owner = 0)
            /\ (k'.owner > 0 => ~process_table[k'.owner].active)
  PROVE  OwnInv'
<1>0. windows \in [Slots -> WindowRecords]
  BY TypeShape
<1>1. OwnHeld'
  <2> SUFFICES ASSUME NEW p \in Apps, Owns(p)
               PROVE  Has(windows', p, process_table[p].linked)
    BY DEF OwnHeld, Owns
  <2> DEFINE w == process_table[p].linked
  <2>1. Has(windows, p, w)
    BY DEF OwnInv, OwnHeld, BeingClosed
  <2>2. w \notin S
    <3>1. windows[w].owner # 0 /\ w \in Slots
      BY <2>1, PidsPositive DEF Has
    <3> QED BY <3>1 DEF OwnInv, MenusAreKernels
  <2> QED BY <1>0, <2>1, <2>2, WithoutKeeps
<1>2. PidUnused' /\ SlotUnused' /\ Scanned'
  BY DEF PidUnused, SlotUnused, Scanned, Opens
<1>3. MenusAreKernels'
  <2>1. \A w \in Slots : windows'[w].type \in MenuTypes => windows'[w].owner = 0
    BY <1>0, WithoutMenus DEF OwnInv, MenusAreKernels
  <2> QED BY <2>1 DEF MenusAreKernels
<1> QED BY <1>1, <1>2, <1>3 DEF OwnInv

\* Processes end, and windows close that belong to none of those that stay.
LEMMA ClientsEnded ==
  ASSUME TypeOK, OwnInv, NEW dead \in SUBSET Apps, NEW S,
         windows' = Without(windows, S), process_table' = Ended(dead),
         \A p \in Apps : Owns(p) /\ ~BeingClosed(p) /\ p \notin dead => process_table[p].linked \notin S,
         UNCHANGED k
  PROVE  OwnInv'
<1>0. windows \in [Slots -> WindowRecords]
  BY TypeShape
<1>1. \A p \in Apps : /\ p \in dead => ~process_table'[p].active
                      /\ p \notin dead => process_table'[p] = process_table[p]
  BY DEF Ended, Dead
<1>2. OwnHeld'
  <2> SUFFICES ASSUME NEW p \in Apps, Owns(p)', ~BeingClosed(p)
               PROVE  Has(windows', p, process_table'[p].linked)
    BY DEF OwnHeld, BeingClosed
  <2>1. p \notin dead /\ process_table'[p] = process_table[p] /\ Owns(p)
    BY <1>1 DEF Owns
  <2>2. Has(windows, p, process_table[p].linked) /\ process_table[p].linked \notin S
    BY <2>1 DEF OwnInv, OwnHeld
  <2> QED BY <1>0, <2>1, <2>2, WithoutKeeps
<1>3. PidUnused'
  <2> SUFFICES ASSUME Opens, k.owner > 0 PROVE ~process_table'[k.owner].active
    BY DEF PidUnused, Opens
  <2>1. ~process_table[k.owner].active
    BY DEF OwnInv, PidUnused
  <2>2. k.owner \in Apps
    BY TypeShape DEF KRecords, Apps
  <2> QED BY <1>1, <2>1, <2>2
<1>4. SlotUnused'
  <2> SUFFICES ASSUME k.at \in {"fill", "own"}, NEW p \in Apps, Owns(p)'
               PROVE  process_table'[p].linked # k.win
    BY DEF SlotUnused
  <2>1. process_table'[p] = process_table[p] /\ Owns(p)
    BY <1>1 DEF Owns
  <2> QED BY <2>1 DEF OwnInv, SlotUnused
<1>5. MenusAreKernels'
  <2>1. \A w \in Slots : windows'[w].type \in MenuTypes => windows[w].type \in MenuTypes /\ windows'[w].owner = windows[w].owner
    BY <1>0, WithoutMenus
  <2>2. k.win \in Slots
    BY TypeShape DEF KRecords
  <2> QED BY <2>1, <2>2 DEF OwnInv, MenusAreKernels
<1>6. Scanned'
  <2> SUFFICES ASSUME NEW p \in Apps, p \in Clients(k.win)'
               PROVE  (k.at = "scan" => p > k.owner) /\ (k.at = "reap" => p >= k.owner)
    BY DEF Scanned
  <2>1. p \in Clients(k.win)
    BY <1>1 DEF Clients
  <2> QED BY <2>1 DEF OwnInv, Scanned
<1> QED BY <1>2, <1>3, <1>4, <1>5, <1>6 DEF OwnInv

\* A step of pid 0 to a place where nothing is kept, that opens and closes no
\* window and at most starts a program without one.
LEMMA NothingOpens ==
  ASSUME TypeOK, OwnInv, k.at \notin {"own", "reap"}, k'.at \in {"idle", "sink", "below"},
         \A w \in Slots : /\ windows'[w].active = windows[w].active
                          /\ windows'[w].type = windows[w].type
                          /\ windows'[w].owner = windows[w].owner,
         \A p \in Apps : Owns(p)' => Owns(p) /\ process_table'[p].linked = process_table[p].linked
  PROVE  OwnInv'
<1>1. OwnHeld'
  BY DEF OwnInv, OwnHeld, Has, BeingClosed
<1>2. PidUnused' /\ SlotUnused' /\ Scanned'
  BY DEF PidUnused, SlotUnused, Scanned, Opens
<1>3. MenusAreKernels'
  BY DEF OwnInv, MenusAreKernels
<1> QED BY <1>1, <1>2, <1>3 DEF OwnInv

\* Choosing the slot, or finding none.
LEMMA OwnPick == TypeOK /\ OwnInv /\ PickSlot => OwnInv'
<1> SUFFICES ASSUME TypeOK, OwnInv, PickSlot PROVE OwnInv'
  OBVIOUS
<1>0. process_table \in [Apps -> ProcessRecords] /\ k \in KRecords /\ k.at = "pick"
  BY TypeShape DEF PickSlot
<1>1. CASE FreeSlot(windows) = -1
  <2>1. k' = Idle /\ UNCHANGED windows
    BY <1>1 DEF PickSlot
  <2>2. k'.at = "idle"
    BY <2>1 DEF Idle
  <2>3. ASSUME NEW p \in Apps, Owns(p)'
        PROVE  Owns(p) /\ process_table'[p].linked = process_table[p].linked
    <3>1. CASE k.owner > 0
      <4>1. process_table' = Created(k.owner, -1, k.parent, FALSE)
        BY <1>1, <3>1 DEF PickSlot
      <4>2. p # k.owner
        BY <4>1, <2>3, <1>0 DEF Created, Owns
      <4>3. process_table'[p] = process_table[p]
        BY <4>1, <4>2, <1>0 DEF Created
      <4> QED BY <4>3, <2>3 DEF Owns
    <3>2. CASE ~(k.owner > 0)
      BY <1>1, <3>2, <2>3 DEF PickSlot, Owns
    <3> QED BY <3>1, <3>2
  <2> QED BY <1>0, <2>1, <2>2, <2>3, NothingOpens
<1>2. CASE FreeSlot(windows) # -1
  <2>1. /\ k'.at = "fill" /\ k'.win = FreeSlot(windows) /\ k'.owner = k.owner /\ k'.type = k.type
        /\ UNCHANGED <<windows, process_table>>
    BY <1>0, <1>2 DEF PickSlot, KRecords
  <2>2. ~windows[k'.win].active
    BY <1>2, <2>1, FreeSlotFound
  <2>3. OwnHeld' /\ MenusAreKernels' /\ PidUnused' /\ Scanned'
    BY <1>0, <2>1 DEF OwnInv, OwnHeld, BeingClosed, Owns, MenusAreKernels, PidUnused, Opens, Scanned
  <2>4. SlotUnused'
    BY <1>0, <2>1, <2>2 DEF OwnInv, OwnHeld, BeingClosed, Owns, SlotUnused, Has
  <2> QED BY <2>3, <2>4 DEF OwnInv
<1> QED BY <1>1, <1>2

\* Opening it: it is no program's, whatever its owner is,
LEMMA OwnFill == TypeOK /\ OwnInv /\ FillSlot => OwnInv'
<1> SUFFICES ASSUME TypeOK, OwnInv, FillSlot PROVE OwnInv'
  OBVIOUS
<1>0. windows \in [Slots -> WindowRecords] /\ k \in KRecords
  BY TypeShape
<1>1. /\ k'.at = "own" /\ k'.win = k.win /\ k'.owner = k.owner /\ k.win \in Slots /\ k.at = "fill"
      /\ k.type \in Types /\ UNCHANGED process_table
  BY <1>0 DEF FillSlot, KRecords
<1>2. /\ windows'[k.win].type = k.type
      /\ \A w \in Slots : w # k.win => windows'[w] = windows[w]
  BY <1>0, <1>1, OpenedTyped DEF FillSlot
<1>3. OwnHeld'
  BY <1>1, <1>2 DEF OwnInv, OwnHeld, BeingClosed, SlotUnused, Owns, Has
<1>4. SlotUnused'
  BY <1>1 DEF OwnInv, SlotUnused, Owns
<1>5. PidUnused' /\ Scanned'
  BY <1>1 DEF OwnInv, PidUnused, Opens, Scanned
<1>6. MenusAreKernels'
  BY <1>1, <1>2 DEF OwnInv, MenusAreKernels
<1> QED BY <1>3, <1>4, <1>5, <1>6 DEF OwnInv

\* and writing its owner.
LEMMA OwnOwner == TypeOK /\ OwnInv /\ OwnSlot => OwnInv'
<1> SUFFICES ASSUME TypeOK, OwnInv, OwnSlot PROVE OwnInv'
  OBVIOUS
<1>0. windows \in [Slots -> WindowRecords] /\ k \in KRecords
  BY TypeShape
<1>1. /\ k'.at = "slide" /\ k'.win = k.win /\ k'.owner = k.owner /\ k.win \in Slots /\ k.at = "own"
      /\ k.owner \in 0 .. MaxProcesses - 1 /\ UNCHANGED process_table
  BY <1>0 DEF OwnSlot, KRecords
<1>2. /\ windows'[k.win].type = windows[k.win].type /\ windows'[k.win].owner = k.owner
      /\ \A w \in Slots : w # k.win => windows'[w] = windows[w]
  BY <1>0, <1>1, OpenedTyped DEF OwnSlot
<1>3. OwnHeld'
  BY <1>1, <1>2 DEF OwnInv, OwnHeld, BeingClosed, SlotUnused, Owns, Has
<1>4. SlotUnused' /\ Scanned'
  BY <1>1 DEF SlotUnused, Scanned
<1>5. PidUnused'
  BY <1>1 DEF OwnInv, PidUnused, Opens
<1>6. MenusAreKernels'
  BY <1>1, <1>2 DEF OwnInv, MenusAreKernels
<1> QED BY <1>3, <1>4, <1>5, <1>6 DEF OwnInv

\* The program starts, with the window if it is still open.
LEMMA OwnOpened == TypeOK /\ OwnInv /\ OpenedWindow => OwnInv'
<1> SUFFICES ASSUME TypeOK, OwnInv, OpenedWindow PROVE OwnInv'
  OBVIOUS
<1>0. process_table \in [Apps -> ProcessRecords] /\ k \in KRecords
  BY TypeShape
<1>1. k'.at = "idle" /\ UNCHANGED windows /\ k.at = "slide" /\ k.job = "open" /\ k.win \in Slots
  BY <1>0 DEF OpenedWindow, Raise, Idle, KRecords
<1>2. OwnHeld'
  <2> SUFFICES ASSUME NEW p \in Apps, Owns(p)'
               PROVE  Has(windows, p, process_table'[p].linked)
    BY <1>1 DEF OwnHeld
  <2>1. CASE k.owner > 0 /\ p = k.owner
    <3>1. /\ process_table'[p].linked = k.win
          /\ process_table'[p].own = (windows[k.win].active /\ windows[k.win].owner = k.owner)
      BY <1>0, <2>1 DEF OpenedWindow, Created
    <3> QED BY <3>1, <2>1, <1>1 DEF Owns, Has
  <2>2. CASE ~(k.owner > 0 /\ p = k.owner)
    <3>1. process_table'[p] = process_table[p]
      BY <1>0, <2>2 DEF OpenedWindow, Created
    <3> QED BY <3>1, <1>1 DEF OwnInv, OwnHeld, BeingClosed, Owns
  <2> QED BY <2>1, <2>2
<1>3. PidUnused' /\ SlotUnused' /\ Scanned'
  BY <1>1 DEF PidUnused, SlotUnused, Scanned, Opens
<1>4. MenusAreKernels'
  BY <1>1 DEF OwnInv, MenusAreKernels
<1> QED BY <1>2, <1>3, <1>4 DEF OwnInv

\* Restoring from the taskbar closes the menus, which are no program's.
LEMMA OwnRestored == TypeOK /\ OwnInv /\ Restored => OwnInv'
<1> SUFFICES ASSUME TypeOK, OwnInv, Restored PROVE OwnInv'
  OBVIOUS
<1> DEFINE shown == [windows EXCEPT ![k.win].min = FALSE]
           S == OfTypes(windows, MenuTypes)
<1>0. windows \in [Slots -> WindowRecords] /\ k \in KRecords /\ k.at = "slide"
  BY TypeShape DEF Restored, Raise
<1>1. k'.at = "idle" /\ UNCHANGED process_table /\ windows' = Without(shown, S)
  BY DEF Restored, Idle
<1>2. shown \in [Slots -> WindowRecords]
  BY <1>0 DEF WindowRecords, KRecords
<1>3. \A w \in Slots : /\ shown[w].active = windows[w].active
                       /\ shown[w].type = windows[w].type
                       /\ shown[w].owner = windows[w].owner
  BY <1>0 DEF WindowRecords
<1> HIDE DEF shown
<1>4. OwnHeld'
  <2> SUFFICES ASSUME NEW p \in Apps, Owns(p)
               PROVE  Has(windows', p, process_table[p].linked)
    BY <1>1 DEF OwnHeld, Owns
  <2> DEFINE w == process_table[p].linked
  <2>1. Has(windows, p, w)
    BY <1>0 DEF OwnInv, OwnHeld, BeingClosed
  <2>2. w \in Slots /\ windows[w].owner # 0
    BY <2>1, PidsPositive DEF Has
  <2>3. w \notin S
    BY <1>0, <2>2 DEF OwnInv, MenusAreKernels, OfTypes
  <2>4. windows'[w] = shown[w]
    BY <2>2, <2>3, <1>1 DEF Without
  <2> QED BY <2>1, <2>2, <2>4, <1>3 DEF Has
<1>5. PidUnused' /\ SlotUnused' /\ Scanned'
  BY <1>1 DEF PidUnused, SlotUnused, Scanned, Opens
<1>6. MenusAreKernels'
  <2>1. \A w \in Slots : shown[w].type \in MenuTypes => shown[w].owner = 0
    BY <1>0, <1>3 DEF OwnInv, MenusAreKernels
  <2>2. \A w \in Slots : Without(shown, S)[w].type \in MenuTypes => Without(shown, S)[w].owner = 0
    BY <2>1, <1>2, WithoutMenus
  <2> QED BY <2>2, <1>1 DEF MenusAreKernels
<1> QED BY <1>4, <1>5, <1>6 DEF OwnInv

\* A window opened by syscall 14 takes a free slot.
LEMMA OwnChild == ASSUME TypeOK, OwnInv, NEW p \in Apps, ChildWindow(p) PROVE OwnInv'
<1> DEFINE w == FreeSlot(windows)
<1>0. windows \in [Slots -> WindowRecords]
  BY TypeShape
<1>1. w \in Slots /\ ~windows[w].active /\ UNCHANGED <<process_table, k>>
      /\ windows' = Owned(Claimed(windows, w, "app_gui"), w, p)
  BY FreeSlotFound DEF ChildWindow
<1> HIDE DEF w
<1>2. /\ windows'[w].type = "app_gui"
      /\ \A v \in Slots : v # w => windows'[v] = windows[v]
  BY <1>0, <1>1, ChildTyped
<1>3. OwnHeld'
  BY <1>1, <1>2 DEF OwnInv, OwnHeld, BeingClosed, Owns, Has
<1>4. PidUnused' /\ SlotUnused' /\ Scanned'
  BY <1>1 DEF OwnInv, PidUnused, SlotUnused, Scanned, Clients, Opens, Owns
<1>5. MenusAreKernels'
  <2>1. k.win \in Slots
    BY TypeShape DEF KRecords
  <2> QED BY <2>1, <1>1, <1>2 DEF OwnInv, MenusAreKernels, MenuTypes
<1> QED BY <1>3, <1>4, <1>5 DEF OwnInv

LEMMA OwnExit == ASSUME TypeOK, OwnInv, NEW p \in Apps, Exit(p) PROVE OwnInv'
<1> DEFINE S == OwnedBy({p})
<1>1. ASSUME NEW q \in Apps, Owns(q), ~BeingClosed(q), q \notin {p} PROVE process_table[q].linked \notin S
  BY <1>1 DEF OwnInv, OwnHeld, Has, OwnedBy
<1> QED BY <1>1, ClientsEnded DEF Exit

\* A program that ends without closing anything.
LEMMA OwnEnd ==
  ASSUME TypeOK, OwnInv, NEW p \in Apps, process_table' = Ended({p}), UNCHANGED <<windows, k>>
  PROVE  OwnInv'
<1>1. windows' = Without(windows, {})
  BY TypeShape DEF Without
<1> QED BY <1>1, ClientsEnded

\* The close button starts with the first process,
LEMMA OwnClose == TypeOK /\ OwnInv /\ ReleaseClose => OwnInv'
<1> SUFFICES ASSUME TypeOK, OwnInv, ReleaseClose PROVE OwnInv'
  OBVIOUS
<1>1. k.at = "idle" /\ k'.at = "scan" /\ k'.owner = 0 /\ UNCHANGED <<windows, process_table>>
  BY DEF ReleaseClose, ReleaseBegins, Idle
<1>2. OwnHeld' /\ PidUnused' /\ SlotUnused' /\ MenusAreKernels'
  BY <1>1 DEF OwnInv, OwnHeld, BeingClosed, Owns, PidUnused, Opens, SlotUnused, MenusAreKernels
<1>3. Scanned'
  BY <1>1, PidsPositive DEF Scanned
<1> QED BY <1>2, <1>3 DEF OwnInv

\* closes the windows of the next client and of nobody else,
LEMMA OwnCloseWindows == ASSUME TypeOK, OwnInv, NEW p \in Apps, CloseWindowsOf(p) PROVE OwnInv'
<1> DEFINE S == OwnedBy({p})
<1>0. windows \in [Slots -> WindowRecords] /\ k \in KRecords
  BY TypeShape
<1>1. /\ k.at = "scan" /\ k'.at = "reap" /\ k'.win = k.win /\ k'.owner = p
      /\ windows' = Without(windows, S) /\ UNCHANGED process_table
      /\ p \in ClientsLeft /\ \A q \in ClientsLeft : p <= q
  BY <1>0 DEF CloseWindowsOf, KRecords
<1>2. OwnHeld'
  <2> SUFFICES ASSUME NEW q \in Apps, Owns(q), q # p
               PROVE  Has(windows', q, process_table[q].linked)
    BY <1>1 DEF OwnHeld, Owns, BeingClosed
  <2>1. Has(windows, q, process_table[q].linked)
    BY <1>1 DEF OwnInv, OwnHeld, BeingClosed
  <2>2. process_table[q].linked \notin S
    BY <2>1 DEF Has, OwnedBy
  <2> QED BY <1>0, <1>1, <2>1, <2>2, WithoutKeeps
<1>3. Scanned'
  <2> SUFFICES ASSUME NEW q \in Apps, q \in Clients(k.win) PROVE q >= p
    BY <1>1 DEF Scanned, Clients
  <2>1. q \in ClientsLeft
    BY <1>1 DEF OwnInv, Scanned, ClientsLeft
  <2> QED BY <2>1, <1>1, PidsPositive
<1>4. PidUnused' /\ SlotUnused'
  BY <1>1 DEF PidUnused, Opens, SlotUnused
<1>5. MenusAreKernels'
  <2>1. \A w \in Slots : windows'[w].type \in MenuTypes => windows[w].type \in MenuTypes /\ windows'[w].owner = windows[w].owner
    BY <1>0, <1>1, WithoutMenus
  <2> QED BY <2>1, <1>1 DEF OwnInv, MenusAreKernels
<1> QED BY <1>2, <1>3, <1>4, <1>5 DEF OwnInv

\* ends it,
LEMMA OwnEndClient == TypeOK /\ OwnInv /\ EndClient => OwnInv'
<1> SUFFICES ASSUME TypeOK, OwnInv, EndClient PROVE OwnInv'
  OBVIOUS
<1>0. k \in KRecords
  BY TypeShape
<1>1. /\ k.at = "reap" /\ k'.at = "scan" /\ k'.win = k.win /\ k'.owner = k.owner
      /\ UNCHANGED windows /\ process_table' = Ended({k.owner})
  BY <1>0 DEF EndClient, KRecords
<1>2. \A p \in Apps : /\ p = k.owner => ~process_table'[p].active
                      /\ p # k.owner => process_table'[p] = process_table[p]
  BY <1>1 DEF Ended, Dead
<1>3. OwnHeld'
  <2> SUFFICES ASSUME NEW p \in Apps, Owns(p)'
               PROVE  Has(windows, p, process_table'[p].linked)
    BY <1>1 DEF OwnHeld
  <2>1. p # k.owner /\ process_table'[p] = process_table[p] /\ Owns(p)
    BY <1>2 DEF Owns
  <2> QED BY <2>1 DEF OwnInv, OwnHeld, BeingClosed
<1>4. Scanned'
  <2> SUFFICES ASSUME NEW p \in Apps, p \in Clients(k.win)' PROVE p > k.owner
    BY <1>1 DEF Scanned, Clients
  <2>1. p # k.owner /\ p \in Clients(k.win)
    BY <1>1, <1>2 DEF Clients
  <2>2. p >= k.owner /\ p \in Int /\ k.owner \in Int
    <3>1. p >= k.owner
      <4>1. Scanned
        BY DEF OwnInv
      <4> QED BY <4>1, <1>1, <2>1 DEF Scanned
    <3>2. k.owner \in Int
      BY <1>0, Sizes DEF KRecords
    <3> QED BY <3>1, <3>2, PidsPositive
  <2> QED BY <2>1, <2>2
<1>5. PidUnused' /\ SlotUnused' /\ MenusAreKernels'
  BY <1>1 DEF OwnInv, PidUnused, Opens, SlotUnused, MenusAreKernels
<1> QED BY <1>3, <1>4, <1>5 DEF OwnInv

\* and closes the window when it has no clients.
LEMMA OwnCloseLast == TypeOK /\ OwnInv /\ CloseLast => OwnInv'
<1> SUFFICES ASSUME TypeOK, OwnInv, CloseLast PROVE OwnInv'
  OBVIOUS
<1> DEFINE S == {k.win}
<1>0. windows \in [Slots -> WindowRecords] /\ k \in KRecords
  BY TypeShape
<1>1. /\ k.at = "scan" /\ k'.at = "idle" /\ ClientsLeft = {}
      /\ windows' = Without(windows, S) /\ UNCHANGED process_table
  BY DEF CloseLast, Idle
<1>2. OwnHeld'
  <2> SUFFICES ASSUME NEW p \in Apps, Owns(p)
               PROVE  Has(windows', p, process_table[p].linked)
    BY <1>1 DEF OwnHeld, Owns
  <2>1. Has(windows, p, process_table[p].linked)
    BY <1>1 DEF OwnInv, OwnHeld, BeingClosed
  <2>2. process_table[p].linked # k.win
    <3>1. p \notin Clients(k.win)
      BY <1>1 DEF OwnInv, Scanned, ClientsLeft
    <3> QED BY <3>1 DEF Clients, Owns
  <2> QED BY <1>0, <1>1, <2>1, <2>2, WithoutKeeps
<1>3. PidUnused' /\ SlotUnused' /\ Scanned'
  BY <1>1 DEF PidUnused, Opens, SlotUnused, Scanned
<1>4. MenusAreKernels'
  <2>1. \A w \in Slots : windows'[w].type \in MenuTypes => windows[w].type \in MenuTypes /\ windows'[w].owner = windows[w].owner
    BY <1>0, <1>1, WithoutMenus
  <2> QED BY <2>1, <1>1 DEF OwnInv, MenusAreKernels
<1> QED BY <1>2, <1>3, <1>4 DEF OwnInv

LEMMA OwnMin == TypeOK /\ OwnInv /\ ReleaseMin => OwnInv'
<1> SUFFICES ASSUME TypeOK, OwnInv, ReleaseMin PROVE OwnInv'
  OBVIOUS
<1>0. windows \in [Slots -> WindowRecords]
  BY TypeShape
<1>1. k.at = "idle" /\ k'.at = "sink" /\ UNCHANGED process_table
  BY DEF ReleaseMin, ReleaseBegins, Idle
<1>2. \A w \in Slots : /\ windows'[w].active = windows[w].active
                       /\ windows'[w].type = windows[w].type
                       /\ windows'[w].owner = windows[w].owner
  BY <1>0 DEF ReleaseMin, WindowRecords
<1> QED BY <1>1, <1>2, NothingOpens DEF Owns

LEMMA OwnNext == TypeOK /\ OwnInv /\ [Next]_vars => OwnInv'
<1> SUFFICES ASSUME TypeOK, OwnInv, [Next]_vars PROVE OwnInv'
  OBVIOUS
<1> DEFINE menus == OfTypes(windows, MenuTypes)
<1>0. \A T \in SUBSET MenuTypes : \A w \in OfTypes(windows, T) : windows[w].type \in MenuTypes
  BY DEF OfTypes
<1>f. FreePid # -1 => FreePid \in Apps /\ ~process_table[FreePid].active
  BY FreePidFound
<1>a. {"terminal", "app_gui"} \cap MenuTypes = {}
  BY DEF MenuTypes
<1>s. {} \in SUBSET MenuTypes /\ {"start_menu"} \in SUBSET MenuTypes /\ {"app_menu"} \in SUBSET MenuTypes
      /\ MenuTypes \in SUBSET MenuTypes
  BY DEF MenuTypes
<1>n. ASSUME UNCHANGED <<windows, process_table>>, k.at \notin {"own", "reap"}, k'.at \in {"idle", "sink", "below"}
      PROVE OwnInv'
  BY <1>n, NothingOpens DEF Owns
<1>u. ASSUME UNCHANGED <<windows, process_table, k>> PROVE OwnInv'
  BY <1>u DEF OwnInv, OwnHeld, BeingClosed, Owns, Has, PidUnused, Opens, SlotUnused, Scanned, Clients, MenusAreKernels
<1>o. \* a step that only starts to open a window
      ASSUME UNCHANGED <<windows, process_table>>, k.at = "idle", k'.at = "pick",
             k'.type \in MenuTypes => k'.owner = 0,
             k'.owner > 0 => ~process_table[k'.owner].active
      PROVE  OwnInv'
  BY <1>o DEF OwnInv, OwnHeld, BeingClosed, Owns, Has, PidUnused, Opens, SlotUnused, Scanned, MenusAreKernels
<1>1. CASE PickSlot
  BY <1>1, OwnPick
<1>2. CASE FillSlot
  BY <1>2, OwnFill
<1>24. CASE OwnSlot
  BY <1>24, OwnOwner
<1>3. CASE OpenedWindow
  BY <1>3, OwnOpened
<1>4. CASE Restored
  BY <1>4, OwnRestored
<1>5. CASE ClickedWindow
  <2>1. k.at = "slide" /\ k'.at = "idle" /\ UNCHANGED <<windows, process_table>>
    BY <1>5 DEF ClickedWindow, Raise, Idle
  <2> QED BY <2>1, <1>n
<1>6. CASE ClickedTerminal
  <2> DEFINE S == {k.win} \cup OfTypes(windows, {"app_menu"})
  <2>1. \A w \in S : windows[w].type \in MenuTypes
    BY <1>6, <1>0, <1>s DEF ClickedTerminal, MenuTypes
  <2>2. k'.at = "pick" /\ k'.type = "terminal" /\ k'.owner = 0
    BY <1>6, OpeningFields DEF ClickedTerminal
  <2>3. windows' = Without(windows, S) /\ UNCHANGED process_table /\ k.at = "slide"
    BY <1>6 DEF ClickedTerminal, Raise
  <2> QED BY <2>1, <2>2, <2>3, MenusClosed
<1>7. CASE ClickedApplications
  <2> DEFINE S == OfTypes(windows, {"app_menu"})
  <2>1. \A w \in S : windows[w].type \in MenuTypes
    BY <1>0, <1>s
  <2>2. k'.at = "pick" /\ k'.owner = 0
    BY <1>7, OpeningFields DEF ClickedApplications
  <2>3. windows' = Without(windows, S) /\ UNCHANGED process_table /\ k.at = "slide"
    BY <1>7 DEF ClickedApplications, Raise
  <2> QED BY <2>1, <2>2, <2>3, MenusClosed
<1>8. CASE ClickedProgram
  <2> DEFINE S == {k.win} \cup OfTypes(windows, {"start_menu"})
  <2>1. \A w \in S : windows[w].type \in MenuTypes
    BY <1>8, <1>0, <1>s DEF ClickedProgram, MenuTypes
  <2>2. windows' = Without(windows, S) /\ UNCHANGED process_table /\ k.at = "slide"
    BY <1>8 DEF ClickedProgram, Raise
  <2>3. CASE k' = Idle \/ k' = [Idle EXCEPT !.at = "below"]
    <3>1. k'.at \in {"idle", "below"}
      BY <2>3 DEF Idle
    <3> QED BY <3>1, <2>1, <2>2, MenusClosed
  <2>4. CASE ~(k' = Idle \/ k' = [Idle EXCEPT !.at = "below"])
    <3>1. PICK type \in {"app_gui", "terminal"} : k' = Opening(type, FreePid, -1) /\ FreePid # -1
      BY <2>4, <1>8 DEF ClickedProgram
    <3>2. k'.at = "pick" /\ k'.type \notin MenuTypes /\ ~process_table[k'.owner].active
      BY <3>1, <1>f, <1>a, OpeningFields
    <3> QED BY <3>2, <2>1, <2>2, MenusClosed
  <2> QED BY <2>3, <2>4
<1>9. CASE Sink
  <2>1. k.at = "sink" /\ k'.at = "idle" /\ UNCHANGED <<windows, process_table>>
    BY <1>9 DEF Sink, Idle
  <2> QED BY <2>1, <1>n
<1>25. CASE ClickGoesBelow
  <2>1. UNCHANGED process_table /\ windows' = Without(windows, {}) /\ k.at = "below"
    BY <1>25, TypeShape DEF ClickGoesBelow, Without
  <2>2. k'.at = "idle" \/ (k'.at = "slide" /\ k'.job # "open")
    <3>1. CASE k' = Idle
      BY <3>1 DEF Idle
    <3>2. CASE k' # Idle
      <4>1. PICK r \in Ranks : \E job \in {"body", "close", "min"} : k' = Raising(window_order[r], job)
        BY <3>2, <1>25 DEF ClickGoesBelow, ClickJobs
      <4> QED BY <4>1, RaisingFields
    <3> QED BY <3>1, <3>2
  <2> QED BY <2>1, <2>2, MenusClosed
<1>10. CASE PressStart
  <2>1. CASE OfTypes(windows, {"start_menu"}) # {}
    <3>1. windows' = Without(windows, menus) /\ UNCHANGED process_table /\ k.at = "idle" /\ k'.at = "idle"
      BY <2>1, <1>10 DEF PressStart, PressBegins
    <3> QED BY <3>1, <1>0, <1>s, MenusClosed
  <2>2. CASE OfTypes(windows, {"start_menu"}) = {}
    <3>1. UNCHANGED <<windows, process_table>> /\ k.at = "idle" /\ k'.at = "pick" /\ k'.owner = 0
      BY <2>2, <1>10, OpeningFields DEF PressStart, PressBegins
    <3> QED BY <3>1, <1>o
  <2> QED BY <2>1, <2>2
<1>11. CASE PressBar
  <2>1. windows' = Without(windows, menus) /\ UNCHANGED process_table /\ k.at = "idle" /\ k'.at = "idle"
    BY <1>11 DEF PressBar, PressBegins
  <2> QED BY <2>1, <1>0, <1>s, MenusClosed
<1>12. ASSUME NEW w \in Slots, PressTaskbar(w) PROVE OwnInv'
  <2>1. /\ windows' = Without(windows, menus) /\ UNCHANGED process_table
        /\ k.at = "idle" /\ k'.at = "slide" /\ k'.job = "restore"
    BY <1>12, RaisingFields DEF PressTaskbar, PressBegins
  <2> QED BY <2>1, <1>0, <1>s, MenusClosed
<1>13. ASSUME NEW under \in SUBSET Slots, PressWindow(under) PROVE OwnInv'
  <2>1. /\ UNCHANGED process_table /\ k.at = "idle"
        /\ k'.at = "idle" \/ (k'.at = "slide" /\ k'.job # "open")
    <3> DEFINE hits == {w \in under : \E r \in Ranks : window_order[r] = w}
    <3>1. CASE hits = {}
      BY <3>1, <1>13 DEF PressWindow, PressBegins
    <3>2. CASE hits # {}
      <4>1. PICK job \in {"body", "close", "min"} : k' = Raising(Topmost(hits), job)
        BY <3>2, <1>13 DEF PressWindow, ClickJobs
      <4> QED BY <4>1, <1>13, RaisingFields DEF PressWindow, PressBegins
    <3> QED BY <3>1, <3>2
  <2>2. CASE windows' = Without(windows, menus)
    BY <2>1, <2>2, <1>0, <1>s, MenusClosed
  <2>3. CASE windows' = windows
    <3>1. windows' = Without(windows, {})
      BY <2>3, TypeShape DEF Without
    <3> QED BY <3>1, <2>1, MenusClosed
  <2> QED BY <2>2, <2>3, <1>13 DEF PressWindow
<1>14. CASE ReleaseIdle
  BY <1>14, <1>u DEF ReleaseIdle
<1>15. CASE ReleaseInfo
  <2>1. PICK type \in {"app_gui", "terminal"} : k' = Opening(type, FreePid, -1)
    BY <1>15 DEF ReleaseInfo
  <2>2. k'.at = "pick" /\ k'.type \notin MenuTypes /\ ~process_table[k'.owner].active
    BY <2>1, <1>15, <1>f, <1>a, OpeningFields DEF ReleaseInfo
  <2> QED BY <2>2, <1>15, <1>o DEF ReleaseInfo, ReleaseBegins
<1>16. CASE ReleaseClose
  BY <1>16, OwnClose
<1>26. ASSUME NEW p \in Apps, CloseWindowsOf(p) PROVE OwnInv'
  BY <1>26, OwnCloseWindows
<1>27. CASE EndClient
  BY <1>27, OwnEndClient
<1>28. CASE CloseLast
  BY <1>28, OwnCloseLast
<1>17. CASE ReleaseMin
  BY <1>17, OwnMin
<1>18. CASE RunGui
  <2>1. k'.at = "pick" /\ k'.type \notin MenuTypes /\ ~process_table[k'.owner].active
    BY <1>18, <1>f, <1>a, OpeningFields DEF RunGui
  <2> QED BY <2>1, <1>18, <1>o DEF RunGui, CommandLine
<1>19. CASE RunText
  <2>1. \A p \in Apps : Owns(p)' => Owns(p) /\ process_table'[p].linked = process_table[p].linked
    BY <1>19, TypeShape DEF RunText, Created, Owns
  <2> QED BY <2>1, <1>19, NothingOpens DEF RunText, CommandLine
<1>20. ASSUME NEW p \in Apps, KillCommand(p) \/ Die(p) PROVE OwnInv'
  BY <1>20, OwnEnd DEF KillCommand, Die
<1>21. ASSUME NEW p \in Apps, Exit(p) PROVE OwnInv'
  BY <1>21, OwnExit
<1>22. ASSUME NEW p \in Apps, ChildWindow(p) PROVE OwnInv'
  BY <1>22, OwnChild
<1>23. CASE UNCHANGED vars
  BY <1>23, <1>u DEF vars
<1> QED
  BY <1>1, <1>2, <1>3, <1>4, <1>5, <1>6, <1>7, <1>8, <1>9, <1>10, <1>11, <1>12, <1>13, <1>14,
     <1>15, <1>16, <1>17, <1>18, <1>19, <1>20, <1>21, <1>22, <1>23, <1>24, <1>25, <1>26, <1>27,
     <1>28 DEF Next, Kernel

\* A living program keeps the window it started with until it is closed (5106-5166, 5870-5881, 5886-5911,
\* 7009-7067), also when syscalls come between two steps of the window code.
THEOREM OwnWindowKept == Spec => []OwnWindowStays
<1>1. OwnInv => OwnWindowStays
  BY DEF OwnInv, OwnHeld, Owns, Has, OwnWindowStays
<1>2. OrderInv => TypeOK
  BY DEF OrderInv
<1> QED BY <1>1, <1>2, OrderInit, OrderNext, OwnInit, OwnNext, PTL DEF Spec

(***************************************************************************)
(* Who is in front of whom.                                                *)
(***************************************************************************)
Ahead(order, a, b) == \A q, r \in Ranks : order[q] = a /\ order[r] = b => q < r

Permutations(order) == order \in Orders /\ Injective(order)

\* A permutation leaves no slot out.
LEMMA EveryRanked ==
  ASSUME NEW order, Permutations(order)
  PROVE  \A w \in Slots : \E r \in Ranks : order[r] = w
<1>1. order \in Injection(Slots, Slots)
  BY Sizes DEF Permutations, Orders, Injective, Injection, IsInjective
<1>2. IsFiniteSet(Slots)
  BY Sizes, FS_Interval DEF Slots
<1>3. order \in Surjection(Slots, Slots)
  BY <1>1, <1>2, FS_Injection
<1> QED BY <1>3, Sizes DEF Surjection

LEMMA RankFound ==
  ASSUME NEW order, Permutations(order), NEW w \in Slots
  PROVE  /\ LastPos(order, w) \in Ranks /\ order[LastPos(order, w)] = w
         /\ LastPos(order, w) <= 0 => LastPos(order, w) = 0
<1>1. LastPos(order, w) \in Ranks \cup {-1} /\ (LastPos(order, w) # -1 => order[LastPos(order, w)] = w)
  BY LastPosFound DEF Permutations
<1>2. LastPos(order, w) # -1
  <2>1. PICK r \in Ranks : order[r] = w
    BY EveryRanked
  <2> DEFINE H == {x \in Ranks : order[x] = w}
  <2>2. H \subseteq 0 .. (MaxWindows - 1) /\ MaxWindows - 1 \in Int /\ H # {}
    BY <2>1, Sizes DEF Ranks
  <2>3. PICK x \in H : \A y \in H : y <= x
    BY <2>2, MaxExists
  <2>4. \E z \in Ranks : order[z] = w /\ \A q \in Ranks : order[q] = w => q <= z
    BY <2>3
  <2>5. LastPos(order, w) = CHOOSE z \in Ranks : order[z] = w /\ \A q \in Ranks : order[q] = w => q <= z
    BY <2>1 DEF LastPos
  <2>6. LastPos(order, w) \in Ranks
    BY <2>4, <2>5
  <2> QED BY <2>6, Sizes
<1>3. \A r \in Ranks : r <= 0 => r = 0
  BY Sizes DEF Ranks
<1> QED BY <1>1, <1>2, <1>3

\* In a permutation who is not first is behind the first.
LEMMA FirstAhead ==
  ASSUME NEW order, Permutations(order), NEW v, order[0] # v
  PROVE  Ahead(order, order[0], v)
<1>1. ASSUME NEW q \in Ranks, NEW r \in Ranks, order[q] = order[0], order[r] = v PROVE q < r
  <2>1. q = 0
    BY <1>1, Sizes DEF Permutations, Injective
  <2>2. r # 0
    BY <1>1
  <2> QED BY <2>1, <2>2 DEF Ranks
<1> QED BY <1>1 DEF Ahead

\* The window that is moved to the first rank is ahead of all others, and
\* they keep their order.
LEMMA SlideOrder ==
  ASSUME NEW order, Permutations(order), NEW pos \in Ranks, NEW w \in Slots, order[pos] = w
  PROVE  LET s == Slide(order, pos, w)
         IN  /\ Permutations(s) /\ s[0] = w
             /\ \A v : v # w => Ahead(s, w, v)
             /\ \A a, b : a # w /\ b # w /\ Ahead(order, a, b) => Ahead(s, a, b)
<1> DEFINE s == Slide(order, pos, w)
<1>1. \A r \in Ranks : s[r] = IF r = 0 THEN w ELSE IF r <= pos THEN order[r - 1] ELSE order[r]
  BY DEF Slide
<1>2. Permutations(s)
  BY SlideKeeps DEF Permutations
<1> HIDE DEF s
<1>3. s[0] = w
  BY <1>1, Sizes
<1>4. ASSUME NEW v, v # w PROVE Ahead(s, w, v)
  BY <1>2, <1>3, <1>4, FirstAhead
<1>5. ASSUME NEW a, NEW b, a # w, b # w, Ahead(order, a, b) PROVE Ahead(s, a, b)
  <2> SUFFICES ASSUME NEW q \in Ranks, NEW r \in Ranks, s[q] = a, s[r] = b PROVE q < r
    BY DEF Ahead
  <2>1. q # 0 /\ r # 0 /\ q \in Int /\ r \in Int /\ q >= 0 /\ r >= 0 /\ pos \in Int
    BY <1>3, <1>5, Sizes DEF Ranks
  <2>2. q - 1 \in Ranks /\ r - 1 \in Ranks
    BY <2>1, Sizes DEF Ranks
  <2>3. \A i, j \in Ranks : order[i] = a /\ order[j] = b => i < j
    BY <1>5 DEF Ahead
  <2>4. CASE q <= pos /\ r <= pos
    <3>1. order[q - 1] = a /\ order[r - 1] = b
      BY <2>4, <2>1, <1>1
    <3>2. q - 1 < r - 1
      BY <3>1, <2>2, <2>3
    <3> QED BY <3>2, <2>1
  <2>5. CASE q <= pos /\ ~(r <= pos)
    BY <2>5, <2>1
  <2>6. CASE ~(q <= pos) /\ r <= pos
    <3>1. order[q] = a /\ order[r - 1] = b
      BY <2>6, <2>1, <1>1
    <3>2. q < r - 1
      BY <3>1, <2>2, <2>3
    <3> QED BY <3>2, <2>1
  <2>7. CASE ~(q <= pos) /\ ~(r <= pos)
    <3>1. order[q] = a /\ order[r] = b
      BY <2>7, <2>1, <1>1
    <3> QED BY <3>1, <2>3
  <2> QED BY <2>4, <2>5, <2>6, <2>7
<1> QED BY <1>2, <1>3, <1>4, <1>5 DEF s

LEMMA FrontOrder ==
  ASSUME NEW order, Permutations(order), NEW w \in Slots
  PROVE  LET s == Front(order, w)
         IN  /\ Permutations(s) /\ s[0] = w
             /\ \A v : v # w => Ahead(s, w, v)
             /\ \A a, b : a # w /\ b # w /\ Ahead(order, a, b) => Ahead(s, a, b)
<1>1. LastPos(order, w) \in Ranks /\ order[LastPos(order, w)] = w
  BY RankFound
<1>2. CASE LastPos(order, w) <= 0
  <2>1. order[0] = w /\ Front(order, w) = order
    BY <1>2, <1>1, RankFound DEF Front
  <2> QED BY <2>1, FirstAhead
<1>3. CASE ~(LastPos(order, w) <= 0)
  <2> DEFINE pos == LastPos(order, w)
  <2>1. Front(order, w) = Slide(order, pos, w)
    BY <1>3 DEF Front
  <2>2. pos \in Ranks /\ order[pos] = w
    BY <1>1
  <2> HIDE DEF pos
  <2> QED BY <2>1, <2>2, SlideOrder
<1> QED BY <1>2, <1>3

\* A menu that is protected is one of those that are open.
LEMMA GuardedIs ==
  ASSUME NEW order, NEW win, NEW t, OfTypes(win, {t}) # {}
  PROVE  \E m \in OfTypes(win, {t}) : Guarded(order, win, t) = Front(order, m)
<1> DEFINE M == OfTypes(win, {t})
<1>1. M \subseteq 0 .. (MaxWindows - 1) /\ MaxWindows - 1 \in Int
  BY Sizes DEF OfTypes, Slots
<1>2. PICK m \in M : \A v \in M : v <= m
  BY <1>1, MaxExists
<1> DEFINE c == CHOOSE w \in M : \A v \in M : v <= w
<1>3. c \in M
  BY <1>2
<1>4. Guarded(order, win, t) = Front(order, c)
  BY DEF Guarded
<1> QED BY <1>3, <1>4

LEMMA GuardedOrder ==
  ASSUME NEW order, Permutations(order), NEW win, NEW t
  PROVE  LET s == Guarded(order, win, t)
             M == OfTypes(win, {t})
         IN  /\ Permutations(s)
             /\ \A m \in M : (\A n \in M : n = m) => \A v : v # m => Ahead(s, m, v)
             /\ \A a, b : b \notin M /\ Ahead(order, a, b) => Ahead(s, a, b)
<1> DEFINE M == OfTypes(win, {t})
           s == Guarded(order, win, t)
<1>1. CASE M = {}
  BY <1>1 DEF Guarded
<1>2. CASE M # {}
  <2>1. PICK m \in M : s = Front(order, m)
    BY <1>2, GuardedIs
  <2>2. m \in Slots
    BY DEF OfTypes
  <2> HIDE DEF s, M
  <2>3. /\ Permutations(s)
        /\ \A v : v # m => Ahead(s, m, v)
        /\ \A a, b : a # m /\ b # m /\ Ahead(order, a, b) => Ahead(s, a, b)
    BY <2>1, <2>2, FrontOrder
  <2>4. ASSUME NEW n \in M, \A x \in M : x = n, NEW v, v # n PROVE Ahead(s, n, v)
    BY <2>3, <2>4
  <2>5. ASSUME NEW a, NEW b, b \notin M, Ahead(order, a, b) PROVE Ahead(s, a, b)
    <3>1. b # m
      BY <2>5
    <3> QED BY <3>1, <2>3, <2>5
  <2>6. Permutations(s)
    BY <2>3
  <2> QED BY <2>4, <2>5, <2>6 DEF s, M
<1> QED BY <1>1, <1>2

\* bring_to_front: behind the window that is raised are all that are no menus; among
\* the others nothing changes; a menu that is open is ahead, the applications menu
\* of the start menu.
LEMMA BringOrder ==
  ASSUME NEW order, Permutations(order), NEW win, NEW pos \in Ranks, NEW w \in Slots, order[pos] = w
  PROVE  LET s == BringToFront(order, win, pos, w)
             starts == OfTypes(win, {"start_menu"})
             apps == OfTypes(win, {"app_menu"})
         IN  /\ Permutations(s)
             /\ \A v : v # w /\ v \notin starts \cup apps => Ahead(s, w, v)
             /\ \A a, b : a # w /\ b # w /\ b \notin starts \cup apps /\ Ahead(order, a, b) => Ahead(s, a, b)
             /\ pos # 0 => /\ \A m \in apps : (\A n \in apps : n = m) => \A v : v # m => Ahead(s, m, v)
                           /\ \A m \in starts : (\A n \in starts : n = m) =>
                                \A v : v # m /\ v \notin apps => Ahead(s, m, v)
             /\ pos = 0 => s = order
<1> DEFINE a0 == Slide(order, pos, w)
           b0 == Guarded(a0, win, "start_menu")
           c0 == Guarded(b0, win, "app_menu")
           starts == OfTypes(win, {"start_menu"})
           apps == OfTypes(win, {"app_menu"})
           s == BringToFront(order, win, pos, w)
<1>0. pos \in Int /\ pos >= 0
  BY Sizes DEF Ranks
<1>1. CASE pos = 0
  <2>1. s = order
    BY <1>1 DEF BringToFront
  <2>2. \A v : v # w => Ahead(order, w, v)
    BY <1>1, FirstAhead
  <2> QED BY <2>1, <2>2, <1>1
<1>2. CASE pos # 0
  <2>1. s = c0
    BY <1>0, <1>2 DEF BringToFront
  <2>2. /\ Permutations(a0)
        /\ \A v : v # w => Ahead(a0, w, v)
        /\ \A a, b : a # w /\ b # w /\ Ahead(order, a, b) => Ahead(a0, a, b)
    BY SlideOrder
  <2> HIDE DEF a0
  <2>3. /\ Permutations(b0)
        /\ \A m \in starts : (\A n \in starts : n = m) => \A v : v # m => Ahead(b0, m, v)
        /\ \A a, b : b \notin starts /\ Ahead(a0, a, b) => Ahead(b0, a, b)
    BY <2>2, GuardedOrder
  <2> HIDE DEF b0
  <2>4. /\ Permutations(c0)
        /\ \A m \in apps : (\A n \in apps : n = m) => \A v : v # m => Ahead(c0, m, v)
        /\ \A a, b : b \notin apps /\ Ahead(b0, a, b) => Ahead(c0, a, b)
    BY <2>3, GuardedOrder
  <2> HIDE DEF c0, starts, apps, s
  <2>5. ASSUME NEW v, v # w, v \notin starts \cup apps PROVE Ahead(c0, w, v)
    BY <2>2, <2>3, <2>4, <2>5
  <2>6. ASSUME NEW a, NEW b, a # w, b # w, b \notin starts \cup apps, Ahead(order, a, b) PROVE Ahead(c0, a, b)
    BY <2>2, <2>3, <2>4, <2>6
  <2>7. ASSUME NEW m \in starts, \A n \in starts : n = m, NEW v, v # m, v \notin apps PROVE Ahead(c0, m, v)
    <3>1. Ahead(b0, m, v)
      BY <2>3, <2>7
    <3> QED BY <3>1, <2>4, <2>7
  <2>8. ASSUME NEW m \in apps, \A n \in apps : n = m, NEW v, v # m PROVE Ahead(c0, m, v)
    BY <2>4, <2>8
  <2>9. Permutations(c0)
    BY <2>4
  <2> QED BY <2>1, <2>5, <2>6, <2>7, <2>8, <2>9, <1>2 DEF starts, apps, s
<1> QED BY <1>1, <1>2

\* Minimising moves a window behind all others, which keep their order.
LEMMA SunkOrder ==
  ASSUME NEW order, Permutations(order), NEW pos \in Ranks, NEW w \in Slots, order[pos] = w
  PROVE  LET s == Sunk(order, pos, w)
         IN  /\ \A v : v # w => Ahead(s, v, w)
             /\ \A a, b : a # w /\ b # w /\ Ahead(order, a, b) => Ahead(s, a, b)
<1> DEFINE s == Sunk(order, pos, w)
           last == MaxWindows - 1
<1>0. /\ pos # -1 /\ last \in Ranks
      /\ \A r \in Ranks : r \in Int /\ r <= last /\ pos <= last /\ pos \in Int
      /\ \A r \in Ranks : r < last => r + 1 \in Ranks
  BY Sizes DEF Ranks
<1>1. \A r \in Ranks : s[r] = IF r < pos THEN order[r] ELSE IF r < last THEN order[r + 1] ELSE w
  BY <1>0 DEF Sunk
<1>2. Permutations(s)
  BY SunkKeeps DEF Permutations
<1>3. s[last] = w
  BY <1>0, <1>1
<1> HIDE DEF s, last
<1>4. ASSUME NEW v, v # w PROVE Ahead(s, v, w)
  <2> SUFFICES ASSUME NEW q \in Ranks, NEW r \in Ranks, s[q] = v, s[r] = w PROVE q < r
    BY DEF Ahead
  <2>1. r = last
    BY <1>0, <1>2, <1>3 DEF Permutations, Injective
  <2>2. q # last
    BY <1>3, <1>4
  <2>3. last \in Int /\ q \in Int /\ q <= last
    BY <1>0
  <2> QED BY <2>1, <2>2, <2>3
<1>5. ASSUME NEW a, NEW b, a # w, b # w, Ahead(order, a, b) PROVE Ahead(s, a, b)
  <2> SUFFICES ASSUME NEW q \in Ranks, NEW r \in Ranks, s[q] = a, s[r] = b PROVE q < r
    BY DEF Ahead
  <2>1. q # last /\ r # last /\ last \in Int
    BY <1>0, <1>3, <1>5
  <2>2. q < last /\ r < last /\ q + 1 \in Ranks /\ r + 1 \in Ranks /\ q \in Int /\ r \in Int /\ pos \in Int
    BY <2>1, <1>0
  <2>3. \A i, j \in Ranks : order[i] = a /\ order[j] = b => i < j
    BY <1>5 DEF Ahead
  <2>4. CASE q < pos /\ r < pos
    BY <2>4, <2>3, <1>1
  <2>5. CASE q < pos /\ ~(r < pos)
    BY <2>5, <2>2
  <2>6. CASE ~(q < pos) /\ r < pos
    <3>1. order[q + 1] = a /\ order[r] = b
      BY <2>6, <2>2, <1>1
    <3>2. q + 1 < r
      BY <3>1, <2>2, <2>3
    <3> QED BY <3>2, <2>2
  <2>7. CASE ~(q < pos) /\ ~(r < pos)
    <3>1. order[q + 1] = a /\ order[r + 1] = b
      BY <2>7, <2>2, <1>1
    <3>2. q + 1 < r + 1
      BY <3>1, <2>2, <2>3
    <3> QED BY <3>2, <2>2
  <2> QED BY <2>4, <2>5, <2>6, <2>7
<1> QED BY <1>4, <1>5 DEF s

(***************************************************************************)
(* The rank pid 0 has found, and the focus.                                *)
(***************************************************************************)
\* No window is without a rank, unless a syscall has come in between.
RankKnown == ~torn /\ k.at \in {"slide", "sink"} => k.pos # -1

MoveInv == OrderInv /\ RankKnown

LEMMA PermutationNow == ASSUME OrderInv, ~torn PROVE Permutations(window_order)
BY TypeShape DEF OrderInv, OrderIsPermutation, Permutations, Injective

LEMMA RankNow ==
  ASSUME MoveInv, ~torn, k.at \in {"slide", "sink"}
  PROVE  /\ Permutations(window_order) /\ k.win \in Slots
         /\ k.pos \in Ranks /\ window_order[k.pos] = k.win
<1>1. k.win \in Slots /\ k.pos \in Ranks \cup {-1}
  BY TypeShape DEF MoveInv, OrderInv, KRecords
<1> QED BY <1>1, PermutationNow DEF MoveInv, OrderInv, RankKnown, RankHeld

LEMMA KnownNext == OrderInv /\ RankKnown /\ [Next]_vars => RankKnown'
<1> SUFFICES ASSUME OrderInv, RankKnown, [Next]_vars PROVE RankKnown'
  OBVIOUS
<1>0. k \in KRecords /\ pressed \in [win : Slots \cup {-1}, btn : Buttons]
  BY TypeShape DEF OrderInv
<1>i. Idle.at = "idle" /\ \A type, owner, parent : Opening(type, owner, parent).at = "pick"
  BY OpeningFields DEF Idle
<1>p. ASSUME ~torn, NEW w \in Slots PROVE LastPos(window_order, w) # -1
  BY <1>p, PermutationNow, RankFound, Sizes
<1>r. \A w, job : Raising(w, job).pos = LastPos(window_order, w)
  BY DEF Raising, Idle
<1>1. CASE PickSlot
  BY <1>0, <1>1, <1>i DEF PickSlot, RankKnown, KRecords
<1>2. CASE FillSlot
  <2>1. k'.at = "own"
    BY <1>0, <1>2 DEF FillSlot, KRecords
  <2> QED BY <2>1 DEF RankKnown
<1>11. CASE OwnSlot
  BY <1>0, <1>11, <1>p DEF OwnSlot, RankKnown, KRecords
<1>3. CASE OpenedWindow \/ Restored \/ ClickedWindow \/ ClickedTerminal \/ ClickedApplications \/ Sink \/ CloseLast
  <2>1. k' = Idle \/ \E type, owner, parent : k' = Opening(type, owner, parent)
    <3>1. CASE OpenedWindow \/ Restored \/ ClickedWindow \/ Sink \/ CloseLast
      BY <3>1 DEF OpenedWindow, Restored, ClickedWindow, Sink, CloseLast
    <3>2. CASE ClickedTerminal \/ ClickedApplications
      BY <3>2 DEF ClickedTerminal, ClickedApplications
    <3> QED BY <1>3, <3>1, <3>2
  <2> QED BY <2>1, <1>i DEF RankKnown
<1>12. CASE ClickedProgram
  <2>1. k'.at \in {"idle", "below", "pick"}
    BY <1>12, <1>i DEF ClickedProgram, Idle
  <2> QED BY <2>1 DEF RankKnown
<1>13. CASE ClickGoesBelow
  <2>1. CASE k' = Idle
    BY <2>1, <1>i DEF RankKnown
  <2>2. CASE k' # Idle
    <3>1. PICK r \in Ranks : k'.pos = LastPos(window_order, window_order[r])
      BY <1>13, <2>2, <1>r DEF ClickGoesBelow
    <3>2. window_order[r] \in Slots /\ torn' = torn
      BY <1>13, TypeShape DEF OrderInv, Orders, ClickGoesBelow
    <3> QED BY <3>1, <3>2, <1>p DEF RankKnown
  <2> QED BY <2>1, <2>2
<1>14. CASE ReleaseClose \/ EndClient \/ \E p \in Apps : CloseWindowsOf(p)
  <2>1. k'.at \in {"scan", "reap"}
    BY <1>0, <1>14 DEF ReleaseClose, EndClient, CloseWindowsOf, Idle, KRecords
  <2> QED BY <2>1 DEF RankKnown
<1>4. CASE PressStart \/ ReleaseInfo \/ RunGui
  <2>1. (UNCHANGED <<k, torn>>) \/ \E type, owner, parent : k' = Opening(type, owner, parent)
    BY <1>4 DEF PressStart, ReleaseInfo, RunGui
  <2> QED BY <2>1, <1>i DEF RankKnown
<1>5. ASSUME NEW w \in Slots, PressTaskbar(w) PROVE RankKnown'
  BY <1>5, <1>p, <1>r DEF PressTaskbar, RankKnown
<1>6. ASSUME NEW under \in SUBSET Slots, PressWindow(under) PROVE RankKnown'
  <2> DEFINE hits == {w \in under : \E r \in Ranks : window_order[r] = w}
  <2>1. CASE hits = {}
    BY <2>1, <1>6 DEF PressWindow, RankKnown
  <2>2. CASE hits # {}
    <3>1. Topmost(hits) \in Slots
      BY <2>2, TopmostFound, TypeShape DEF OrderInv
    <3>2. k'.pos = LastPos(window_order, Topmost(hits)) /\ torn' = torn
      BY <2>2, <1>6, <1>r DEF PressWindow
    <3> QED BY <3>1, <3>2, <1>p DEF RankKnown
  <2> QED BY <2>1, <2>2
<1>7. CASE ReleaseMin
  <2>1. pressed.win \in Slots
    BY <1>0, <1>7 DEF ReleaseMin
  <2>2. k'.pos = LastPos(window_order, pressed.win) /\ torn' = torn
    BY <1>7 DEF ReleaseMin, Idle
  <2> QED BY <2>1, <2>2, <1>p DEF RankKnown
<1>8. ASSUME NEW p \in Apps, ChildWindow(p) PROVE RankKnown'
  BY <1>8 DEF ChildWindow, RankKnown
<1>9. ASSUME UNCHANGED <<k, torn>> PROVE RankKnown'
  BY <1>9 DEF RankKnown
<1>10. \/ PressBar \/ ReleaseIdle \/ RunText \/ UNCHANGED vars
       \/ \E p \in Apps : KillCommand(p) \/ Exit(p) \/ Die(p)
       => UNCHANGED <<k, torn>>
  <2>1. PressBar \/ ReleaseIdle \/ RunText \/ UNCHANGED vars => UNCHANGED <<k, torn>>
    BY DEF PressBar, ReleaseIdle, RunText, vars, PressBegins, ReleaseBegins
  <2>2. \A p \in Apps : KillCommand(p) \/ Exit(p) \/ Die(p) => UNCHANGED <<k, torn>>
    BY DEF KillCommand, Exit, Die
  <2> QED BY <2>1, <2>2
<1> QED
  BY <1>1, <1>2, <1>3, <1>4, <1>5, <1>6, <1>7, <1>8, <1>9, <1>10, <1>11, <1>12, <1>13, <1>14 DEF Next, Kernel

LEMMA MoveAlways == Spec => []MoveInv
<1>1. Init => RankKnown
  BY DEF Init, RankKnown, Idle
<1>2. OrderInv /\ RankKnown <=> MoveInv
  BY DEF MoveInv
<1> QED BY <1>1, <1>2, OrderInit, OrderNext, KnownNext, PTL DEF Spec

\* What is open and no menu after a raise was open before it.
LEMMA RaiseShows ==
  ASSUME TypeOK, Raise, OpenedWindow \/ Restored \/ ClickedWindow \/ ClickedTerminal \/ ClickedApplications \/ ClickedProgram
  PROVE  \A v \in Slots : windows'[v].active /\ windows'[v].type \notin MenuTypes
           => windows[v].active /\ windows[v].type = windows'[v].type
<1>0. windows \in [Slots -> WindowRecords]
  BY TypeShape
<1>1. CASE OpenedWindow \/ ClickedWindow
  BY <1>1 DEF OpenedWindow, ClickedWindow
<1>2. CASE Restored
  <2> DEFINE shown == [windows EXCEPT ![k.win].min = FALSE]
  <2>1. \A v \in Slots : shown[v].active = windows[v].active /\ shown[v].type = windows[v].type
    BY <1>0 DEF WindowRecords
  <2> HIDE DEF shown
  <2>2. \A v \in Slots : windows'[v] = shown[v] \/ ~windows'[v].active
    BY <1>2 DEF Restored, Without, Closed, shown
  <2> QED BY <2>1, <2>2
<1>3. CASE ClickedTerminal \/ ClickedApplications \/ ClickedProgram
  <2>1. \E S : windows' = Without(windows, S)
    BY <1>3 DEF ClickedTerminal, ClickedApplications, ClickedProgram
  <2> QED BY <2>1 DEF Without, Closed
<1> QED BY <1>1, <1>2, <1>3

LEMMA FirstRaised ==
  ASSUME NEW order, Permutations(order), NEW win, NEW f \in Slots,
         \A v \in Slots : v # f /\ win[v].active /\ win[v].type \notin MenuTypes => Ahead(order, f, v)
  PROVE  \A r \in Ranks : order[r] = f =>
           \A q \in Ranks : q < r => LET v == win[order[q]] IN ~v.active \/ v.type \in MenuTypes
<1> SUFFICES ASSUME NEW r \in Ranks, order[r] = f, NEW q \in Ranks, q < r,
                    win[order[q]].active, win[order[q]].type \notin MenuTypes
             PROVE  FALSE
  OBVIOUS
<1>1. order[q] \in Slots /\ q \in Int /\ r \in Int
  BY Sizes DEF Permutations, Orders
<1>2. order[q] # f
  BY <1>1 DEF Permutations, Injective
<1>3. r < q
  BY <1>1, <1>2 DEF Ahead
<1> QED BY <1>1, <1>3

LEMMA FocusStep ==
  ASSUME MoveInv, [Next]_vars, ~torn', global_active_win' # global_active_win
  PROVE  \A r \in Ranks : window_order'[r] = global_active_win' =>
           \A q \in Ranks : q < r =>
             LET v == windows'[window_order'[q]] IN ~v.active \/ v.type \in MenuTypes
<1> DEFINE Raises == OpenedWindow \/ Restored \/ ClickedWindow \/ ClickedTerminal \/ ClickedApplications \/ ClickedProgram
<1>0. TypeOK /\ OrderInv /\ windows \in [Slots -> WindowRecords]
  BY TypeShape DEF MoveInv, OrderInv
<1>1. Raises \/ \E p \in Apps : ChildWindow(p)
  <2>1. ~(PickSlot \/ FillSlot \/ OwnSlot \/ Sink \/ ClickGoesBelow \/ EndClient \/ CloseLast)
    BY DEF PickSlot, FillSlot, OwnSlot, Sink, ClickGoesBelow, EndClient, CloseLast
  <2>2. ~(PressStart \/ PressBar \/ ReleaseIdle \/ ReleaseInfo \/ ReleaseClose \/ ReleaseMin \/ RunGui \/ RunText)
    BY DEF PressStart, PressBar, ReleaseIdle, ReleaseInfo, ReleaseClose, ReleaseMin, RunGui, RunText
  <2>3. \A w : ~PressTaskbar(w) /\ ~PressWindow(w)
    BY DEF PressTaskbar, PressWindow
  <2>4. \A p : ~(CloseWindowsOf(p) \/ KillCommand(p) \/ Exit(p) \/ Die(p))
    BY DEF CloseWindowsOf, KillCommand, Exit, Die
  <2>5. ~UNCHANGED vars
    BY DEF vars
  <2> QED BY <2>1, <2>2, <2>3, <2>4, <2>5 DEF Next, Kernel
<1>2. CASE Raises
  <2>1. Raise
    BY <1>2 DEF OpenedWindow, Restored, ClickedWindow, ClickedTerminal, ClickedApplications, ClickedProgram
  <2>2. /\ ~torn /\ k.at = "slide" /\ global_active_win' = k.win
        /\ window_order' = BringToFront(window_order, windows, k.pos, k.win)
    BY <2>1 DEF Raise
  <2>3. /\ Permutations(window_order) /\ k.win \in Slots
        /\ k.pos \in Ranks /\ window_order[k.pos] = k.win
    BY <2>2, RankNow
  <2>4. /\ Permutations(window_order')
        /\ \A v : v # k.win /\ v \notin OfTypes(windows, {"start_menu"}) \cup OfTypes(windows, {"app_menu"})
             => Ahead(window_order', k.win, v)
    BY <2>2, <2>3, BringOrder
  <2>5. ASSUME NEW v \in Slots, v # k.win, windows'[v].active, windows'[v].type \notin MenuTypes
        PROVE  Ahead(window_order', k.win, v)
    <3>1. windows[v].type \notin MenuTypes
      BY <1>0, <1>2, <2>1, <2>5, RaiseShows
    <3> QED BY <3>1, <2>4, <2>5 DEF OfTypes, MenuTypes
  <2> QED BY <2>2, <2>3, <2>4, <2>5, FirstRaised
<1>3. ASSUME NEW p \in Apps, ChildWindow(p)
      PROVE  \A r \in Ranks : window_order'[r] = global_active_win' =>
               \A q \in Ranks : q < r =>
                 LET v == windows'[window_order'[q]] IN ~v.active \/ v.type \in MenuTypes
  <2> DEFINE w == FreeSlot(windows)
             pos == LastPos(window_order, w)
  <2>1. /\ ~torn /\ global_active_win' = w /\ w \in Slots
        /\ window_order' = BringToFront(window_order, windows', pos, w)
    BY <1>3, FreeSlotFound DEF ChildWindow
  <2> HIDE DEF w
  <2>2. Permutations(window_order)
    BY <1>0, <2>1, PermutationNow
  <2>3. pos \in Ranks /\ window_order[pos] = w
    BY <2>1, <2>2, RankFound
  <2> HIDE DEF pos
  <2>4. /\ Permutations(window_order')
        /\ \A v : v # w /\ v \notin OfTypes(windows', {"start_menu"}) \cup OfTypes(windows', {"app_menu"})
             => Ahead(window_order', w, v)
    BY <2>1, <2>2, <2>3, BringOrder
  <2>5. ASSUME NEW v \in Slots, v # w, windows'[v].active, windows'[v].type \notin MenuTypes
        PROVE  Ahead(window_order', w, v)
    BY <2>4, <2>5 DEF OfTypes, MenuTypes
  <2> QED BY <2>1, <2>4, <2>5, FirstRaised
<1> QED BY <1>1, <1>2, <1>3

\* The focus moves only to the window that is then first, the menus apart (1749-1783).
THEOREM FocusIsFirst == Spec => FocusIsRaised
<1> DEFINE A == ~torn' /\ global_active_win' # global_active_win =>
                  \A r \in Ranks : window_order'[r] = global_active_win' =>
                    \A q \in Ranks : q < r => LET v == windows'[window_order'[q]] IN ~v.active \/ v.type \in MenuTypes
<1>1. MoveInv /\ [Next]_vars => [A]_vars
  BY FocusStep
<1>2. FocusIsRaised <=> [][A]_vars
  BY DEF FocusIsRaised
<1> HIDE DEF A
<1> QED BY <1>1, <1>2, MoveAlways, PTL DEF Spec

(***************************************************************************)
(* The menus.                                                              *)
(***************************************************************************)
Menus == OfTypes(windows, MenuTypes)
Starts == OfTypes(windows, {"start_menu"})
AppMenus == OfTypes(windows, {"app_menu"})
Fresh == k.at = "own" \/ (k.at = "slide" /\ k.job = "open")

\* Closed windows have no type and are not minimised; slot 0 is never opened; the
\* slot open_window has chosen is free until it is filled, and if it has not been
\* closed since, it has the type it was opened with.
SlotsKept ==
  /\ \A w \in Slots : ~windows[w].active => windows[w].type = "none" /\ ~windows[w].min
  /\ ~windows[0].active
  /\ k.at = "fill" => k.win # 0 /\ ~windows[k.win].active
  /\ k.at = "own" => k.win # 0
  /\ Fresh /\ windows[k.win].active => windows[k.win].type = k.type

\* There is one menu of each type, and no applications menu without a start menu.
OneEach(win) == \A a, b \in OfTypes(win, MenuTypes) : win[a].type = win[b].type => a = b
StartFirst == AppMenus # {} => Starts # {}

\* Nothing but the applications menu is opened while a menu is open, and only from
\* the start menu.
OpeningMenu ==
  /\ k.at \in {"pick", "fill"} => IF k.type = "app_menu" THEN Starts # {} /\ AppMenus = {} ELSE Menus = {}
  /\ k.at \in {"pick", "fill", "own"} => k.job = "open"
  /\ Fresh => IF k.type = "app_menu" THEN Starts # {} /\ AppMenus \subseteq {k.win} ELSE Menus \subseteq {k.win}

\* While a menu is open only a menu is clicked, and nothing is restored, minimised
\* or closed.
RaisingMenu ==
  /\ k.at = "slide" /\ ~Fresh => IF k.job = "body" THEN Menus # {} => k.win \in Menus ELSE Menus = {}
  /\ k.at \in {"sink", "scan", "reap", "below"} => Menus = {}

\* No button is armed while a menu is open, and only while the mouse is held.
Armed ==
  /\ pressed # NoPress => down /\ Menus = {} /\ (Opens => k.type \notin MenuTypes)
  /\ k.at = "slide" /\ k.job \in {"body", "close", "min"} => down
  /\ k.at = "below" => down

\* The keyboard starts nothing while a menu is open.
Focused ==
  k.at \in {"idle", "pick"} /\ Menus # {} =>
    global_active_win = -1 \/ windows[global_active_win].type # "terminal"

\* The menus are ahead, but for the window that has not been raised yet (X), and one of
\* them has the first rank unless the next to be opened takes it from a free slot;
\* that one is not closed before it is raised, because no program owned its slot.
InFront(win, order, X) ==
  \A m \in OfTypes(win, MenuTypes) \ X, w \in Slots \ X :
    w # m /\ win[w].active /\ win[w].type # "app_menu" => Ahead(order, m, w)
AtFront(win, order) == OfTypes(win, MenuTypes) # {} => order[0] \in OfTypes(win, MenuTypes)
Fronted == InFront(windows, window_order, IF Fresh THEN {k.win} ELSE {})
FirstRank ==
  /\ k.at # "fill" /\ ~Fresh =>
       AtFront(windows, window_order) \/ (k.at = "pick" /\ FreeSlot(windows) # -1)
  /\ Fresh /\ window_order[0] = k.win => AtFront(windows, window_order)
  /\ k.at \in {"pick", "fill", "own"} /\ k.type = "app_menu" => windows[window_order[0]].owner = 0

MenuParts ==
  /\ SlotsKept /\ OneEach(windows) /\ StartFirst /\ OpeningMenu /\ RaisingMenu
  /\ Armed /\ Focused /\ Fronted /\ FirstRank
MenuInv == ~torn => MenuParts

LEMMA MenuSets ==
  ASSUME NEW win
  PROVE  /\ OfTypes(win, MenuTypes) = OfTypes(win, {"start_menu"}) \cup OfTypes(win, {"app_menu"})
         /\ \A w : w \in OfTypes(win, MenuTypes) <=> w \in Slots /\ win[w].active /\ win[w].type \in MenuTypes
         /\ \A w : w \in OfTypes(win, {"start_menu"}) <=> w \in Slots /\ win[w].active /\ win[w].type = "start_menu"
         /\ \A w : w \in OfTypes(win, {"app_menu"}) <=> w \in Slots /\ win[w].active /\ win[w].type = "app_menu"
BY DEF OfTypes, MenuTypes

LEMMA MenuInit == Init => MenuInv
<1> SUFFICES ASSUME Init PROVE MenuParts
  BY DEF MenuInv
<1>1. windows = [w \in Slots |-> Closed] /\ k.at = "idle" /\ pressed = NoPress /\ ~Fresh
  BY DEF Init, Idle, Fresh
<1>2. OfTypes(windows, MenuTypes) = {} /\ OfTypes(windows, {"app_menu"}) = {}
  BY <1>1 DEF OfTypes, Closed
<1>3. SlotsKept
  BY <1>1, Sizes DEF SlotsKept, Closed
<1> QED
  BY <1>1, <1>2, <1>3 DEF MenuParts, OneEach, StartFirst, OpeningMenu, RaisingMenu, Armed, Focused,
     Fronted, InFront, FirstRank, AtFront, Menus, AppMenus, Fresh

LEMMA FreeSlotIs ==
  ASSUME NEW win, NEW v \in Slots \ {0}, ~win[v].active
  PROVE  FreeSlot(win) # -1
<1> DEFINE F == {w \in Slots \ {0} : ~win[w].active}
<1>1. F \subseteq 0 .. (MaxWindows - 1) /\ MaxWindows - 1 \in Int /\ F # {}
  BY Sizes DEF Slots
<1>2. PICK x \in F : \A y \in F : x <= y
  BY <1>1, MinExists
<1>3. \E w \in Slots \ {0} : ~win[w].active /\ \A y \in Slots \ {0} : ~win[y].active => w <= y
  BY <1>2
<1>4. FreeSlot(win) = CHOOSE w \in Slots \ {0} : ~win[w].active /\ \A y \in Slots \ {0} : ~win[y].active => w <= y
  BY DEF FreeSlot
<1>5. FreeSlot(win) \in Slots
  BY <1>3, <1>4
<1> QED BY <1>5, Sizes

\* Closing windows.
LEMMA WithoutFacts ==
  ASSUME NEW win, NEW S
  PROVE  /\ OfTypes(Without(win, S), MenuTypes) = OfTypes(win, MenuTypes) \ S
         /\ OfTypes(Without(win, S), {"start_menu"}) = OfTypes(win, {"start_menu"}) \ S
         /\ OfTypes(Without(win, S), {"app_menu"}) = OfTypes(win, {"app_menu"}) \ S
         /\ \A w \in Slots : /\ w \in S => LET v == Without(win, S)[w] IN ~v.active /\ v.type = "none" /\ ~v.min
                             /\ w \notin S => Without(win, S)[w] = win[w]
                             /\ Without(win, S)[w].owner = win[w].owner
<1> DEFINE now == Without(win, S)
<1>1. \A w \in Slots : w \in S => now[w] = [Closed EXCEPT !.owner = win[w].owner]
  BY DEF Without
<1>2. \A w \in Slots : w \notin S => now[w] = win[w]
  BY DEF Without
<1> HIDE DEF now
<1>3. \A w \in Slots : w \in S => ~now[w].active /\ now[w].type = "none" /\ ~now[w].min /\ now[w].owner = win[w].owner
  BY <1>1 DEF Closed
<1>4. \A T : OfTypes(now, T) = OfTypes(win, T) \ S
  BY <1>2, <1>3 DEF OfTypes
<1> QED BY <1>2, <1>3, <1>4 DEF now

\* The menus are those of one type and those of the other.
LEMMA MenusAre ==
  /\ Menus = Starts \cup AppMenus
  /\ \A w \in Menus : w \in Slots /\ windows[w].active /\ windows[w].type \in MenuTypes
  /\ \A w \in Starts : w \in Slots /\ windows[w].active /\ windows[w].type = "start_menu"
  /\ \A w \in AppMenus : w \in Slots /\ windows[w].active /\ windows[w].type = "app_menu"
  /\ \A w \in Slots : windows[w].active /\ windows[w].type = "start_menu" => w \in Starts
  /\ \A w \in Slots : windows[w].active /\ windows[w].type = "app_menu" => w \in AppMenus
BY MenuSets DEF Menus, Starts, AppMenus

\* A step that opens nothing, closes no menu and does not raise.
LEMMA MenuFrame ==
  ASSUME MenuParts, TypeOK, NEW S, S \cap Menus = {}, windows' = Without(windows, S),
         UNCHANGED <<window_order, global_active_win, k>>,
         UNCHANGED <<pressed, down>> \/ (pressed' = NoPress /\ k.at = "idle")
  PROVE  MenuParts'
<1>0. windows \in [Slots -> WindowRecords] /\ k \in KRecords /\ global_active_win \in Slots \cup {-1}
  BY TypeShape
<1>1. \A w \in Slots : /\ w \in S => ~windows'[w].active /\ windows'[w].type = "none" /\ ~windows'[w].min
                       /\ w \notin S => windows'[w] = windows[w]
                       /\ windows'[w].owner = windows[w].owner
  BY WithoutFacts
<1>3. Menus' = Menus /\ Starts' = Starts /\ AppMenus' = AppMenus
  <2>1. Menus' = Menus \ S /\ Starts' = Starts \ S /\ AppMenus' = AppMenus \ S
    BY WithoutFacts DEF Menus, Starts, AppMenus
  <2> QED BY <2>1, MenusAre
<1>4. SlotsKept'
  <2>1. k.win \in Slots
    BY <1>0 DEF KRecords
  <2>2. k' = k /\ 0 \in Slots
    BY Sizes
  <2> QED BY <1>1, <2>1, <2>2 DEF MenuParts, SlotsKept, Fresh
<1>5. OneEach(windows') /\ InFront(windows', window_order, IF Fresh THEN {k.win} ELSE {})
  <2>1. \A w \in Slots : windows'[w].active => windows'[w] = windows[w]
    BY <1>1
  <2>2. OfTypes(windows', MenuTypes) = OfTypes(windows, MenuTypes)
    BY <1>3 DEF Menus
  <2>3. \A w \in OfTypes(windows', MenuTypes) : w \in Slots /\ windows'[w].active
    BY DEF OfTypes
  <2>4. OneEach(windows')
    BY <2>1, <2>2, <2>3 DEF MenuParts, OneEach
  <2>5. InFront(windows', window_order, IF Fresh THEN {k.win} ELSE {})
    BY <2>1, <2>2 DEF MenuParts, Fronted, InFront
  <2> QED BY <2>4, <2>5
<1>6. Armed'
  BY <1>3 DEF MenuParts, Armed, Opens
<1>7. Focused'
  BY <1>0, <1>1, <1>3 DEF MenuParts, Focused
<1>8. FirstRank'
  <2>1. FreeSlot(windows) # -1 => FreeSlot(windows') # -1
    <3> SUFFICES ASSUME FreeSlot(windows) # -1 PROVE FreeSlot(windows') # -1
      OBVIOUS
    <3>1. FreeSlot(windows) \in Slots \ {0} /\ ~windows[FreeSlot(windows)].active
      BY FreeSlotFound
    <3>2. ~windows'[FreeSlot(windows)].active
      BY <3>1, <1>1
    <3> QED BY <3>1, <3>2, FreeSlotIs
  <2>2. windows'[window_order[0]].owner = windows[window_order[0]].owner
    BY <1>1, Sizes, TypeShape DEF Orders
  <2>3. AtFront(windows', window_order) <=> AtFront(windows, window_order)
    BY <1>3 DEF AtFront, Menus
  <2>4. UNCHANGED <<k, window_order>> /\ FirstRank
    BY DEF MenuParts
  <2> QED BY <2>1, <2>2, <2>3, <2>4 DEF FirstRank, Fresh
<1>9. StartFirst' /\ OpeningMenu' /\ RaisingMenu' /\ Fronted'
  BY <1>3, <1>5 DEF MenuParts, StartFirst, OpeningMenu, RaisingMenu, Fronted, Fresh
<1> QED BY <1>4, <1>5, <1>6, <1>7, <1>8, <1>9 DEF MenuParts

\* A step after which no menu is open.
LEMMA NoMenus ==
  ASSUME Menus' = {}, SlotsKept', Armed', ~Fresh',
         k'.at \in {"pick", "fill"} => k'.job = "open" /\ k'.type # "app_menu"
  PROVE  MenuParts'
<1>1. OfTypes(windows', MenuTypes) = {} /\ OfTypes(windows', {"app_menu"}) = {}
  BY MenuSets DEF Menus
<1> QED
  BY <1>1 DEF MenuParts, OneEach, StartFirst, OpeningMenu, RaisingMenu, Focused, Fronted, InFront,
     FirstRank, AtFront, Menus, AppMenus, Fresh, Opens

\* bring_to_front keeps the menus in front.
LEMMA BringMenus ==
  ASSUME NEW order, Permutations(order), NEW win, NEW pos \in Ranks, NEW w \in Slots, order[pos] = w,
         OneEach(win), pos = 0 => InFront(win, order, {}) /\ AtFront(win, order)
  PROVE  LET s == BringToFront(order, win, pos, w)
         IN  Permutations(s) /\ InFront(win, s, {}) /\ AtFront(win, s)
<1> DEFINE s == BringToFront(order, win, pos, w)
           starts == OfTypes(win, {"start_menu"})
           apps == OfTypes(win, {"app_menu"})
<1>0. /\ Permutations(s)
      /\ pos # 0 => /\ \A m \in apps : (\A n \in apps : n = m) => \A v : v # m => Ahead(s, m, v)
                    /\ \A m \in starts : (\A n \in starts : n = m) =>
                         \A v : v # m /\ v \notin apps => Ahead(s, m, v)
      /\ pos = 0 => s = order
  BY BringOrder
<1> HIDE DEF s
<1>1. CASE pos = 0
  BY <1>0, <1>1 DEF s
<1>2. CASE pos # 0
  <2>1. /\ \A m \in starts : m \in Slots /\ win[m].active /\ win[m].type = "start_menu"
        /\ \A m \in apps : m \in Slots /\ win[m].active /\ win[m].type = "app_menu"
        /\ OfTypes(win, MenuTypes) = starts \cup apps
        /\ \A v \in Slots : win[v].active /\ win[v].type = "app_menu" => v \in apps
    BY MenuSets
  <2>2. (\A m, n \in starts : n = m) /\ (\A m, n \in apps : n = m)
    BY <2>1 DEF OneEach
  <2> HIDE DEF starts, apps
  <2>3. /\ \A m \in apps : \A v : v # m => Ahead(s, m, v)
        /\ \A m \in starts : \A v : v # m /\ v \notin apps => Ahead(s, m, v)
    BY <1>0, <1>2, <2>2
  <2>4. InFront(win, s, {})
    BY <2>1, <2>3 DEF InFront
  <2>5. AtFront(win, s)
    <3> SUFFICES ASSUME starts \cup apps # {}, s[0] \notin starts \cup apps PROVE FALSE
      BY <2>1 DEF AtFront
    <3>1. PICK m \in starts \cup apps : Ahead(s, m, s[0])
      BY <2>3
    <3>2. PICK r \in Ranks : s[r] = m
      BY <1>0, <2>1, EveryRanked
    <3>3. r < 0
      BY <3>1, <3>2, Sizes DEF Ahead
    <3> QED BY <3>3 DEF Ranks
  <2> QED BY <1>0, <2>4, <2>5 DEF s
<1> QED BY <1>1, <1>2

LEMMA MenusClose ==
  ASSUME SlotsKept, NEW S, windows' = Without(windows, S), Menus \ S = {}, k'.at # "fill", ~Fresh'
  PROVE  Menus' = {} /\ SlotsKept'
<1>1. Menus' = {}
  BY WithoutFacts DEF Menus
<1>2. SlotsKept'
  <2>1. k'.at # "own"
    BY DEF Fresh
  <2>2. \A w \in Slots : ~windows'[w].active => windows'[w].type = "none" /\ ~windows'[w].min
    BY WithoutFacts DEF SlotsKept
  <2>3. ~windows'[0].active
    BY WithoutFacts, Sizes DEF SlotsKept
  <2> QED BY <2>1, <2>2, <2>3 DEF SlotsKept
<1> QED BY <1>1, <1>2

LEMMA KFields ==
  /\ Idle.at = "idle"
  /\ \A type, owner, parent : /\ Opening(type, owner, parent).at = "pick"
                              /\ Opening(type, owner, parent).type = type
                              /\ Opening(type, owner, parent).job = "open"
  /\ \A w, job : /\ Raising(w, job).at = "slide"
                 /\ Raising(w, job).win = w
                 /\ Raising(w, job).job = job
BY DEF Idle, Opening, Raising

LEMMA PickMenu == ASSUME TypeOK, MenuParts, PickSlot PROVE MenuParts'
<1>0. k \in KRecords /\ k.at = "pick" /\ UNCHANGED <<windows, window_order, global_active_win, pressed, down>>
  BY TypeShape DEF PickSlot
<1>1. /\ Menus' = Menus /\ Starts' = Starts /\ AppMenus' = AppMenus
      /\ OneEach(windows') /\ StartFirst'
      /\ InFront(windows', window_order', {}) /\ ~Fresh
  BY <1>0 DEF MenuParts, Menus, Starts, AppMenus, StartFirst, Fronted, Fresh
<1>2. CASE FreeSlot(windows) = -1
  <2>1. k'.at = "idle"
    BY <1>2, KFields DEF PickSlot
  <2>2. SlotsKept' /\ OpeningMenu' /\ RaisingMenu'
    BY <1>0, <2>1 DEF MenuParts, SlotsKept, OpeningMenu, RaisingMenu, Fresh
  <2>3. Armed' /\ Focused'
    BY <1>0, <1>1, <2>1 DEF MenuParts, Armed, Opens, Focused
  <2>4. AtFront(windows, window_order)
    BY <1>0, <1>2 DEF MenuParts, FirstRank, Fresh
  <2>5. FirstRank' /\ Fronted'
    BY <1>0, <1>1, <2>1, <2>4 DEF FirstRank, Fronted, Fresh
  <2> QED BY <1>1, <2>2, <2>3, <2>5 DEF MenuParts
<1>3. CASE FreeSlot(windows) # -1
  <2>1. /\ k'.at = "fill" /\ k'.win = FreeSlot(windows) /\ k'.type = k.type /\ k'.job = k.job
    BY <1>0, <1>3 DEF PickSlot, KRecords
  <2>2. SlotsKept'
    <3>1. k'.win # 0 /\ ~windows[k'.win].active
      BY <1>3, <2>1, FreeSlotFound
    <3> QED BY <3>1, <1>0 DEF MenuParts, SlotsKept
  <2>3. OpeningMenu' /\ RaisingMenu'
    BY <1>0, <1>1, <2>1 DEF MenuParts, OpeningMenu, RaisingMenu, Fresh
  <2>4. Armed' /\ Focused'
    BY <1>0, <1>1, <2>1 DEF MenuParts, Armed, Opens, Focused
  <2>5. FirstRank' /\ Fronted'
    BY <1>0, <1>1, <2>1 DEF MenuParts, FirstRank, Fronted, Fresh
  <2> QED BY <1>1, <2>2, <2>3, <2>4, <2>5 DEF MenuParts
<1> QED BY <1>2, <1>3

LEMMA FillMenu == ASSUME TypeOK, MenuParts, FillSlot PROVE MenuParts'
<1>0. /\ windows \in [Slots -> WindowRecords] /\ k \in KRecords /\ k.at = "fill"
      /\ UNCHANGED <<window_order, global_active_win, pressed, down>>
  BY TypeShape DEF FillSlot
<1>1. /\ k'.at = "own" /\ k'.win = k.win /\ k'.type = k.type /\ k'.job = k.job /\ k.job = "open"
      /\ k.win \in Slots /\ k.win # 0 /\ ~windows[k.win].active /\ k.type \in Types
  BY <1>0 DEF FillSlot, KRecords, MenuParts, SlotsKept, OpeningMenu
<1>2. /\ windows'[k.win].active /\ windows'[k.win].type = k.type /\ windows'[k.win].owner = windows[k.win].owner
      /\ \A w \in Slots : w # k.win => windows'[w] = windows[w]
  BY <1>0, <1>1, OpenedTyped DEF FillSlot
<1>3. IF k.type = "app_menu" THEN Starts # {} /\ AppMenus = {} ELSE Menus = {}
  BY <1>0 DEF MenuParts, OpeningMenu
<1>4. /\ Starts' = Starts \cup IF k.type = "start_menu" THEN {k.win} ELSE {}
      /\ AppMenus' = AppMenus \cup IF k.type = "app_menu" THEN {k.win} ELSE {}
      /\ k.type \notin MenuTypes => Menus' = Menus
  BY <1>1, <1>2 DEF Starts, AppMenus, Menus, OfTypes, MenuTypes
<1>5. Menus' = Starts' \cup AppMenus'
  BY MenuSets DEF Menus, Starts, AppMenus
<1>6. OneEach(windows')
  <2> SUFFICES ASSUME NEW a \in Menus', NEW b \in Menus', windows'[a].type = windows'[b].type PROVE a = b
    BY DEF OneEach, Menus
  <2>1. CASE k.type = "app_menu"
    <3>1. \A w \in Starts : w # k.win /\ windows'[w].type = "start_menu"
      BY <1>1, <1>2, MenusAre
    <3>2. windows'[k.win].type = "app_menu"
      BY <1>2, <2>1
    <3>3. \A w \in Menus' : w \in Starts \/ w = k.win
      BY <1>3, <1>4, <1>5, <2>1
    <3>4. CASE a = k.win \/ b = k.win
      BY <3>1, <3>2, <3>3, <3>4
    <3>5. CASE a \in Starts /\ b \in Starts
      <4>1. a \in Menus /\ b \in Menus /\ windows[a].type = windows[b].type
        BY <3>5, MenusAre
      <4> QED BY <4>1 DEF MenuParts, OneEach, Menus
    <3> QED BY <3>3, <3>4, <3>5
  <2>2. CASE k.type # "app_menu"
    BY <2>2, <1>3, <1>4, <1>5, MenusAre
  <2> QED BY <2>1, <2>2
<1>7. SlotsKept'
  BY <1>0, <1>1, <1>2, Sizes DEF MenuParts, SlotsKept
<1>8. StartFirst' /\ OpeningMenu' /\ RaisingMenu'
  BY <1>1, <1>3, <1>4, <1>5, MenusAre DEF StartFirst, OpeningMenu, RaisingMenu, Fresh
<1>9. Armed'
  BY <1>0, <1>1, <1>4 DEF MenuParts, Armed, Opens
<1>10. Focused' /\ FirstRank'
  <2>1. ASSUME window_order[0] = k.win, Menus' # {} PROVE window_order[0] \in Menus'
    BY <2>1, <1>1, <1>2, <1>3, <1>4, <1>5, MenusAre DEF MenuTypes
  <2>2. window_order[0] \in Slots
    BY Sizes, TypeShape DEF Orders
  <2>3. windows'[window_order[0]].owner = windows[window_order[0]].owner
    BY <1>2, <2>2
  <2>4. AtFront(windows', window_order) <=> (Menus' # {} => window_order[0] \in Menus')
    BY DEF AtFront, Menus
  <2>5. k.type = "app_menu" => windows[window_order[0]].owner = 0
    BY <1>0 DEF MenuParts, FirstRank
  <2> QED BY <1>0, <1>1, <2>1, <2>3, <2>4, <2>5 DEF Focused, FirstRank, Fresh
<1>11. Fronted'
  <2> SUFFICES ASSUME NEW m \in Menus', m # k.win, NEW w \in Slots, w # k.win,
                      w # m, windows'[w].active, windows'[w].type # "app_menu"
               PROVE  Ahead(window_order, m, w)
    BY <1>0, <1>1 DEF Fronted, InFront, Fresh, Menus
  <2>1. m \in Menus
    BY <1>4, <1>5, MenusAre
  <2>2. InFront(windows, window_order, {})
    BY <1>0 DEF MenuParts, Fronted, Fresh
  <2> QED BY <2>1, <2>2, <1>2 DEF InFront, Menus
<1> QED BY <1>6, <1>7, <1>8, <1>9, <1>10, <1>11 DEF MenuParts

\* The owner of the slot is written.
LEMMA OwnMenu == ASSUME TypeOK, MenuParts, OwnSlot PROVE MenuParts'
<1>0. /\ windows \in [Slots -> WindowRecords] /\ k \in KRecords /\ k.at = "own"
      /\ UNCHANGED <<window_order, global_active_win, pressed, down>>
  BY TypeShape DEF OwnSlot
<1>1. /\ k'.at = "slide" /\ k'.win = k.win /\ k'.type = k.type /\ k'.job = k.job /\ k.job = "open"
      /\ k.win \in Slots /\ k.owner \in 0 .. MaxProcesses - 1 /\ Fresh /\ Fresh'
  BY <1>0 DEF OwnSlot, KRecords, MenuParts, OpeningMenu, Fresh
<1>2. \A w \in Slots : windows'[w].active = windows[w].active /\ windows'[w].type = windows[w].type
                       /\ windows'[w].min = windows[w].min
  BY <1>0, <1>1, OpenedTyped DEF OwnSlot
<1>3. \A T : OfTypes(windows', T) = OfTypes(windows, T)
  BY <1>2 DEF OfTypes
<1>4. Menus' = Menus /\ Starts' = Starts /\ AppMenus' = AppMenus
  BY <1>3 DEF Menus, Starts, AppMenus
<1>5. SlotsKept'
  BY <1>0, <1>1, <1>2, Sizes DEF MenuParts, SlotsKept
<1>6. OneEach(windows')
  <2>1. \A a \in OfTypes(windows, MenuTypes) : windows'[a].type = windows[a].type
    BY <1>2 DEF OfTypes
  <2> QED BY <1>3, <2>1 DEF MenuParts, OneEach
<1>7. StartFirst' /\ OpeningMenu' /\ RaisingMenu'
  BY <1>1, <1>4 DEF MenuParts, StartFirst, OpeningMenu, RaisingMenu
<1>8. Armed'
  BY <1>0, <1>1, <1>4 DEF MenuParts, Armed, Opens
<1>9. Focused' /\ FirstRank'
  <2>1. AtFront(windows', window_order) <=> AtFront(windows, window_order)
    BY <1>3 DEF AtFront
  <2> QED BY <1>0, <1>1, <2>1 DEF MenuParts, Focused, FirstRank
<1>10. Fronted'
  <2>1. InFront(windows', window_order, {k.win})
    BY <1>1, <1>2, <1>3 DEF MenuParts, Fronted, InFront
  <2> QED BY <1>0, <1>1, <2>1 DEF Fronted
<1> QED BY <1>5, <1>6, <1>7, <1>8, <1>9, <1>10 DEF MenuParts

\* An exit, before the owner is written, may close the slot that is being opened.
LEMMA LostMenu ==
  ASSUME MenuParts, TypeOK, k.at = "own", NEW S, \A m \in Menus : m # k.win => m \notin S,
         \A w \in S : windows[w].owner # 0, windows' = Without(windows, S),
         UNCHANGED <<window_order, global_active_win, k, pressed, down>>
  PROVE  MenuParts'
<1>0. windows \in [Slots -> WindowRecords] /\ k.win \in Slots /\ window_order[0] \in Slots /\ Fresh
  BY TypeShape, Sizes DEF KRecords, Orders, Fresh
<1>1. \A w \in Slots : /\ w \in S => ~windows'[w].active /\ windows'[w].type = "none" /\ ~windows'[w].min
                       /\ w \notin S => windows'[w] = windows[w]
                       /\ windows'[w].owner = windows[w].owner
  BY WithoutFacts
<1>2. Menus' = Menus \ S /\ Starts' = Starts \ S /\ AppMenus' = AppMenus \ S
  BY WithoutFacts DEF Menus, Starts, AppMenus
<1>3. SlotsKept'
  BY <1>0, <1>1, Sizes, ZenonT(60) DEF MenuParts, SlotsKept, Fresh
<1>4. OneEach(windows')
  <2>1. \A a \in Menus' : a \in Menus /\ windows'[a] = windows[a]
    BY <1>1, <1>2, MenusAre
  <2> QED BY <2>1 DEF MenuParts, OneEach, Menus
<1>5. /\ k.type = "app_menu" => Starts # {} /\ AppMenus \subseteq {k.win}
      /\ k.type # "app_menu" => Menus \subseteq {k.win}
  BY <1>0 DEF MenuParts, OpeningMenu
<1>6. k.type = "app_menu" => Starts' = Starts
  <2> SUFFICES ASSUME k.type = "app_menu", NEW s \in Starts, s \in S PROVE FALSE
    BY <1>2
  <2>1. s = k.win
    BY MenusAre
  <2>2. windows[k.win].active /\ windows[k.win].type = "start_menu"
    BY <2>1, MenusAre
  <2> QED BY <2>2, <1>0 DEF MenuParts, SlotsKept
<1>7. StartFirst' /\ OpeningMenu' /\ RaisingMenu'
  <2>1. k.type = "app_menu" => StartFirst' /\ OpeningMenu'
    BY <1>2, <1>5, <1>6 DEF MenuParts, StartFirst, OpeningMenu, Fresh
  <2>2. k.type # "app_menu" => OpeningMenu'
    BY <1>2, <1>5 DEF MenuParts, OpeningMenu, Fresh
  <2>3. k.type # "app_menu" => AppMenus' = {}
    <3> SUFFICES ASSUME k.type # "app_menu", NEW a \in AppMenus PROVE FALSE
      BY <1>2
    <3>1. a = k.win /\ windows[k.win].active /\ windows[k.win].type = "app_menu"
      BY <1>5, MenusAre
    <3> QED BY <3>1, <1>0 DEF MenuParts, SlotsKept
  <2> QED BY <2>1, <2>2, <2>3 DEF StartFirst, RaisingMenu
<1>8. Armed' /\ Focused'
  BY <1>2 DEF MenuParts, Armed, Opens, Focused
<1>9. FirstRank'
  <2>1. ASSUME window_order[0] = k.win, Menus' # {} PROVE window_order[0] \in Menus'
    <3>1. k.win \in Menus
      BY <2>1, <1>0, <1>2 DEF MenuParts, FirstRank, AtFront, Menus
    <3>2. k.win \notin S
      <4>1. CASE k.type = "app_menu"
        BY <4>1, <2>1 DEF MenuParts, FirstRank
      <4>2. CASE k.type # "app_menu"
        BY <4>2, <2>1, <1>2, <1>5
      <4> QED BY <4>1, <4>2
    <3> QED BY <3>1, <3>2, <1>2, <2>1
  <2>2. AtFront(windows', window_order) <=> (Menus' # {} => window_order[0] \in Menus')
    BY DEF AtFront, Menus
  <2>3. windows'[window_order[0]].owner = windows[window_order[0]].owner
    BY <1>0, <1>1
  <2> QED BY <2>1, <2>2, <2>3 DEF MenuParts, FirstRank, Fresh
<1>10. Fronted'
  <2> SUFFICES ASSUME NEW m \in Menus', m # k.win, NEW w \in Slots, w # k.win,
                      w # m, windows'[w].active, windows'[w].type # "app_menu"
               PROVE  Ahead(window_order, m, w)
    BY <1>0 DEF Fronted, InFront, Fresh, Menus
  <2>1. m \in Menus /\ windows[w].active /\ windows[w].type # "app_menu"
    BY <1>1, <1>2
  <2> QED BY <2>1, <1>0 DEF MenuParts, Fronted, InFront, Menus
<1> QED BY <1>3, <1>4, <1>7, <1>8, <1>9, <1>10 DEF MenuParts

\* A raise leaves the menus in front, and the window it raises is one of them if
\* there is any, unless it has been closed.
LEMMA RaiseMenu ==
  ASSUME MoveInv, ~torn, MenuParts, Raise
  PROVE  /\ InFront(windows, window_order', {}) /\ AtFront(windows, window_order')
         /\ Menus # {} => k.win \in Menus \/ (Fresh /\ ~windows[k.win].active)
         /\ global_active_win' = k.win /\ UNCHANGED <<down, torn>> /\ k.at = "slide" /\ k.win \in Slots
<1>1. /\ k.at = "slide" /\ global_active_win' = k.win /\ UNCHANGED <<down, torn>>
      /\ window_order' = BringToFront(window_order, windows, k.pos, k.win)
  BY DEF Raise
<1>2. /\ Permutations(window_order) /\ k.win \in Slots
      /\ k.pos \in Ranks /\ window_order[k.pos] = k.win
  BY <1>1, RankNow
<1>3. Menus # {} => k.win \in Menus \/ (Fresh /\ ~windows[k.win].active)
  <2>1. CASE ~Fresh
    BY <2>1, <1>1 DEF MenuParts, RaisingMenu
  <2>2. CASE Fresh /\ windows[k.win].active
    <3>1. windows[k.win].type = k.type
      BY <2>2 DEF MenuParts, SlotsKept
    <3> QED BY <2>2, <3>1, <1>2, MenusAre DEF MenuParts, OpeningMenu
  <2> QED BY <2>1, <2>2
<1>4. ASSUME k.pos = 0 PROVE InFront(windows, window_order, {}) /\ AtFront(windows, window_order)
  <2>1. CASE ~Fresh
    BY <2>1, <1>1 DEF MenuParts, Fronted, FirstRank
  <2>2. CASE Fresh
    <3>1. AtFront(windows, window_order)
      BY <2>2, <1>2, <1>4 DEF MenuParts, FirstRank
    <3>2. ASSUME NEW m \in Menus, NEW w \in Slots, w # m, windows[w].active, windows[w].type # "app_menu"
          PROVE  Ahead(window_order, m, w)
      <4>1. CASE m = k.win
        BY <4>1, <3>2, <1>2, <1>4, FirstAhead
      <4>2. CASE m # k.win
        <5>1. k.type = "app_menu"
          BY <4>2, <2>2 DEF MenuParts, OpeningMenu
        <5>2. w # k.win
          BY <5>1, <3>2, <2>2 DEF MenuParts, SlotsKept
        <5>3. InFront(windows, window_order, {k.win})
          BY <2>2 DEF MenuParts, Fronted
        <5> QED BY <5>2, <5>3, <4>2, <3>2 DEF InFront, Menus
      <4> QED BY <4>1, <4>2
    <3> QED BY <3>1, <3>2 DEF InFront, Menus
  <2> QED BY <2>1, <2>2
<1>5. OneEach(windows)
  BY DEF MenuParts
<1>6. InFront(windows, window_order', {}) /\ AtFront(windows, window_order')
  BY <1>1, <1>2, <1>4, <1>5, BringMenus
<1> QED BY <1>1, <1>2, <1>3, <1>6

LEMMA OpenedMenu == ASSUME MoveInv, ~torn, MenuParts, OpenedWindow PROVE MenuParts'
<1>1. k'.at = "idle" /\ UNCHANGED <<windows, pressed>> /\ Raise
  BY KFields DEF OpenedWindow
<1>2. /\ InFront(windows, window_order', {}) /\ AtFront(windows, window_order')
      /\ Menus # {} => k.win \in Menus \/ ~windows[k.win].active
      /\ global_active_win' = k.win /\ UNCHANGED down /\ k.win \in Slots
  BY <1>1, RaiseMenu
<1>3. Menus' = Menus /\ Starts' = Starts /\ AppMenus' = AppMenus
  BY <1>1 DEF Menus, Starts, AppMenus
<1>4. SlotsKept' /\ OneEach(windows') /\ StartFirst' /\ OpeningMenu' /\ RaisingMenu' /\ Armed'
  BY <1>1, <1>2, <1>3 DEF MenuParts, SlotsKept, StartFirst, OpeningMenu, RaisingMenu, Armed, Opens, Fresh
<1>5. Focused'
  <2>1. Menus # {} => windows[k.win].type # "terminal"
    BY <1>2, MenusAre DEF MenuParts, SlotsKept, MenuTypes
  <2> QED BY <2>1, <1>1, <1>2, <1>3 DEF Focused
<1>6. Fronted' /\ FirstRank'
  BY <1>1, <1>2 DEF Fronted, FirstRank, Fresh
<1> QED BY <1>4, <1>5, <1>6 DEF MenuParts

LEMMA ClickedMenu == ASSUME MoveInv, ~torn, MenuParts, ClickedWindow PROVE MenuParts'
<1>1. /\ k'.at = "idle" /\ UNCHANGED windows /\ Raise /\ k.job \in {"body", "close", "min"} /\ k.at = "slide"
      /\ pressed' = pressed \/ k.job \in {"close", "min"}
  BY KFields DEF ClickedWindow, Raise
<1>2. /\ InFront(windows, window_order', {}) /\ AtFront(windows, window_order')
      /\ Menus # {} => k.win \in Menus
      /\ global_active_win' = k.win /\ UNCHANGED down
  <2>1. ~Fresh
    BY <1>1 DEF Fresh
  <2> QED BY <2>1, <1>1, RaiseMenu
<1>3. Menus' = Menus /\ Starts' = Starts /\ AppMenus' = AppMenus
  BY <1>1 DEF Menus, Starts, AppMenus
<1>4. SlotsKept' /\ OneEach(windows') /\ StartFirst' /\ OpeningMenu' /\ RaisingMenu'
  BY <1>1, <1>3 DEF MenuParts, SlotsKept, StartFirst, OpeningMenu, RaisingMenu, Fresh
<1>5. Armed'
  BY <1>1, <1>2, <1>3 DEF MenuParts, RaisingMenu, Armed, Opens, Fresh
<1>6. Focused'
  BY <1>1, <1>2, <1>3, MenusAre DEF Focused, MenuTypes
<1>7. Fronted' /\ FirstRank'
  BY <1>1, <1>2 DEF Fronted, FirstRank, Fresh
<1> QED BY <1>4, <1>5, <1>6, <1>7 DEF MenuParts

\* The click on "Applications": the old applications menu is closed, the next is opened.
LEMMA ApplicationsMenu == ASSUME MoveInv, OwnInv, ~torn, MenuParts, ClickedApplications PROVE MenuParts'
<1>1. /\ k'.at = "pick" /\ k'.type = "app_menu" /\ k'.job = "open" /\ UNCHANGED pressed /\ Raise
      /\ windows' = Without(windows, AppMenus) /\ windows[k.win].type = "start_menu"
  BY KFields DEF ClickedApplications, AppMenus
<1>2. /\ InFront(windows, window_order', {}) /\ AtFront(windows, window_order')
      /\ global_active_win' = k.win /\ k.win \in Slots /\ k.at = "slide"
  BY <1>1, RaiseMenu
<1>3. windows[k.win].active /\ k.win \in Starts /\ k.win \notin AppMenus
  BY <1>1, <1>2, MenusAre DEF MenuParts, SlotsKept
<1>4. Menus' = Starts /\ Starts' = Starts /\ AppMenus' = {}
  <2>1. Menus' = Menus \ AppMenus /\ Starts' = Starts \ AppMenus /\ AppMenus' = AppMenus \ AppMenus
    <3> DEFINE S == AppMenus
    <3>1. windows' = Without(windows, S)
      BY <1>1
    <3> HIDE DEF S
    <3>2. Menus' = Menus \ S /\ Starts' = Starts \ S /\ AppMenus' = AppMenus \ S
      BY <3>1, WithoutFacts DEF Menus, Starts, AppMenus
    <3> QED BY <3>2 DEF S
  <2>2. Starts \cap AppMenus = {} /\ Menus = Starts \cup AppMenus
    BY MenusAre
  <2> QED BY <2>1, <2>2
<1>5. \A w \in Slots : windows'[w].active => windows'[w] = windows[w]
  BY <1>1, WithoutFacts
<1>6. SlotsKept'
  <2>1. k'.at = "pick" /\ ~Fresh'
    BY <1>1 DEF Fresh
  <2>2. \A w \in Slots : ~windows'[w].active => windows'[w].type = "none" /\ ~windows'[w].min
    BY <1>1, WithoutFacts DEF MenuParts, SlotsKept
  <2>3. ~windows'[0].active
    BY <1>1, WithoutFacts, Sizes DEF MenuParts, SlotsKept
  <2> QED BY <2>1, <2>2, <2>3 DEF SlotsKept
<1>7. OneEach(windows')
  <2>1. \A a \in Starts : a \in Menus /\ windows'[a] = windows[a]
    BY <1>1, WithoutFacts, MenusAre
  <2> QED BY <2>1, <1>4 DEF MenuParts, OneEach, Menus
<1>8. StartFirst' /\ OpeningMenu' /\ RaisingMenu'
  BY <1>1, <1>3, <1>4 DEF StartFirst, OpeningMenu, RaisingMenu, Fresh
<1>9. Armed'
  BY <1>1, <1>3, MenusAre DEF MenuParts, Armed
<1>10. Focused'
  BY <1>1, <1>2, <1>3, WithoutFacts DEF Focused
<1>11. Fronted'
  <2>1. ASSUME NEW m \in Menus', NEW w \in Slots, w # m, windows'[w].active, windows'[w].type # "app_menu"
        PROVE  Ahead(window_order', m, w)
    <3>1. m \in Menus /\ windows[w].active /\ windows[w].type # "app_menu"
      BY <2>1, <1>4, <1>5, MenusAre
    <3> QED BY <3>1, <2>1, <1>2 DEF InFront, Menus
  <2> QED BY <2>1, <1>1 DEF Fronted, InFront, Fresh, Menus
<1>12. FirstRank'
  <2> DEFINE f == window_order'[0]
  <2>3. windows'[f].owner = 0
    <3>1. f \in Menus
      BY <1>2, <1>3, MenusAre DEF AtFront, Menus
    <3>2. f \in Slots /\ windows[f].owner = 0
      BY <3>1, <1>2, MenusAre DEF OwnInv, MenusAreKernels
    <3> HIDE DEF f
    <3> QED BY <3>2, <1>1, WithoutFacts
  <2>4. k'.at = "pick" /\ ~Fresh'
    BY <1>1 DEF Fresh
  <2>1. CASE AppMenus = {}
    <3>1. Menus' = Menus
      BY <2>1, <1>4, MenusAre
    <3> QED BY <2>3, <2>4, <3>1, <1>2 DEF FirstRank, AtFront, Menus
  <2>2. CASE AppMenus # {}
    <3>1. PICK m \in AppMenus : m \in Slots /\ windows[m].active
      BY <2>2, MenusAre
    <3>2. m # 0
      BY <3>1 DEF MenuParts, SlotsKept
    <3>3. ~windows'[m].active
      BY <3>1, <1>1, WithoutFacts
    <3>4. FreeSlot(windows') # -1
      BY <3>1, <3>2, <3>3, FreeSlotIs
    <3> QED BY <3>4, <2>3, <2>4 DEF FirstRank
  <2> QED BY <2>1, <2>2
<1> QED BY <1>6, <1>7, <1>8, <1>9, <1>10, <1>11, <1>12 DEF MenuParts

\* A click that finds a menu under the pointer raises a menu.
LEMMA TopmostFirst ==
  ASSUME window_order \in Orders, NEW S, NEW r \in Ranks, window_order[r] \in S
  PROVE  \E t \in Ranks : window_order[t] = Topmost(S) /\ Topmost(S) \in S /\ t <= r
<1> DEFINE F == {x \in Ranks : window_order[x] \in S}
<1>1. F \subseteq 0 .. (MaxWindows - 1) /\ MaxWindows - 1 \in Int /\ F # {}
  BY Sizes DEF Ranks
<1>2. PICK x \in F : \A y \in F : x <= y
  BY <1>1, MinExists
<1>3. \E z \in Ranks : window_order[z] \in S /\ \A q \in Ranks : window_order[q] \in S => z <= q
  BY <1>2
<1> DEFINE t == CHOOSE z \in Ranks : window_order[z] \in S /\ \A q \in Ranks : window_order[q] \in S => z <= q
<1>4. t \in Ranks /\ window_order[t] \in S /\ \A q \in Ranks : window_order[q] \in S => t <= q
  BY <1>3
<1>5. Topmost(S) = window_order[t]
  BY DEF Topmost
<1> QED BY <1>4, <1>5

LEMMA MenuIsHit ==
  ASSUME TypeOK, MenuParts, ~Fresh, Permutations(window_order), NEW S \in SUBSET Visible, NEW m \in S, m \in Menus
  PROVE  Topmost(S) \in S /\ Topmost(S) \in Menus
<1>1. m \in Slots
  BY MenusAre
<1>2. PICK r \in Ranks : window_order[r] = m
  BY <1>1, EveryRanked
<1>3. PICK t \in Ranks : window_order[t] = Topmost(S) /\ Topmost(S) \in S /\ t <= r
  BY <1>2, TopmostFirst DEF Permutations
<1>4. Topmost(S) \in Slots /\ windows[Topmost(S)].active
  BY <1>3 DEF Visible
<1>5. CASE Topmost(S) \notin Menus
  <2>1. windows[Topmost(S)].type # "app_menu" /\ Topmost(S) # m
    BY <1>4, <1>5, MenusAre
  <2>2. Ahead(window_order, m, Topmost(S))
    BY <2>1, <1>4 DEF MenuParts, Fronted, InFront, Menus
  <2>3. r < t /\ r \in Int /\ t \in Int
    BY <2>2, <1>2, <1>3, Sizes DEF Ahead
  <2> QED BY <2>3, <1>3
<1> QED BY <1>3, <1>5

LEMMA PressMenu ==
  ASSUME TypeOK, ~torn, OrderInv, MenuParts, NEW under \in SUBSET Slots, PressWindow(under)
  PROVE  MenuParts'
<1> DEFINE hits == {w \in under : \E r \in Ranks : window_order[r] = w}
           onMenu == \E w \in under : IsMenu(w)
<1>0. /\ k.at = "idle" /\ ~down /\ down' = TRUE /\ under \subseteq Visible
      /\ UNCHANGED <<window_order, global_active_win, pressed>> /\ pressed = NoPress
  BY DEF PressWindow, PressBegins, MenuParts, Armed
<1>1. \/ k' = k /\ hits = {}
      \/ /\ hits # {} /\ k'.at = "slide" /\ k'.win = Topmost(hits) /\ k'.job \in {"body", "close", "min"}
         /\ IsMenu(Topmost(hits)) => k'.job = "body"
  <2>1. CASE hits = {}
    BY <2>1 DEF PressWindow
  <2>2. CASE hits # {}
    <3>1. PICK job \in ClickJobs(Topmost(hits)) : k' = Raising(Topmost(hits), job)
      BY <2>2 DEF PressWindow
    <3> QED BY <2>2, <3>1, KFields DEF ClickJobs
  <2> QED BY <2>1, <2>2
<1>2. Permutations(window_order)
  BY PermutationNow
<1>3. Armed'
  BY <1>0 DEF Armed
<1>4. CASE ~onMenu
  <2>1. windows' = Without(windows, Menus)
    BY <1>4 DEF PressWindow, Menus
  <2>2. k'.at \in {"idle", "slide"} /\ ~Fresh'
    BY <1>0, <1>1 DEF Fresh
  <2>3. Menus' = {} /\ SlotsKept'
    BY <2>1, <2>2, MenusClose DEF MenuParts
  <2> QED BY <2>2, <2>3, <1>3, NoMenus
<1>5. CASE onMenu
  <2>1. windows' = windows
    BY <1>5 DEF PressWindow
  <2>2. PICK m \in under : m \in Slots /\ m \in Menus
    BY <1>5 DEF IsMenu, Menus, OfTypes
  <2>3. m \in hits
    BY <2>2, <1>2, EveryRanked
  <2>4. hits \in SUBSET Visible /\ ~Fresh
    BY <1>0 DEF Fresh
  <2> HIDE DEF hits
  <2>5. Topmost(hits) \in Menus
    BY <2>2, <2>3, <2>4, <1>2, MenuIsHit
  <2>6. k'.at = "slide" /\ k'.win = Topmost(hits) /\ k'.job = "body"
    BY <2>3, <2>5, <1>1, MenusAre DEF IsMenu
  <2>7. Menus' = Menus /\ Starts' = Starts /\ AppMenus' = AppMenus
    BY <2>1 DEF Menus, Starts, AppMenus
  <2>8. SlotsKept' /\ OneEach(windows') /\ StartFirst' /\ OpeningMenu' /\ RaisingMenu' /\ Focused'
    BY <2>1, <2>5, <2>6, <2>7 DEF MenuParts, SlotsKept, StartFirst, OpeningMenu, RaisingMenu, Focused, Fresh
  <2>9. Fronted' /\ FirstRank'
    BY <2>1, <2>4, <2>6, <1>0 DEF MenuParts, Fronted, FirstRank, Fresh
  <2> QED BY <2>8, <2>9, <1>3 DEF MenuParts
<1> QED BY <1>4, <1>5

\* An application that opens a window while pid 0 is elsewhere.
LEMMA ChildMenu ==
  ASSUME TypeOK, ~torn, OrderInv, MenuParts, k.at \in Calm, NEW p \in Apps, ChildWindow(p)
  PROVE  MenuParts'
<1> DEFINE w == FreeSlot(windows)
           pos == LastPos(window_order, w)
<1>0. /\ w \in Slots /\ w # 0 /\ ~windows[w].active
      /\ windows' = Owned(Claimed(windows, w, "app_gui"), w, p)
      /\ window_order' = BringToFront(window_order, windows', pos, w)
      /\ global_active_win' = w /\ UNCHANGED <<process_table, pressed, down, k>>
  BY FreeSlotFound DEF ChildWindow
<1> HIDE DEF w
<1>t. windows \in [Slots -> WindowRecords]
  BY TypeShape
<1>1. Permutations(window_order)
  BY PermutationNow
<1>2. pos \in Ranks /\ window_order[pos] = w
  BY <1>0, <1>1, RankFound
<1> HIDE DEF pos
<1>3. /\ windows'[w].active /\ windows'[w].type = "app_gui"
      /\ \A v \in Slots : v # w => windows'[v] = windows[v]
  BY <1>0, <1>t, ChildTyped
<1>f. ~Fresh /\ k.at \notin {"pick", "fill", "own"}
  BY DEF Calm, Fresh
<1>4. Menus' = Menus /\ Starts' = Starts /\ AppMenus' = AppMenus
  BY <1>0, <1>3 DEF Menus, Starts, AppMenus, OfTypes, MenuTypes
<1>5. OneEach(windows')
  <2>1. \A a \in Menus : windows'[a] = windows[a]
    BY <1>0, <1>3, MenusAre
  <2> QED BY <2>1, <1>4 DEF MenuParts, OneEach, Menus
<1>6. ASSUME pos = 0 PROVE InFront(windows', window_order, {}) /\ AtFront(windows', window_order)
  <2>1. Menus = {}
    <3>1. Menus # {} => window_order[0] \in Menus
      BY <1>f DEF MenuParts, FirstRank, AtFront, Menus
    <3> QED BY <3>1, <1>0, <1>2, <1>6, MenusAre
  <2>2. OfTypes(windows', MenuTypes) = {}
    BY <2>1, <1>4 DEF Menus
  <2> QED BY <2>2 DEF InFront, AtFront
<1>7. InFront(windows', window_order', {}) /\ AtFront(windows', window_order')
  BY <1>0, <1>1, <1>2, <1>5, <1>6, BringMenus
<1>8. k' = k /\ ~Fresh'
  BY <1>0, <1>f DEF Fresh
<1>9. SlotsKept'
  BY <1>0, <1>3, <1>8, <1>f, Sizes DEF MenuParts, SlotsKept
<1>10. StartFirst' /\ OpeningMenu' /\ RaisingMenu' /\ Armed'
  BY <1>0, <1>4, <1>8, <1>f DEF MenuParts, StartFirst, OpeningMenu, RaisingMenu, Armed, Opens
<1>11. Focused'
  BY <1>0, <1>3 DEF Focused
<1>12. Fronted' /\ FirstRank'
  BY <1>7, <1>8, <1>f DEF Fronted, FirstRank
<1> QED BY <1>5, <1>9, <1>10, <1>11, <1>12 DEF MenuParts

\* What torn says stays true.
LEMMA TornStays == ASSUME [Next]_vars, ~torn' PROVE ~torn
<1>1. PickSlot \/ FillSlot \/ OwnSlot \/ Sink \/ ClickGoesBelow \/ EndClient \/ CloseLast => torn' = torn
  BY DEF PickSlot, FillSlot, OwnSlot, Sink, ClickGoesBelow, EndClient, CloseLast
<1>2. OpenedWindow \/ Restored \/ ClickedWindow \/ ClickedTerminal \/ ClickedApplications \/ ClickedProgram => torn' = torn
  BY DEF OpenedWindow, Restored, ClickedWindow, ClickedTerminal, ClickedApplications, ClickedProgram, Raise
<1>3. /\ PressStart \/ PressBar \/ ReleaseIdle \/ ReleaseInfo \/ ReleaseClose \/ ReleaseMin => torn' = torn
      /\ RunGui \/ RunText => torn' = torn
  BY DEF PressStart, PressBar, ReleaseIdle, ReleaseInfo, ReleaseClose, ReleaseMin, RunGui, RunText
<1>4. \A w : PressTaskbar(w) \/ PressWindow(w) => torn' = torn
  BY DEF PressTaskbar, PressWindow
<1>5. \A p : CloseWindowsOf(p) \/ KillCommand(p) \/ Exit(p) \/ Die(p) => torn' = torn
  BY DEF CloseWindowsOf, KillCommand, Exit, Die
<1>6. \A p : ChildWindow(p) => (torn => torn')
  BY DEF ChildWindow
<1>7. UNCHANGED vars => torn' = torn
  BY DEF vars
<1> QED BY <1>1, <1>2, <1>3, <1>4, <1>5, <1>6, <1>7 DEF Next, Kernel

LEMMA MenuNext == TypeOK /\ MoveInv /\ OwnInv /\ MenuInv /\ [Next]_vars => MenuInv'
<1> SUFFICES ASSUME TypeOK, MoveInv, OwnInv, MenuInv, [Next]_vars, ~torn' PROVE MenuParts'
  BY DEF MenuInv
<1>0. /\ windows \in [Slots -> WindowRecords] /\ k \in KRecords /\ OrderInv
      /\ pressed \in [win : Slots \cup {-1}, btn : Buttons]
  BY TypeShape DEF MoveInv
<1>t. ~torn
  BY TornStays
<1>p. MenuParts
  BY <1>t DEF MenuInv
<1>n. NoPress.win = -1 /\ NoPress.btn = "none"
  BY DEF NoPress
<1>k. k.at = "idle" => ~Opens /\ ~Fresh
  BY DEF Opens, Fresh
<1>w. windows = Without(windows, {})
  BY <1>0 DEF Without
<1>1. CASE PickSlot
  BY <1>1, <1>p, PickMenu
<1>2. CASE FillSlot
  BY <1>2, <1>p, FillMenu
<1>3. CASE OpenedWindow
  BY <1>3, <1>p, <1>t, OpenedMenu
<1>4. CASE Restored
  <2> DEFINE shown == [windows EXCEPT ![k.win].min = FALSE]
  <2>1. k.at = "slide" /\ k.job = "restore" /\ k'.at = "idle" /\ UNCHANGED <<pressed, down>>
        /\ windows' = Without(shown, OfTypes(windows, MenuTypes))
    BY <1>4, KFields DEF Restored, Raise
  <2>2. \A v \in Slots : shown[v].active = windows[v].active /\ shown[v].type = windows[v].type
    BY <1>0 DEF WindowRecords
  <2> HIDE DEF shown
  <2>3. OfTypes(shown, MenuTypes) = OfTypes(windows, MenuTypes)
    BY <2>2 DEF OfTypes
  <2>4. Menus' = {}
    BY <2>1, <2>3, WithoutFacts DEF Menus
  <2>5. SlotsKept'
    <3>1. \A v \in Slots : ~shown[v].active => shown[v].type = "none" /\ ~shown[v].min
      <4>1. \A v \in Slots : shown[v].min => windows[v].min
        BY <1>0 DEF shown, WindowRecords
      <4> QED BY <4>1, <2>2, <1>p DEF MenuParts, SlotsKept
    <3>2. \A v \in Slots : ~windows'[v].active => windows'[v].type = "none" /\ ~windows'[v].min
      BY <3>1, <2>1, WithoutFacts
    <3>3. ~windows'[0].active
      BY <2>1, <2>2, <1>p, WithoutFacts, Sizes DEF MenuParts, SlotsKept
    <3> QED BY <3>2, <3>3, <2>1 DEF SlotsKept, Fresh
  <2>6. Armed'
    BY <2>1, <2>4, <1>p DEF MenuParts, Armed, Opens
  <2> QED BY <2>1, <2>4, <2>5, <2>6, NoMenus DEF Fresh
<1>5. CASE ClickedWindow
  BY <1>5, <1>p, <1>t, ClickedMenu
<1>6. CASE ClickedTerminal
  <2> DEFINE S == {k.win} \cup OfTypes(windows, {"app_menu"})
  <2>1. Raise /\ UNCHANGED pressed /\ windows' = Without(windows, S) /\ windows[k.win].type = "start_menu"
        /\ k'.at = "pick" /\ k'.job = "open" /\ k'.type = "terminal"
    BY <1>6, KFields DEF ClickedTerminal
  <2>2. k.win \in Slots /\ UNCHANGED down
    BY <2>1, <1>p, <1>t, RaiseMenu
  <2>3. k.win \in Starts /\ k.win \in Menus
    BY <2>1, <2>2, <1>p, MenusAre DEF MenuParts, SlotsKept
  <2>4. \A a \in Starts : a = k.win
    BY <2>3, <1>p, MenusAre DEF MenuParts, OneEach, Menus
  <2>5. Menus \ S = {}
    BY <2>4, MenusAre DEF AppMenus
  <2>6. Menus' = {} /\ SlotsKept'
    BY <2>1, <2>5, <1>p, MenusClose DEF MenuParts, Fresh
  <2>7. Armed'
    BY <2>1, <2>3, <1>p DEF MenuParts, Armed
  <2> QED BY <2>1, <2>6, <2>7, NoMenus DEF Fresh
<1>7. CASE ClickedApplications
  BY <1>7, <1>p, <1>t, ApplicationsMenu
<1>8. CASE ClickedProgram
  <2> DEFINE S == {k.win} \cup OfTypes(windows, {"start_menu"})
  <2>1. Raise /\ UNCHANGED pressed /\ windows' = Without(windows, S) /\ windows[k.win].type = "app_menu"
    BY <1>8 DEF ClickedProgram
  <2>2. /\ k'.at \in {"idle", "below", "pick"}
        /\ k'.at = "pick" => k'.job = "open" /\ k'.type \notin MenuTypes
        /\ k.job = "body"
    <3>1. [Idle EXCEPT !.at = "below"].at = "below"
      BY DEF Idle
    <3>2. k' = Idle \/ k' = [Idle EXCEPT !.at = "below"]
             \/ \E type \in {"app_gui", "terminal"} : k' = Opening(type, FreePid, -1)
      BY <1>8 DEF ClickedProgram
    <3>3. ASSUME NEW type \in {"app_gui", "terminal"}, k' = Opening(type, FreePid, -1)
          PROVE  k'.at = "pick" /\ k'.job = "open" /\ k'.type \notin MenuTypes
      BY <3>3, KFields DEF MenuTypes
    <3>4. k.job = "body"
      BY <1>8 DEF ClickedProgram
    <3> QED BY <3>1, <3>2, <3>3, <3>4, KFields
  <2>3. k.win \in Slots /\ UNCHANGED down /\ k.at = "slide"
    BY <2>1, <1>p, <1>t, RaiseMenu
  <2>4. k.win \in AppMenus /\ k.win \in Menus
    BY <2>1, <2>3, <1>p, MenusAre DEF MenuParts, SlotsKept
  <2>5. \A a \in AppMenus : a = k.win
    BY <2>4, <1>p, MenusAre DEF MenuParts, OneEach, Menus
  <2>6. Menus \ S = {}
    BY <2>5, MenusAre DEF Starts
  <2>7. Menus' = {} /\ SlotsKept'
    BY <2>1, <2>2, <2>6, <1>p, MenusClose DEF MenuParts, Fresh
  <2>8. Armed'
    BY <2>1, <2>2, <2>3, <2>4, <1>p DEF MenuParts, Armed
  <2> QED BY <2>2, <2>7, <2>8, NoMenus DEF Fresh, MenuTypes
<1>24. CASE OwnSlot
  BY <1>24, <1>p, OwnMenu
<1>25. CASE ClickGoesBelow
  <2>1. k.at = "below" /\ UNCHANGED <<windows, pressed, down>>
    BY <1>25 DEF ClickGoesBelow
  <2>2. k'.at = "idle" \/ (k'.at = "slide" /\ k'.job \in {"body", "close", "min"})
    BY <1>25, KFields DEF ClickGoesBelow, ClickJobs
  <2>3. Menus = {} /\ down
    BY <2>1, <1>p DEF MenuParts, RaisingMenu, Armed
  <2>4. Menus' = {} /\ ~Fresh' /\ ~Opens'
    BY <2>1, <2>2, <2>3 DEF Menus, Fresh, Opens
  <2>5. SlotsKept'
    BY <2>1, <2>2, <2>4, <1>p DEF MenuParts, SlotsKept
  <2>6. Armed'
    BY <2>1, <2>2, <2>3, <2>4 DEF Armed
  <2> QED BY <2>2, <2>4, <2>5, <2>6, NoMenus
<1>26. ASSUME NEW p \in Apps, CloseWindowsOf(p) PROVE MenuParts'
  <2>1. k.at = "scan" /\ k'.at = "reap" /\ UNCHANGED <<pressed, down>> /\ windows' = Without(windows, OwnedBy({p}))
    BY <1>0, <1>26 DEF CloseWindowsOf, KRecords
  <2>2. Menus = {} /\ ~Fresh' /\ ~Opens'
    BY <2>1, <1>p DEF MenuParts, RaisingMenu, Fresh, Opens
  <2>3. Menus' = {} /\ SlotsKept'
    BY <2>1, <2>2, <1>p, MenusClose DEF MenuParts
  <2>4. Armed'
    BY <2>1, <2>2, <2>3, <1>p DEF MenuParts, Armed
  <2> QED BY <2>1, <2>2, <2>3, <2>4, NoMenus
<1>27. CASE EndClient
  <2>1. k.at = "reap" /\ k'.at = "scan" /\ UNCHANGED <<pressed, down>> /\ windows' = Without(windows, {})
    BY <1>0, <1>27, <1>w DEF EndClient, KRecords
  <2>2. Menus = {} /\ ~Fresh' /\ ~Opens'
    BY <2>1, <1>p DEF MenuParts, RaisingMenu, Fresh, Opens
  <2>3. Menus' = {} /\ SlotsKept'
    BY <2>1, <2>2, <1>p, MenusClose DEF MenuParts
  <2>4. Armed'
    BY <2>1, <2>2, <2>3, <1>p DEF MenuParts, Armed
  <2> QED BY <2>1, <2>2, <2>3, <2>4, NoMenus
<1>28. CASE CloseLast
  <2>1. k.at = "scan" /\ k'.at = "idle" /\ UNCHANGED <<pressed, down>> /\ windows' = Without(windows, {k.win})
    BY <1>28, KFields DEF CloseLast
  <2>2. Menus = {} /\ ~Fresh' /\ ~Opens'
    BY <2>1, <1>p DEF MenuParts, RaisingMenu, Fresh, Opens
  <2>3. Menus' = {} /\ SlotsKept'
    BY <2>1, <2>2, <1>p, MenusClose DEF MenuParts
  <2>4. Armed'
    BY <2>1, <2>2, <2>3, <1>p DEF MenuParts, Armed
  <2> QED BY <2>1, <2>2, <2>3, <2>4, NoMenus
<1>9. CASE Sink
  <2>1. k.at = "sink" /\ k'.at = "idle" /\ UNCHANGED <<windows, pressed, down>>
    BY <1>9, KFields DEF Sink
  <2>2. Menus' = {} /\ SlotsKept'
    BY <2>1, <1>p DEF MenuParts, RaisingMenu, SlotsKept, Menus, Fresh
  <2>3. Armed'
    BY <2>1, <2>2, <1>p DEF MenuParts, Armed, Opens
  <2> QED BY <2>1, <2>2, <2>3, NoMenus DEF Fresh
<1>10. CASE PressStart
  <2>1. k.at = "idle" /\ ~down /\ UNCHANGED pressed /\ pressed = NoPress
    BY <1>10, <1>p DEF PressStart, PressBegins, MenuParts, Armed
  <2>2. CASE Starts # {}
    <3>1. windows' = Without(windows, Menus) /\ k' = k
      BY <2>2, <1>10 DEF PressStart, Starts, Menus
    <3>2. Menus' = {} /\ SlotsKept'
      BY <3>1, <2>1, <1>p, MenusClose DEF MenuParts, Fresh
    <3>3. Armed' /\ ~Fresh'
      BY <3>1, <2>1 DEF Armed, Fresh
    <3> QED BY <3>1, <3>2, <3>3, <2>1, NoMenus
  <2>3. CASE Starts = {}
    <3>1. windows' = windows /\ k'.at = "pick" /\ k'.job = "open" /\ k'.type = "start_menu"
      BY <2>3, <1>10, KFields DEF PressStart, Starts
    <3>2. Menus = {}
      BY <2>3, <1>p, MenusAre DEF MenuParts, StartFirst
    <3>3. Menus' = {} /\ SlotsKept'
      BY <3>1, <3>2, <1>p DEF MenuParts, SlotsKept, Menus, Fresh
    <3>4. Armed'
      BY <3>1, <2>1 DEF Armed
    <3> QED BY <3>1, <3>3, <3>4, NoMenus DEF Fresh
  <2> QED BY <2>2, <2>3
<1>11. CASE PressBar
  <2>1. k' = k /\ k.at = "idle" /\ down' = TRUE /\ windows' = Without(windows, Menus)
    BY <1>11 DEF PressBar, PressBegins, Menus
  <2>2. Menus' = {} /\ SlotsKept'
    BY <2>1, <1>p, MenusClose DEF MenuParts, Fresh
  <2>3. Armed'
    BY <2>1, <2>2 DEF Armed, Opens
  <2> QED BY <2>1, <2>2, <2>3, NoMenus DEF Fresh
<1>12. ASSUME NEW w \in Slots, PressTaskbar(w) PROVE MenuParts'
  <2>1. k'.at = "slide" /\ k'.job = "restore" /\ down' = TRUE /\ windows' = Without(windows, Menus)
    BY <1>12, KFields DEF PressTaskbar, PressBegins, Menus
  <2>2. Menus' = {} /\ SlotsKept'
    BY <2>1, <1>p, MenusClose DEF MenuParts, Fresh
  <2>3. Armed'
    BY <2>1, <2>2 DEF Armed, Opens
  <2> QED BY <2>1, <2>2, <2>3, NoMenus DEF Fresh
<1>13. ASSUME NEW under \in SUBSET Slots, PressWindow(under) PROVE MenuParts'
  BY <1>13, <1>p, <1>t, <1>0, PressMenu
<1>14. CASE ReleaseIdle
  BY <1>14, <1>p, <1>w, MenuFrame DEF ReleaseIdle, ReleaseBegins
<1>15. CASE ReleaseInfo
  <2>1. pressed # NoPress /\ pressed' = NoPress /\ UNCHANGED windows
    BY <1>15, <1>n DEF ReleaseInfo, ReleaseBegins
  <2>2. k'.at = "pick" /\ k'.job = "open" /\ k'.type # "app_menu"
    BY <1>15, KFields DEF ReleaseInfo
  <2>3. Menus' = {} /\ SlotsKept'
    BY <2>1, <2>2, <1>p DEF MenuParts, Armed, SlotsKept, Menus, Fresh
  <2>4. Armed'
    BY <2>1, <2>2 DEF Armed
  <2> QED BY <2>2, <2>3, <2>4, NoMenus DEF Fresh
<1>16. CASE ReleaseClose
  <2>1. pressed # NoPress /\ pressed' = NoPress /\ k'.at = "scan" /\ windows' = Without(windows, {})
    BY <1>16, <1>n, <1>w DEF ReleaseClose, ReleaseBegins, Idle
  <2>2. Menus = {} /\ ~Fresh'
    BY <2>1, <1>p DEF MenuParts, Armed, Fresh
  <2>3. Menus' = {} /\ SlotsKept'
    BY <2>1, <2>2, <1>p, MenusClose DEF MenuParts
  <2>4. Armed'
    BY <2>1 DEF Armed
  <2> QED BY <2>1, <2>2, <2>3, <2>4, NoMenus
<1>17. CASE ReleaseMin
  <2>1. pressed # NoPress /\ pressed' = NoPress /\ k'.at = "sink" /\ pressed.win \in Slots
    BY <1>17, <1>0, <1>n DEF ReleaseMin, ReleaseBegins, Idle
  <2>2. \A v \in Slots : windows'[v].active = windows[v].active /\ windows'[v].type = windows[v].type
    BY <1>17, <1>0, <2>1 DEF ReleaseMin, WindowRecords
  <2>3. Menus = {}
    BY <2>1, <1>p DEF MenuParts, Armed
  <2>4. Menus' = {} /\ SlotsKept'
    <3>1. \A v \in Slots : v # pressed.win => windows'[v] = windows[v]
      BY <1>17 DEF ReleaseMin
    <3>2. windows[pressed.win].active
      BY <1>17 DEF ReleaseMin
    <3>3. Menus' = {}
      BY <2>2, <2>3 DEF Menus, OfTypes
    <3> QED BY <3>1, <3>2, <3>3, <2>1, <2>2, <1>p, Sizes DEF MenuParts, SlotsKept, Fresh
  <2>5. Armed' /\ ~Fresh'
    BY <2>1 DEF Armed, Fresh
  <2> QED BY <2>1, <2>4, <2>5, NoMenus
<1>18. CASE RunGui
  <2>1. k.at = "idle" /\ UNCHANGED <<windows, pressed, down>> /\ k'.at = "pick" /\ k'.job = "open" /\ k'.type = "app_gui"
    BY <1>18, KFields DEF RunGui, CommandLine
  <2>2. Menus = {}
    BY <2>1, <1>18, <1>p DEF RunGui, CommandLine, MenuParts, Focused
  <2>3. Menus' = {} /\ SlotsKept'
    BY <2>1, <2>2, <1>p DEF MenuParts, SlotsKept, Menus, Fresh
  <2>4. Armed'
    BY <2>1, <2>3, <1>p DEF MenuParts, Armed, MenuTypes
  <2> QED BY <2>1, <2>3, <2>4, NoMenus DEF Fresh
<1>19. CASE RunText
  BY <1>19, <1>p, <1>w, MenuFrame DEF RunText
<1>20. ASSUME NEW p \in Apps, KillCommand(p) \/ Die(p) PROVE MenuParts'
  BY <1>20, <1>p, <1>w, MenuFrame DEF KillCommand, Die
<1>21. ASSUME NEW p \in Apps, Exit(p) PROVE MenuParts'
  <2>1. /\ windows' = Without(windows, OwnedBy({p}))
        /\ UNCHANGED <<window_order, global_active_win, pressed, down, k>>
    BY <1>21 DEF Exit
  <2>2. \A w \in OwnedBy({p}) : windows[w].owner # 0
    BY PidsPositive DEF OwnedBy
  <2>3. \A w \in Menus : ~(k.at = "own" /\ w = k.win) => w \notin OwnedBy({p})
    <3>1. \A w \in Menus : ~(k.at = "own" /\ w = k.win) => windows[w].owner = 0
      BY MenusAre DEF OwnInv, MenusAreKernels
    <3> QED BY <2>2, <3>1
  <2>4. CASE k.at = "own"
    BY <2>1, <2>2, <2>3, <2>4, <1>p, LostMenu
  <2>5. CASE k.at # "own"
    <3>1. OwnedBy({p}) \cap Menus = {}
      BY <2>3, <2>5
    <3> QED BY <2>1, <3>1, <1>p, MenuFrame
  <2> QED BY <2>4, <2>5
<1>22. ASSUME NEW p \in Apps, ChildWindow(p) PROVE MenuParts'
  <2>1. k.at \in Calm
    BY <1>22, <1>t DEF ChildWindow
  <2> QED BY <2>1, <1>22, <1>p, <1>t, <1>0, ChildMenu
<1>23. CASE UNCHANGED vars
  BY <1>23, <1>p, <1>w, MenuFrame DEF vars
<1> QED
  BY <1>1, <1>2, <1>3, <1>4, <1>5, <1>6, <1>7, <1>8, <1>9, <1>10, <1>11, <1>12, <1>13, <1>14,
     <1>15, <1>16, <1>17, <1>18, <1>19, <1>20, <1>21, <1>22, <1>23, <1>24, <1>25, <1>26, <1>27, <1>28
     DEF Next, Kernel

\* In a permutation ranks say who is ahead.
LEMMA RankOfIs ==
  ASSUME Permutations(window_order), NEW a \in Slots, NEW b \in Slots, Ahead(window_order, a, b)
  PROVE  RankOf(a) < RankOf(b)
<1>1. \A w \in Slots : RankOf(w) \in Ranks /\ window_order[RankOf(w)] = w
  BY EveryRanked DEF RankOf
<1> QED BY <1>1 DEF Ahead

LEMMA MenuAlways == Spec => []MenuInv
<1>1. MoveInv => TypeOK
  BY DEF MoveInv, OrderInv
<1> QED BY <1>1, MoveAlways, MenuInit, MenuNext, OwnInit, OwnNext, PTL DEF Spec

\* An open menu is in front of what is no menu (bring_to_front, 1749-1783).
THEOREM MenusStayInFront == Spec => []MenusInFront
<1>1. MoveInv /\ MenuInv => MenusInFront
  <2> SUFFICES ASSUME MoveInv, MenuInv, ~torn, k.at = "idle", NEW m \in Menus, NEW w \in Visible,
                      w # m, windows[w].type # "app_menu"
               PROVE  RankOf(m) < RankOf(w)
    BY DEF MenusInFront, Settled, Menus
  <2>1. w \in Slots /\ windows[w].active /\ m \in Slots
    BY MenusAre DEF Visible
  <2>2. Ahead(window_order, m, w)
    BY <2>1 DEF MenuInv, MenuParts, Fronted, Fresh, InFront, Menus
  <2>3. Permutations(window_order)
    BY PermutationNow DEF MoveInv
  <2> QED BY <2>1, <2>2, <2>3, RankOfIs
<1> QED BY <1>1, MoveAlways, MenuAlways, PTL

(***************************************************************************)
(* The terminal the kernel prints to.                                      *)
(***************************************************************************)
\* The window that is being opened or minimised has not its place yet.
Moving == IF Fresh \/ k.at = "sink" THEN {k.win} ELSE {}

\* The terminals that can be seen are ahead of the minimised ones.
TextFirst(win, order, X) ==
  \A v, u \in OfTypes(win, {"terminal"}) \ X : ~win[v].min /\ win[u].min => Ahead(order, v, u)

\* Only a restored window is raised while it is minimised.
RaisedShown ==
  /\ k.at = "own" \/ (k.at = "slide" /\ k.job # "restore") => ~windows[k.win].min
  /\ k.at = "sink" /\ windows[k.win].active => windows[k.win].min

TextParts == TextFirst(windows, window_order, Moving) /\ RaisedShown
TextInv == ~torn => TextParts

LEMMA TextInit == Init => TextInv
<1> SUFFICES ASSUME Init PROVE TextParts
  BY DEF TextInv
<1>1. k.at = "idle" /\ \A w \in Slots : ~windows[w].min
  BY DEF Init, Idle, Closed
<1> QED BY <1>1 DEF TextParts, TextFirst, RaisedShown, OfTypes

\* A step that leaves the order alone, and the windows that stay open and are not
\* on the move.
LEMMA TextKept ==
  ASSUME TextParts, UNCHANGED window_order, Moving \subseteq Moving', RaisedShown',
         \A w \in Slots : windows'[w].active /\ w \notin Moving' => windows'[w] = windows[w]
  PROVE  TextParts'
<1> SUFFICES ASSUME NEW v \in Slots, NEW u \in Slots, v \notin Moving', u \notin Moving',
                    windows'[v].active, windows'[u].active,
                    windows'[v].type = "terminal", windows'[u].type = "terminal",
                    ~windows'[v].min, windows'[u].min
             PROVE  Ahead(window_order, v, u)
  BY DEF TextParts, TextFirst, OfTypes
<1>1. windows[v] = windows'[v] /\ windows[u] = windows'[u] /\ v \notin Moving /\ u \notin Moving
  OBVIOUS
<1> QED BY <1>1 DEF TextParts, TextFirst, OfTypes

\* A window that can be seen is brought to the front.
LEMMA BringText ==
  ASSUME NEW order, Permutations(order), NEW win, NEW pos \in Ranks, NEW w \in Slots, order[pos] = w,
         NEW now, ~now[w].min, TextFirst(now, order, {w}),
         OfTypes(now, {"terminal"}) \subseteq OfTypes(win, {"terminal"})
  PROVE  TextFirst(now, BringToFront(order, win, pos, w), {})
<1> DEFINE s == BringToFront(order, win, pos, w)
           M == OfTypes(win, {"start_menu"}) \cup OfTypes(win, {"app_menu"})
<1>1. /\ \A v : v # w /\ v \notin M => Ahead(s, w, v)
      /\ \A a, b : a # w /\ b # w /\ b \notin M /\ Ahead(order, a, b) => Ahead(s, a, b)
  BY BringOrder
<1>2. \A v \in OfTypes(win, {"terminal"}) : v \notin M
  BY DEF OfTypes
<1> HIDE DEF s, M
<1>3. ASSUME NEW v \in OfTypes(now, {"terminal"}), NEW u \in OfTypes(now, {"terminal"}), ~now[v].min, now[u].min
      PROVE  Ahead(s, v, u)
  <2>1. u # w /\ u \notin M
    BY <1>2, <1>3
  <2>2. CASE v = w
    BY <2>1, <2>2, <1>1
  <2>3. CASE v # w
    <3>1. Ahead(order, v, u)
      BY <2>1, <2>3, <1>3 DEF TextFirst
    <3> QED BY <3>1, <2>1, <2>3, <1>1
  <2> QED BY <2>2, <2>3
<1> QED BY <1>3 DEF TextFirst, s

\* A raise of a window that is not minimised.
LEMMA RaiseText ==
  ASSUME MoveInv, TextParts, ~torn, Raise, k.job # "restore", NEW S,
         windows' = Without(windows, S), k'.at \in {"idle", "pick", "below"}
  PROVE  TextParts'
<1>1. k.at = "slide" /\ window_order' = BringToFront(window_order, windows, k.pos, k.win)
  BY DEF Raise
<1>2. /\ Permutations(window_order) /\ k.win \in Slots
      /\ k.pos \in Ranks /\ window_order[k.pos] = k.win
  BY <1>1, RankNow
<1>3. ~windows[k.win].min
  BY <1>1 DEF TextParts, RaisedShown
<1>4. TextFirst(windows, window_order, {k.win})
  BY <1>1 DEF TextParts, TextFirst, Moving
<1>5. TextFirst(windows, window_order', {})
  BY <1>1, <1>2, <1>3, <1>4, BringText
<1>6. \A w \in Slots : windows'[w].active => windows'[w] = windows[w]
  BY WithoutFacts
<1>7. Moving' = {} /\ RaisedShown'
  BY DEF Moving, Fresh, RaisedShown
<1>8. TextFirst(windows', window_order', {})
  BY <1>5, <1>6 DEF TextFirst, OfTypes
<1> QED BY <1>7, <1>8 DEF TextParts

LEMMA RestoreText == ASSUME TypeOK, MoveInv, TextParts, ~torn, Restored PROVE TextParts'
<1> DEFINE shown == [windows EXCEPT ![k.win].min = FALSE]
<1>0. windows \in [Slots -> WindowRecords]
  BY TypeShape
<1>1. /\ k.at = "slide" /\ window_order' = BringToFront(window_order, windows, k.pos, k.win)
      /\ k.job = "restore" /\ windows' = Without(shown, OfTypes(windows, MenuTypes)) /\ k'.at = "idle"
  BY KFields DEF Restored, Raise
<1>2. /\ Permutations(window_order) /\ k.win \in Slots
      /\ k.pos \in Ranks /\ window_order[k.pos] = k.win
  BY <1>1, RankNow
<1>3. /\ ~shown[k.win].min
      /\ \A v \in Slots : /\ shown[v].active = windows[v].active /\ shown[v].type = windows[v].type
                          /\ v # k.win => shown[v].min = windows[v].min
  BY <1>0, <1>2 DEF WindowRecords
<1> HIDE DEF shown
<1>4. OfTypes(shown, {"terminal"}) = OfTypes(windows, {"terminal"})
  BY <1>3 DEF OfTypes
<1>5. TextFirst(windows, window_order, {})
  BY <1>1 DEF TextParts, Moving, Fresh
<1>6. TextFirst(shown, window_order, {k.win})
  <2>1. \A v \in OfTypes(windows, {"terminal"}) : v \in Slots
    BY DEF OfTypes
  <2> QED BY <2>1, <1>3, <1>4, <1>5 DEF TextFirst
<1>7. TextFirst(shown, window_order', {})
  BY <1>1, <1>2, <1>3, <1>4, <1>6, BringText
<1>8. \A w \in Slots : windows'[w].active => windows'[w] = shown[w]
  BY <1>1, WithoutFacts
<1>9. Moving' = {} /\ RaisedShown'
  BY <1>1 DEF Moving, Fresh, RaisedShown
<1>10. TextFirst(windows', window_order', {})
  BY <1>7, <1>8 DEF TextFirst, OfTypes
<1> QED BY <1>9, <1>10 DEF TextParts

LEMMA SinkText == ASSUME MoveInv, TextParts, ~torn, Sink PROVE TextParts'
<1>1. /\ k.at = "sink" /\ window_order' = Sunk(window_order, k.pos, k.win) /\ windows' = windows /\ k'.at = "idle"
  BY KFields DEF Sink
<1>2. /\ Permutations(window_order) /\ k.win \in Slots
      /\ k.pos \in Ranks /\ window_order[k.pos] = k.win
  BY <1>1, RankNow
<1>3. /\ \A v : v # k.win => Ahead(window_order', v, k.win)
      /\ \A a, b : a # k.win /\ b # k.win /\ Ahead(window_order, a, b) => Ahead(window_order', a, b)
  BY <1>1, <1>2, SunkOrder
<1>4. ASSUME NEW v \in OfTypes(windows, {"terminal"}), NEW u \in OfTypes(windows, {"terminal"}),
             ~windows[v].min, windows[u].min
      PROVE  Ahead(window_order', v, u)
  <2>1. v # k.win
    BY <1>1, <1>4 DEF TextParts, RaisedShown, OfTypes
  <2>2. u # k.win => Ahead(window_order, v, u)
    BY <2>1, <1>1, <1>4 DEF TextParts, TextFirst, Moving
  <2> QED BY <2>1, <2>2, <1>3
<1> QED BY <1>1, <1>4 DEF TextParts, TextFirst, Moving, Fresh, RaisedShown

LEMMA ChildText ==
  ASSUME TypeOK, ~torn, OrderInv, MenuParts, TextParts, k.at \in Calm, NEW p \in Apps, ChildWindow(p)
  PROVE  TextParts'
<1> DEFINE w == FreeSlot(windows)
           pos == LastPos(window_order, w)
<1>0. /\ w \in Slots /\ ~windows[w].active
      /\ windows' = Owned(Claimed(windows, w, "app_gui"), w, p)
      /\ window_order' = BringToFront(window_order, windows', pos, w) /\ UNCHANGED k
  BY FreeSlotFound DEF ChildWindow
<1> HIDE DEF w
<1>t. windows \in [Slots -> WindowRecords]
  BY TypeShape
<1>1. Permutations(window_order)
  BY PermutationNow
<1>2. pos \in Ranks /\ window_order[pos] = w
  BY <1>0, <1>1, RankFound
<1> HIDE DEF pos
<1>3. /\ windows'[w].type = "app_gui" /\ ~windows'[w].min
      /\ \A v \in Slots : v # w => windows'[v] = windows[v]
  <2>1. ~windows[w].min
    BY <1>0 DEF MenuParts, SlotsKept
  <2> QED BY <2>1, <1>0, <1>t, ChildTyped
<1>f. Moving = {} /\ k.at \notin {"own", "slide", "sink"}
  BY DEF Moving, Fresh, Calm
<1>4. TextFirst(windows', window_order, {w})
  <2>1. TextFirst(windows, window_order, {})
    BY <1>f DEF TextParts
  <2> QED BY <2>1, <1>3 DEF TextFirst, OfTypes
<1>5. TextFirst(windows', window_order', {})
  BY <1>0, <1>1, <1>2, <1>3, <1>4, BringText
<1>6. Moving' = {} /\ RaisedShown'
  BY <1>0, <1>f DEF Moving, Fresh, RaisedShown
<1> QED BY <1>5, <1>6 DEF TextParts

LEMMA TextNext == TypeOK /\ MoveInv /\ MenuInv /\ TextInv /\ [Next]_vars => TextInv'
<1> SUFFICES ASSUME TypeOK, MoveInv, MenuInv, TextInv, [Next]_vars, ~torn' PROVE TextParts'
  BY DEF TextInv
<1>0. /\ windows \in [Slots -> WindowRecords] /\ k \in KRecords /\ OrderInv
      /\ pressed \in [win : Slots \cup {-1}, btn : Buttons]
  BY TypeShape DEF MoveInv
<1>t. ~torn
  BY TornStays
<1>p. TextParts /\ MenuParts
  BY <1>t DEF TextInv, MenuInv
<1>w. windows = Without(windows, {})
  BY <1>0 DEF Without
<1>i. k.at \in Calm \cup {"pick"} => Moving = {}
  BY DEF Moving, Fresh, Calm
<1>c. \* a step that only closes windows, while nothing is raised before or after it
      ASSUME UNCHANGED window_order, k.at \in Calm \cup {"pick"}, k'.at \in Calm \cup {"pick", "fill"},
             NEW S, windows' = Without(windows, S)
      PROVE  TextParts'
  <2>1. RaisedShown' /\ \A w \in Slots : windows'[w].active => windows'[w] = windows[w]
    BY <1>c, WithoutFacts DEF RaisedShown, Calm
  <2> QED BY <2>1, <1>c, <1>i, <1>p, TextKept
<1>s. \* and one that raises a window that can be seen
      ASSUME UNCHANGED window_order, k.at \in Calm, NEW w \in Visible, k'.at = "slide", k'.win = w,
             NEW S, windows' = Without(windows, S)
      PROVE  TextParts'
  <2>1. /\ \A v \in Slots : windows'[v].active => windows'[v] = windows[v]
        /\ \A v \in Slots : windows'[v].min => windows[v].min
    BY <1>s, WithoutFacts
  <2>2. w \in Slots /\ ~windows[w].min
    BY DEF Visible
  <2>3. RaisedShown'
    BY <1>s, <2>1, <2>2 DEF RaisedShown
  <2> QED BY <2>1, <2>3, <1>s, <1>i, <1>p, TextKept
<1>1. CASE PickSlot
  <2>1. k'.at \in {"idle", "fill"}
    BY <1>0, <1>1, KFields DEF PickSlot, KRecords
  <2> QED BY <2>1, <1>1, <1>w, <1>c DEF PickSlot, Calm
<1>2. CASE FillSlot
  <2>1. k.at = "fill" /\ k'.at = "own" /\ k'.win = k.win /\ k.win \in Slots /\ k.type \in Types
    BY <1>0, <1>2 DEF FillSlot, KRecords
  <2>2. /\ ~windows'[k.win].min
        /\ \A w \in Slots : w # k.win => windows'[w] = windows[w]
    <3>1. ~windows[k.win].min
      BY <2>1, <1>p DEF MenuParts, SlotsKept
    <3> QED BY <3>1, <1>0, <1>2, <2>1, OpenedTyped DEF FillSlot
  <2>3. Moving = {} /\ Moving' = {k.win} /\ RaisedShown'
    BY <2>1, <2>2 DEF Moving, Fresh, RaisedShown
  <2> QED BY <2>2, <2>3, <1>2, <1>p, TextKept DEF FillSlot
<1>13. CASE OwnSlot
  <2>1. /\ k.at = "own" /\ k'.at = "slide" /\ k'.win = k.win /\ k'.job = k.job /\ k.job = "open"
        /\ k.win \in Slots /\ k.owner \in 0 .. MaxProcesses - 1
    BY <1>0, <1>13, <1>p DEF OwnSlot, KRecords, MenuParts, OpeningMenu
  <2>2. /\ windows'[k.win].min = windows[k.win].min
        /\ \A w \in Slots : w # k.win => windows'[w] = windows[w]
    BY <1>0, <1>13, <2>1, OpenedTyped DEF OwnSlot
  <2>3. Moving = {k.win} /\ Moving' = {k.win} /\ RaisedShown'
    BY <2>1, <2>2, <1>p DEF TextParts, Moving, Fresh, RaisedShown
  <2> QED BY <2>2, <2>3, <1>13, <1>p, TextKept DEF OwnSlot
<1>14. CASE ClickGoesBelow
  <2>1. k.at = "below" /\ UNCHANGED <<windows, window_order>>
    BY <1>14 DEF ClickGoesBelow
  <2>2. CASE k' = Idle
    BY <2>1, <2>2, <1>w, <1>c, KFields DEF Calm
  <2>3. CASE k' # Idle
    <3>1. PICK w \in Visible : k'.at = "slide" /\ k'.win = w
      BY <1>14, <2>3, KFields DEF ClickGoesBelow
    <3> QED BY <3>1, <2>1, <1>w, <1>s DEF Calm
  <2> QED BY <2>2, <2>3
<1>15. CASE EndClient \/ CloseLast \/ \E p \in Apps : CloseWindowsOf(p)
  <2>1. k.at \in Calm /\ k'.at \in Calm /\ UNCHANGED window_order
    BY <1>0, <1>15, KFields DEF EndClient, CloseLast, CloseWindowsOf, KRecords, Calm
  <2>2. \E S : windows' = Without(windows, S)
    BY <1>15, <1>w DEF EndClient, CloseLast, CloseWindowsOf
  <2> QED BY <2>1, <2>2, <1>c
<1>3. CASE OpenedWindow \/ ClickedWindow \/ ClickedTerminal \/ ClickedApplications \/ ClickedProgram
  <2>1. Raise /\ k.job # "restore" /\ k'.at \in {"idle", "pick", "below"}
    <3>1. Raise /\ k.job # "restore"
      BY <1>3 DEF OpenedWindow, ClickedWindow, ClickedTerminal, ClickedApplications, ClickedProgram
    <3>2. OpenedWindow \/ ClickedWindow \/ ClickedTerminal \/ ClickedApplications => k'.at \in {"idle", "pick"}
      BY KFields DEF OpenedWindow, ClickedWindow, ClickedTerminal, ClickedApplications
    <3>3. ClickedProgram => k'.at \in {"idle", "pick", "below"}
      BY KFields DEF ClickedProgram, Idle
    <3> QED BY <1>3, <3>1, <3>2, <3>3
  <2>2. \E S : windows' = Without(windows, S)
    BY <1>3, <1>w DEF OpenedWindow, ClickedWindow, ClickedTerminal, ClickedApplications, ClickedProgram
  <2> QED BY <2>1, <2>2, <1>p, <1>t, RaiseText
<1>4. CASE Restored
  BY <1>4, <1>p, <1>t, RestoreText
<1>5. CASE Sink
  BY <1>5, <1>p, <1>t, SinkText
<1>6. CASE PressStart \/ PressBar \/ ReleaseIdle \/ ReleaseInfo \/ ReleaseClose \/ RunGui \/ RunText
  <2>1. k.at = "idle" /\ k'.at \in {"idle", "pick", "scan"} /\ UNCHANGED window_order
    <3>1. k.at = "idle" /\ UNCHANGED window_order
      BY <1>6 DEF PressStart, PressBar, ReleaseIdle, ReleaseInfo, ReleaseClose, RunGui, RunText,
         PressBegins, ReleaseBegins, CommandLine
    <3>2. ReleaseClose => k'.at = "scan"
      BY DEF ReleaseClose, Idle
    <3>3. PressStart \/ PressBar \/ ReleaseIdle \/ ReleaseInfo \/ RunGui \/ RunText =>
            k' = k \/ \E type, owner, parent : k' = Opening(type, owner, parent)
      BY DEF PressStart, PressBar, ReleaseIdle, ReleaseInfo, RunGui, RunText
    <3> QED BY <1>6, <3>1, <3>2, <3>3, KFields
  <2>2. \E S : windows' = Without(windows, S)
    BY <1>6, <1>w DEF PressStart, PressBar, ReleaseIdle, ReleaseInfo, ReleaseClose, RunGui, RunText
  <2> QED BY <2>1, <2>2, <1>c DEF Calm
<1>7. ASSUME NEW w \in Slots, PressTaskbar(w) PROVE TextParts'
  <2>1. k.at = "idle" /\ k'.at = "slide" /\ k'.job = "restore" /\ UNCHANGED window_order
    BY <1>7, KFields DEF PressTaskbar, PressBegins
  <2>2. RaisedShown' /\ \A v \in Slots : windows'[v].active => windows'[v] = windows[v]
    BY <2>1, <1>7, WithoutFacts DEF PressTaskbar, RaisedShown
  <2> QED BY <2>1, <2>2, <1>i, <1>p, TextKept DEF Calm
<1>8. ASSUME NEW under \in SUBSET Slots, PressWindow(under) PROVE TextParts'
  <2> DEFINE hits == {w \in under : \E r \in Ranks : window_order[r] = w}
  <2>1. k.at = "idle" /\ UNCHANGED window_order /\ under \subseteq Visible
    BY <1>8 DEF PressWindow, PressBegins
  <2>2. PICK S : windows' = Without(windows, S)
    BY <1>8, <1>w DEF PressWindow
  <2>4. CASE hits = {}
    <3>1. k' = k
      BY <2>4, <1>8 DEF PressWindow
    <3> QED BY <3>1, <2>1, <2>2, <1>c DEF Calm
  <2>5. CASE hits # {}
    <3>1. Topmost(hits) \in hits /\ Topmost(hits) \in Slots
      BY <2>5, <1>0, TopmostFound, TypeShape
    <3>2. k'.at = "slide" /\ k'.win = Topmost(hits)
      <4>1. PICK job \in ClickJobs(Topmost(hits)) : k' = Raising(Topmost(hits), job)
        BY <2>5, <1>8 DEF PressWindow
      <4> QED BY <4>1, KFields
    <3>3. Topmost(hits) \in Visible
      BY <3>1, <2>1
    <3> QED BY <3>2, <3>3, <2>1, <2>2, <1>s DEF Calm
  <2> QED BY <2>4, <2>5
<1>9. CASE ReleaseMin
  <2>1. /\ k.at = "idle" /\ k'.at = "sink" /\ k'.win = pressed.win /\ pressed.win \in Slots
        /\ UNCHANGED window_order
    BY <1>9, <1>0 DEF ReleaseMin, ReleaseBegins, Idle
  <2>2. /\ windows'[pressed.win].min
        /\ \A v \in Slots : v # pressed.win => windows'[v] = windows[v]
    BY <1>0, <1>9, <2>1 DEF ReleaseMin, WindowRecords
  <2>3. Moving' = {pressed.win} /\ RaisedShown'
    BY <2>1, <2>2 DEF Moving, RaisedShown
  <2> QED BY <2>1, <2>2, <2>3, <1>i, <1>p, TextKept DEF Calm
<1>10. ASSUME NEW p \in Apps, KillCommand(p) \/ Die(p) \/ Exit(p) \/ UNCHANGED vars PROVE TextParts'
  <2>1. k' = k /\ UNCHANGED window_order
    BY <1>10 DEF KillCommand, Die, Exit, vars
  <2>2. PICK S : windows' = Without(windows, S)
    BY <1>10, <1>w DEF KillCommand, Die, Exit, vars
  <2>3. \A v \in Slots : /\ windows'[v].active => windows'[v] = windows[v]
                         /\ windows'[v].min => windows[v].min
    BY <2>2, WithoutFacts
  <2>4. k.win \in Slots
    BY <1>0 DEF KRecords
  <2>5. RaisedShown' /\ Moving' = Moving
    BY <2>1, <2>3, <2>4, <1>p DEF TextParts, RaisedShown, Moving, Fresh
  <2> QED BY <2>1, <2>3, <2>5, <1>p, TextKept
<1>11. ASSUME NEW p \in Apps, ChildWindow(p) PROVE TextParts'
  <2>1. k.at \in Calm
    BY <1>11, <1>t DEF ChildWindow
  <2> QED BY <2>1, <1>11, <1>p, <1>t, <1>0, ChildText
<1>12. UNCHANGED vars => TextParts'
  <2>1. 1 \in Apps
    BY Sizes DEF Apps
  <2> QED BY <2>1, <1>10
<1> QED
  BY <1>1, <1>2, <1>3, <1>4, <1>5, <1>6, <1>7, <1>8, <1>9, <1>10, <1>11, <1>12, <1>13, <1>14, <1>15
     DEF Next, Kernel

\* get_active_term finds a terminal that can be seen, if there is one
\* (532-551): minimising moves a window behind all that are in sight (7131-7138).
THEOREM KernelTextShown == Spec => []KernelTextIsVisible
<1>1. MoveInv /\ TextInv => KernelTextIsVisible
  <2> DEFINE holds(r) == windows[window_order[r]].active /\ windows[window_order[r]].type = "terminal"
             F == {r \in Ranks : holds(r)}
  <2> SUFFICES ASSUME MoveInv, TextInv, ~torn, k.at = "idle", NEW v \in Visible, windows[v].type = "terminal"
               PROVE  ActiveTerm \in Visible
    BY DEF KernelTextIsVisible, Settled
  <2>1. Permutations(window_order) /\ v \in Slots /\ windows[v].active /\ ~windows[v].min
    BY PermutationNow DEF MoveInv, Visible
  <2>2. PICK q \in Ranks : window_order[q] = v
    BY <2>1, EveryRanked
  <2>3. F \subseteq 0 .. (MaxWindows - 1) /\ MaxWindows - 1 \in Int /\ q \in F
    BY <2>1, <2>2, Sizes DEF Ranks
  <2>4. PICK x \in F : \A y \in F : x <= y
    BY <2>3, MinExists
  <2> DEFINE t == CHOOSE r \in Ranks : holds(r) /\ \A y \in Ranks : holds(y) => r <= y
  <2>5. t \in Ranks /\ holds(t) /\ \A y \in Ranks : holds(y) => t <= y
    <3>1. \E r \in Ranks : holds(r) /\ \A y \in Ranks : holds(y) => r <= y
      BY <2>4
    <3> HIDE DEF holds
    <3> QED BY <3>1
  <2>6. ActiveTerm = window_order[t]
    BY <2>3 DEF ActiveTerm
  <2> HIDE DEF t
  <2>7. window_order[t] \in Slots
    BY <2>1, <2>5 DEF Permutations, Orders
  <2>8. CASE windows[window_order[t]].min
    <3>1. Ahead(window_order, v, window_order[t])
      BY <2>1, <2>5, <2>7, <2>8 DEF TextInv, TextParts, TextFirst, OfTypes, Moving, Fresh
    <3>2. q < t /\ t <= q
      BY <3>1, <2>2, <2>3, <2>5 DEF Ahead
    <3> QED BY <3>2, <2>2, <2>5, Sizes
  <2> QED BY <2>5, <2>6, <2>7, <2>8 DEF Visible
<1>2. MoveInv => TypeOK
  BY DEF MoveInv, OrderInv
<1> QED BY <1>1, <1>2, MoveAlways, MenuAlways, TextInit, TextNext, PTL DEF Spec
=============================================================================
