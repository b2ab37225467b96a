--------------------------- MODULE KeyboardProofs ---------------------------
(***************************************************************************)
(* Where a key goes, for any number of programs and any length of lines.   *)
(***************************************************************************)
EXTENDS Keyboard, FiniteRanges, SequenceTheorems

ProcessRecords == [kind : Kinds, waiting : 0 .. 2, idx : InputCells \cup {0}, ptr : BOOLEAN]
WindowRecords == [open : BOOLEAN, owner : Apps \cup {0}]
Lines == [buf : [TermCells -> Cells], len : 0 .. limits.term, cur : 0 .. limits.term]
Boxes == [text : [BoxCells -> Cells], focused : BOOLEAN, cur : BoxCells]
KeyRecords == [at : {"idle", "mail", "edit", "line", "app"}, ch : Keys, win : Windows,
               pid : Apps \cup {-1}, len : BoxCells, torn : BOOLEAN]
Mails == [full : BOOLEAN, to : SUBSET Apps, held : BOOLEAN]

\* Besides the types: the cursor of the command line is in it, and the last cell of
\* a textbox is never written, so that its text has an end.
Base ==
  /\ TypeOK
  /\ term.cur <= term.len
  /\ box.text[limits.box + 1] = NUL

LEMMA Sizes ==
  ASSUME limits \in Limits
  PROVE  /\ limits.term \in Nat /\ limits.box \in Nat /\ limits.input \in Nat /\ limits.apps \in Nat
         /\ limits.chars \subseteq Chars
         /\ 0 \in BoxCells /\ limits.box + 1 \in BoxCells /\ 0 \in TermCells
BY LimitsAssumption DEF BoxCells, TermCells

LEMMA NulIsNoChar == NUL \notin Chars /\ \A c \in Chars : c \notin {"enter", "back", "left", "right"}
BY CharsAssumption DEF NUL

LEMMA TypeNow ==
  ASSUME TypeOK
  PROVE  /\ limits \in Limits
         /\ proc \in [Apps -> ProcessRecords]
         /\ mem \in [Apps -> [InputCells -> Cells]]
         /\ typed \in [Apps -> Seq(Chars)]
         /\ gui \in WindowRecords /\ child \in WindowRecords
         /\ focus \in Windows
         /\ term \in Lines /\ box \in Boxes /\ key \in KeyRecords /\ mail \in Mails
         /\ down \in BOOLEAN
BY DEF TypeOK, ProcessRecords, WindowRecords, Lines, Boxes, KeyRecords, Mails

LEMMA TypeNext ==
  ASSUME limits \in Limits, limits' = limits,
         proc' \in [Apps -> ProcessRecords],
         mem' \in [Apps -> [InputCells -> Cells]],
         typed' \in [Apps -> Seq(Chars)],
         gui' \in WindowRecords, child' \in WindowRecords,
         focus' \in Windows,
         term' \in Lines, box' \in Boxes, key' \in KeyRecords, mail' \in Mails,
         down' \in BOOLEAN
  PROVE  TypeOK'
BY DEF TypeOK, ProcessRecords, WindowRecords, Lines, Boxes, KeyRecords, Mails,
       Apps, InputCells, TermCells, BoxCells

(***************************************************************************)
(* The parts of the state.                                                 *)
(***************************************************************************)
LEMMA ProcessTyped ==
  ASSUME NEW kind \in Kinds, NEW waiting \in 0 .. 2,
         NEW idx \in InputCells \cup {0}, NEW ptr \in BOOLEAN
  PROVE  Process(kind, waiting, idx, ptr) \in ProcessRecords
BY DEF Process, ProcessRecords

LEMMA ProcessFields ==
  ASSUME TypeOK, NEW p \in Apps
  PROVE  /\ proc[p].kind \in Kinds /\ proc[p].waiting \in 0 .. 2
         /\ proc[p].idx \in InputCells \cup {0} /\ proc[p].ptr \in BOOLEAN
BY TypeNow DEF ProcessRecords

LEMMA WokenTyped ==
  ASSUME TypeOK, NEW w
  PROVE  /\ Woken(w) \in [Apps -> ProcessRecords]
         /\ \A p \in Apps : /\ Woken(w)[p].kind = proc[p].kind
                            /\ Woken(w)[p].idx = proc[p].idx /\ Woken(w)[p].ptr = proc[p].ptr
                            /\ Woken(w)[p].waiting = proc[p].waiting
                                 \/ (proc[p].waiting = 2 /\ Woken(w)[p].waiting = 0)
<1>1. ASSUME NEW p \in Apps
      PROVE  /\ Woken(w)[p] \in ProcessRecords
             /\ Woken(w)[p].kind = proc[p].kind
             /\ Woken(w)[p].idx = proc[p].idx /\ Woken(w)[p].ptr = proc[p].ptr
             /\ Woken(w)[p].waiting = proc[p].waiting
                  \/ (proc[p].waiting = 2 /\ Woken(w)[p].waiting = 0)
  <2>1. CASE Woken(w)[p] = proc[p]
    BY <2>1, TypeNow
  <2>2. CASE /\ Woken(w)[p] = Process(proc[p].kind, 0, proc[p].idx, proc[p].ptr)
             /\ proc[p].waiting = 2
    <3>1. Process(proc[p].kind, 0, proc[p].idx, proc[p].ptr) \in ProcessRecords
      <4>1. 0 \in 0 .. 2
        OBVIOUS
      <4>2. /\ proc[p].kind \in Kinds
            /\ proc[p].idx \in InputCells \cup {0} /\ proc[p].ptr \in BOOLEAN
        BY ProcessFields
      <4> QED BY <4>1, <4>2, ProcessTyped
    <3> QED BY <2>2, <3>1 DEF Process
  <2> QED BY <2>1, <2>2 DEF Woken
<1>2. Woken(w) = [p \in Apps |-> Woken(w)[p]]
  BY DEF Woken
<1> QED BY <1>1, <1>2

LEMMA WindowTyped ==
  ASSUME NEW open \in BOOLEAN, NEW owner \in Apps \cup {0}
  PROVE  [open |-> open, owner |-> owner] \in WindowRecords
BY DEF WindowRecords

LEMMA KeyTyped ==
  ASSUME TypeOK, NEW at \in {"idle", "mail", "edit", "line", "app"}, NEW len \in BoxCells, NEW torn \in BOOLEAN
  PROVE  KeyAt(at, len, torn) \in KeyRecords
BY TypeNow DEF KeyAt, KeyRecords

LEMMA IdleTyped == ASSUME limits \in Limits PROVE Idle \in KeyRecords
BY Sizes DEF Idle, KeyRecords, Keys, Windows

LEMMA NoMailTyped == NoMail \in Mails
BY DEF NoMail, Mails

\* The program the handler finds is one of those the window belongs to.
LEMMA LastClient ==
  ASSUME limits \in Limits, NEW w, Clients(w) # {}
  PROVE  Max(Clients(w)) \in Clients(w)
<1>1. limits.apps \in Int /\ Clients(w) \subseteq 0 .. limits.apps
  BY Sizes DEF Clients, Apps
<1>2. \E x \in Clients(w) : \A y \in Clients(w) : y <= x
  BY <1>1, MaxExists
<1>3. \E x \in Clients(w) : \A y \in Clients(w) : x >= y
  BY <1>1, <1>2
<1> QED BY <1>3 DEF Max

(***************************************************************************)
(* Strings in arrays.                                                      *)
(***************************************************************************)
\* The first NUL is where the string ends.
LEMMA StrLenIs ==
  ASSUME NEW n \in Nat, NEW a, DOMAIN a = 0 .. n, NEW k \in 0 .. n,
         a[k] = NUL, \A i \in 0 .. n : i < k => a[i] # NUL
  PROVE  StrLen(a) = k
<1> DEFINE P(m) == /\ \A i \in DOMAIN a : i < m => a[i] # NUL
                   /\ m \in DOMAIN a => a[m] = NUL
           D == DOMAIN a \cup {Cardinality(DOMAIN a)}
<1>1. Cardinality(DOMAIN a) = n + 1
  <2>1. Cardinality(0 .. n) = n - 0 + 1
    BY FS_Interval
  <2> QED BY <2>1
<1>2. k \in D /\ P(k)
  OBVIOUS
<1>3. ASSUME NEW m \in D, P(m) PROVE m = k
  <2>1. m \in Nat
    BY <1>1
  <2>2. CASE m < k
    BY <2>1, <2>2, <1>3
  <2>3. CASE k < m
    BY <2>3, <1>3
  <2> QED BY <2>1, <2>2, <2>3
<1>4. StrLen(a) = CHOOSE m \in D : P(m)
  BY DEF StrLen
<1> HIDE DEF P, D
<1> QED BY <1>2, <1>3, <1>4

\* A text that has a NUL in it has a first one.
LEMMA StrLenFound ==
  ASSUME NEW n \in Nat, NEW a, DOMAIN a = 0 .. n, a[n] = NUL
  PROVE  /\ StrLen(a) \in 0 .. n /\ a[StrLen(a)] = NUL
         /\ \A i \in 0 .. n : i < StrLen(a) => a[i] # NUL
<1> DEFINE T == {i \in 0 .. n : a[i] = NUL}
<1>1. n \in Int /\ T \subseteq 0 .. n /\ T # {}
  OBVIOUS
<1>2. PICK k \in T : \A i \in T : k <= i
  <2> HIDE DEF T
  <2> QED BY <1>1, MinExists
<1>3. \A i \in 0 .. n : i < k => a[i] # NUL
  <2> SUFFICES ASSUME NEW i \in 0 .. n, i < k, a[i] = NUL PROVE FALSE
    OBVIOUS
  <2>1. i \in T
    OBVIOUS
  <2>2. k <= i
    BY <2>1, <1>2
  <2> QED BY <2>2
<1>4. StrLen(a) = k
  BY <1>3, StrLenIs
<1> QED BY <1>3, <1>4

(***************************************************************************)
(* Types.                                                                  *)
(***************************************************************************)
LEMMA BoxFields ==
  ASSUME TypeOK
  PROVE  /\ DOMAIN box.text = BoxCells /\ box.text \in [BoxCells -> Cells]
         /\ box.focused \in BOOLEAN /\ box.cur \in BoxCells
BY TypeNow DEF Boxes

LEMMA TermFields ==
  ASSUME TypeOK
  PROVE  /\ DOMAIN term.buf = TermCells /\ term.buf \in [TermCells -> Cells]
         /\ term.len \in 0 .. limits.term /\ term.cur \in 0 .. limits.term
BY TypeNow DEF Lines

LEMMA KeyFields ==
  ASSUME TypeOK
  PROVE  /\ key.at \in {"idle", "mail", "edit", "line", "app"} /\ key.ch \in Keys /\ key.win \in Windows
         /\ key.pid \in Apps \cup {-1} /\ key.len \in BoxCells /\ key.torn \in BOOLEAN
BY TypeNow DEF KeyRecords

LEMMA BoxLen ==
  ASSUME Base
  PROVE  /\ StrLen(box.text) \in BoxCells
         /\ box.text[StrLen(box.text)] = NUL
         /\ \A i \in BoxCells : i < StrLen(box.text) => box.text[i] # NUL
<1>1. TypeOK /\ limits \in Limits /\ box.text[limits.box + 1] = NUL
  BY TypeNow DEF Base
<1>2. limits.box + 1 \in Nat /\ DOMAIN box.text = 0 .. limits.box + 1 /\ BoxCells = 0 .. limits.box + 1
  BY <1>1, Sizes, BoxFields DEF BoxCells
<1> QED BY <1>1, <1>2, StrLenFound

LEMMA BoxInserted ==
  ASSUME Base, NEW len \in BoxCells, NEW c \in Chars
  PROVE  /\ BoxInsert(box, len, c) \in Boxes
         /\ BoxInsert(box, len, c).text[limits.box + 1] = NUL
<1> DEFINE a == box.text
           cur == box.cur
           new == [ShiftUp(a, cur, len) EXCEPT ![cur] = c]
<1>1. TypeOK /\ limits \in Limits /\ a[limits.box + 1] = NUL
  BY TypeNow DEF Base
<1>2. /\ limits.box \in Nat /\ DOMAIN a = BoxCells /\ BoxCells = 0 .. limits.box + 1
      /\ \A i \in BoxCells : a[i] \in Cells
      /\ box.focused \in BOOLEAN /\ cur \in BoxCells
  BY <1>1, Sizes, BoxFields DEF BoxCells
<1>3. CASE len >= limits.box \/ cur = limits.box + 1
  BY <1>1, <1>3, TypeNow DEF BoxInsert
<1>4. CASE ~(len >= limits.box \/ cur = limits.box + 1)
  <2>1. BoxInsert(box, len, c) = [text |-> new, focused |-> box.focused, cur |-> cur + 1]
    BY <1>4 DEF BoxInsert
  <2> HIDE DEF a, cur
  <2>2. /\ DOMAIN new = BoxCells
        /\ \A i \in BoxCells : new[i] = IF i = cur THEN c ELSE IF cur < i /\ i <= len + 1 THEN a[i - 1] ELSE a[i]
        /\ new = [i \in BoxCells |-> new[i]]
    BY <1>2 DEF ShiftUp
  <2> HIDE DEF new
  <2>3. ASSUME NEW i \in BoxCells PROVE new[i] \in Cells
    <3>1. CASE i = cur
      BY <3>1, <2>2 DEF Cells
    <3>2. CASE i # cur /\ cur < i /\ i <= len + 1
      <4>1. i - 1 \in BoxCells
        BY <3>2, <1>2
      <4> QED BY <3>2, <4>1, <2>2, <1>2
    <3>3. CASE i # cur /\ ~(cur < i /\ i <= len + 1)
      BY <3>3, <2>2, <1>2
    <3> QED BY <3>1, <3>2, <3>3
  <2>4. new \in [BoxCells -> Cells]
    BY <2>2, <2>3
  <2>5. cur + 1 \in BoxCells
    <3>1. cur \in 0 .. limits.box + 1 /\ cur # limits.box + 1
      BY <1>2, <1>4 DEF cur
    <3> QED BY <3>1, <1>2
  <2>6. new[limits.box + 1] = NUL
    <3>1. limits.box + 1 \in BoxCells /\ limits.box + 1 # cur /\ ~(limits.box + 1 <= len + 1)
      BY <1>2, <1>4 DEF cur
    <3> QED BY <3>1, <2>2, <1>1 DEF a
  <2>7. [text |-> new, focused |-> box.focused, cur |-> cur + 1] \in Boxes
    BY <2>4, <2>5, <1>2 DEF Boxes, cur
  <2> QED BY <2>1, <2>6, <2>7
<1> QED BY <1>3, <1>4

LEMMA BoxDeleted ==
  ASSUME Base, NEW len \in BoxCells
  PROVE  /\ BoxDelete(box, len) \in Boxes
         /\ BoxDelete(box, len).text[limits.box + 1] = NUL
<1> DEFINE a == box.text
           cur == box.cur
           new == ShiftDown(a, cur, len)
<1>1. TypeOK /\ limits \in Limits /\ a[limits.box + 1] = NUL
  BY TypeNow DEF Base
<1>2. /\ limits.box \in Nat /\ DOMAIN a = BoxCells /\ BoxCells = 0 .. limits.box + 1
      /\ \A i \in BoxCells : a[i] \in Cells
      /\ box.focused \in BOOLEAN /\ cur \in BoxCells
  BY <1>1, Sizes, BoxFields DEF BoxCells
<1>3. CASE cur = 0
  BY <1>1, <1>3, TypeNow DEF BoxDelete
<1>4. CASE cur # 0
  <2>1. BoxDelete(box, len) = [text |-> new, focused |-> box.focused, cur |-> cur - 1]
    BY <1>4 DEF BoxDelete
  <2> HIDE DEF a, cur
  <2>2. /\ DOMAIN new = BoxCells
        /\ \A i \in BoxCells : new[i] = IF cur <= i + 1 /\ i < len THEN a[i + 1] ELSE a[i]
        /\ new = [i \in BoxCells |-> new[i]]
    BY <1>2 DEF ShiftDown
  <2> HIDE DEF new
  <2>3. ASSUME NEW i \in BoxCells PROVE new[i] \in Cells
    <3>1. CASE cur <= i + 1 /\ i < len
      <4>1. i + 1 \in BoxCells
        BY <3>1, <1>2
      <4> QED BY <3>1, <4>1, <2>2, <1>2
    <3>2. CASE ~(cur <= i + 1 /\ i < len)
      BY <3>2, <2>2, <1>2
    <3> QED BY <3>1, <3>2
  <2>4. new \in [BoxCells -> Cells]
    BY <2>2, <2>3
  <2>5. cur - 1 \in BoxCells
    BY <1>2, <1>4 DEF cur
  <2>6. new[limits.box + 1] = NUL
    <3>1. limits.box + 1 \in BoxCells /\ ~(limits.box + 1 < len)
      BY <1>2
    <3> QED BY <3>1, <2>2, <1>1 DEF a
  <2>7. [text |-> new, focused |-> box.focused, cur |-> cur - 1] \in Boxes
    BY <2>4, <2>5, <1>2 DEF Boxes, cur
  <2> QED BY <2>1, <2>6, <2>7
<1> QED BY <1>3, <1>4

LEMMA TermInserted ==
  ASSUME Base, NEW c \in Chars, term.len < limits.term
  PROVE  TerminalChar(c) \in Lines /\ TerminalChar(c).cur <= TerminalChar(c).len
<1> DEFINE a == term.buf
           cur == term.cur
           len == term.len
           new == [ShiftUp(a, cur, len) EXCEPT ![cur] = c]
<1>1. TypeOK /\ limits \in Limits /\ cur <= len
  BY TypeNow DEF Base
<1>2. /\ limits.term \in Nat /\ DOMAIN a = TermCells /\ TermCells = 0 .. limits.term + 1
      /\ \A i \in TermCells : a[i] \in Cells
      /\ len \in 0 .. limits.term /\ cur \in 0 .. limits.term
  BY <1>1, Sizes, TermFields DEF TermCells
<1>3. TerminalChar(c) = [buf |-> new, len |-> len + 1, cur |-> cur + 1]
  BY DEF TerminalChar
<1>4. len + 1 \in 0 .. limits.term /\ cur + 1 \in 0 .. limits.term /\ cur + 1 <= len + 1
  BY <1>1, <1>2
<1> HIDE DEF a, cur, len
<1>5. /\ DOMAIN new = TermCells
      /\ \A i \in TermCells : new[i] = IF i = cur THEN c ELSE IF cur < i /\ i <= len + 1 THEN a[i - 1] ELSE a[i]
      /\ new = [i \in TermCells |-> new[i]]
  BY <1>2 DEF ShiftUp
<1> HIDE DEF new
<1>6. ASSUME NEW i \in TermCells PROVE new[i] \in Cells
  <2>1. CASE i = cur
    BY <2>1, <1>5 DEF Cells
  <2>2. CASE i # cur /\ cur < i /\ i <= len + 1
    <3>1. i - 1 \in TermCells
      BY <2>2, <1>2
    <3> QED BY <2>2, <3>1, <1>5, <1>2
  <2>3. CASE i # cur /\ ~(cur < i /\ i <= len + 1)
    BY <2>3, <1>5, <1>2
  <2> QED BY <2>1, <2>2, <2>3
<1>7. new \in [TermCells -> Cells]
  BY <1>5, <1>6
<1> QED BY <1>3, <1>4, <1>7 DEF Lines

LEMMA TermDeleted ==
  ASSUME Base, term.cur # 0
  PROVE  /\ [buf |-> ShiftDown(term.buf, term.cur, term.len), len |-> term.len - 1, cur |-> term.cur - 1] \in Lines
         /\ term.cur - 1 <= term.len - 1
<1> DEFINE a == term.buf
           cur == term.cur
           len == term.len
           new == ShiftDown(a, cur, len)
<1>1. TypeOK /\ limits \in Limits /\ cur <= len
  BY TypeNow DEF Base
<1>2. /\ limits.term \in Nat /\ DOMAIN a = TermCells /\ TermCells = 0 .. limits.term + 1
      /\ \A i \in TermCells : a[i] \in Cells
      /\ len \in 0 .. limits.term /\ cur \in 0 .. limits.term
  BY <1>1, Sizes, TermFields DEF TermCells
<1>4. len - 1 \in 0 .. limits.term /\ cur - 1 \in 0 .. limits.term /\ cur - 1 <= len - 1
  BY <1>1, <1>2
<1> HIDE DEF a, cur, len
<1>5. /\ DOMAIN new = TermCells
      /\ \A i \in TermCells : new[i] = IF cur <= i + 1 /\ i < len THEN a[i + 1] ELSE a[i]
      /\ new = [i \in TermCells |-> new[i]]
  BY <1>2 DEF ShiftDown
<1> HIDE DEF new
<1>6. ASSUME NEW i \in TermCells PROVE new[i] \in Cells
  <2>1. CASE cur <= i + 1 /\ i < len
    <3>1. i + 1 \in TermCells
      BY <2>1, <1>2
    <3> QED BY <2>1, <3>1, <1>5, <1>2
  <2>2. CASE ~(cur <= i + 1 /\ i < len)
    BY <2>2, <1>5, <1>2
  <2> QED BY <2>1, <2>2
<1>7. new \in [TermCells -> Cells]
  BY <1>5, <1>6
<1> QED BY <1>4, <1>7 DEF Lines, new, a, cur, len

LEMMA DrawnTyped ==
  ASSUME Base, NEW s \in Texts
  PROVE  Drawn(s) \in [BoxCells -> Cells] /\ Drawn(s)[limits.box + 1] = NUL /\ Len(s) \in 0 .. limits.box
<1>1. TypeOK /\ limits \in Limits /\ box.text[limits.box + 1] = NUL
  BY TypeNow DEF Base
<1>2. PICK n \in 0 .. limits.box : s \in [1 .. n -> limits.chars]
  BY DEF Texts
<1>3. limits.box \in Nat /\ limits.chars \subseteq Chars /\ BoxCells = 0 .. limits.box + 1
  BY <1>1, Sizes DEF BoxCells
<1>4. Len(s) = n
  BY <1>2, <1>3
<1>5. \A i \in BoxCells : box.text[i] \in Cells
  BY <1>1, BoxFields
<1>6. ASSUME NEW i \in BoxCells
      PROVE  (IF i < Len(s) THEN s[i + 1] ELSE IF i = Len(s) THEN NUL ELSE box.text[i]) \in Cells
  <2>1. CASE i < Len(s)
    <3>1. i + 1 \in 1 .. n
      BY <2>1, <1>3, <1>4
    <3>2. s[i + 1] \in Chars
      BY <3>1, <1>2, <1>3
    <3> QED BY <2>1, <3>2 DEF Cells
  <2>2. CASE ~(i < Len(s))
    BY <2>2, <1>5 DEF Cells
  <2> QED BY <2>1, <2>2
<1>7. Drawn(s) \in [BoxCells -> Cells]
  BY <1>6 DEF Drawn
<1>8. Drawn(s)[limits.box + 1] = NUL
  <2>1. limits.box + 1 \in BoxCells /\ ~(limits.box + 1 < Len(s))
    BY <1>3, <1>4
  <2> QED BY <2>1, <1>1 DEF Drawn
<1> QED BY <1>4, <1>7, <1>8

LEMMA BaseNext ==
  ASSUME limits \in Limits, limits' = limits,
         proc' \in [Apps -> ProcessRecords],
         mem' \in [Apps -> [InputCells -> Cells]],
         typed' \in [Apps -> Seq(Chars)],
         gui' \in WindowRecords, child' \in WindowRecords,
         focus' \in Windows,
         term' \in Lines, box' \in Boxes, key' \in KeyRecords, mail' \in Mails,
         down' \in BOOLEAN,
         term'.cur <= term'.len, box'.text[limits.box + 1] = NUL
  PROVE  Base'
BY TypeNext DEF Base

LEMMA BaseNow ==
  ASSUME Base
  PROVE  /\ TypeOK /\ limits \in Limits
         /\ proc \in [Apps -> ProcessRecords]
         /\ mem \in [Apps -> [InputCells -> Cells]]
         /\ typed \in [Apps -> Seq(Chars)]
         /\ gui \in WindowRecords /\ child \in WindowRecords
         /\ focus \in Windows
         /\ term \in Lines /\ box \in Boxes /\ key \in KeyRecords /\ mail \in Mails
         /\ down \in BOOLEAN
         /\ term.cur <= term.len /\ box.text[limits.box + 1] = NUL
BY TypeNow DEF Base

LEMMA StartsTyped ==
  ASSUME Base, NEW p \in Apps, NEW kind \in Kinds, Starts(p, kind)
  PROVE  /\ proc' \in [Apps -> ProcessRecords] /\ mem' \in [Apps -> [InputCells -> Cells]]
         /\ typed' \in [Apps -> Seq(Chars)] /\ gui' \in WindowRecords /\ focus' \in Windows
<1>1. Process(kind, 0, proc[p].idx, proc[p].ptr) \in ProcessRecords
  <2>1. 0 \in 0 .. 2
    OBVIOUS
  <2> QED BY <2>1, BaseNow, ProcessFields, ProcessTyped
<1>2. proc' \in [Apps -> ProcessRecords]
  BY <1>1, BaseNow DEF Starts
<1>3. mem' \in [Apps -> [InputCells -> Cells]]
  BY BaseNow DEF Starts, Cells
<1>4. typed' \in [Apps -> Seq(Chars)]
  BY BaseNow DEF Starts
<1>5. gui' \in WindowRecords
  BY BaseNow, WindowTyped DEF Starts
<1>6. focus' \in Windows
  BY BaseNow DEF Starts, Windows
<1> QED BY <1>2, <1>3, <1>4, <1>5, <1>6

LEMMA EndsTyped ==
  ASSUME Base, NEW S \in SUBSET Apps, Ends(S)
  PROVE  /\ proc' \in [Apps -> ProcessRecords] /\ mail' \in Mails
         /\ UNCHANGED <<limits, mem, typed, focus, term, box>>
<1>1. ASSUME NEW p \in Apps
      PROVE  Process("none", proc[p].waiting, proc[p].idx, proc[p].ptr) \in ProcessRecords
  <2>1. "none" \in Kinds
    BY DEF Kinds
  <2> QED BY <2>1, BaseNow, ProcessFields, ProcessTyped
<1>2. proc' \in [Apps -> ProcessRecords]
  BY <1>1, BaseNow DEF Ends
<1>3. mail' \in Mails
  BY BaseNow DEF Ends, Mails
<1> QED BY <1>2, <1>3 DEF Ends

LEMMA ClosesTyped ==
  ASSUME NEW w \in WindowRecords, NEW S
  PROVE  Closes(w, S) \in WindowRecords
<1>1. w.open \in BOOLEAN /\ w.owner \in Apps \cup {0}
  BY DEF WindowRecords
<1>2. (w.open /\ w.owner \notin S) \in BOOLEAN
  BY <1>1
<1> QED BY <1>1, <1>2, WindowTyped DEF Closes

LEMMA TypedAfterTyped ==
  ASSUME Base, NEW p \in Apps, NEW ch
  PROVE  TypedAfter(p, ch) \in Seq(Chars)
<1>1. typed[p] \in Seq(Chars)
  BY BaseNow
<1>2. SubSeq(typed[p], 1, Len(typed[p]) - 1) \in Seq(Chars)
  <2>1. Len(typed[p]) - 1 \in Int /\ \A i \in 1 .. Len(typed[p]) - 1 : typed[p][i] \in Chars
    BY <1>1
  <2> QED BY <2>1, SubSeqProperties
<1>3. ch \in Chars => Append(typed[p], ch) \in Seq(Chars)
  BY <1>1
<1> QED BY <1>1, <1>2, <1>3 DEF TypedAfter

\* The cursor that an arrow or a click leaves is between the two ends.
LEMMA MovedIs ==
  ASSUME NEW cur \in Nat, NEW len \in Nat, NEW ch
  PROVE  /\ Moved(cur, len, ch) \in Nat
         /\ Moved(cur, len, ch) <= IF cur <= len THEN len ELSE cur
BY DEF Moved

LEMMA InitBase == Init => Base
<1> SUFFICES ASSUME Init PROVE Base
  OBVIOUS
<1>1. limits \in Limits /\ limits \in {limits}
  BY DEF Init
<1>2. /\ 0 \in 0 .. 2 /\ 0 \in BoxCells /\ limits.box + 1 \in BoxCells
      /\ limits.term \in Nat
  BY <1>1, Sizes
<1>3. proc \in [Apps -> ProcessRecords]
  BY <1>2 DEF Init, Dead, ProcessRecords, Kinds
<1>4. mem \in [Apps -> [InputCells -> Cells]] /\ typed \in [Apps -> Seq(Chars)]
  BY DEF Init, Cells
<1>5. gui \in WindowRecords /\ child \in WindowRecords /\ focus \in Windows
  BY DEF Init, WindowRecords, Windows
<1>6. term \in Lines /\ term.cur <= term.len
  BY <1>2 DEF Init, Lines, Cells
<1>7. box \in Boxes /\ box.text[limits.box + 1] = NUL
  BY <1>2 DEF Init, Boxes, Cells
<1>8. key \in KeyRecords /\ mail \in Mails /\ down \in BOOLEAN
  BY <1>1, IdleTyped, NoMailTyped DEF Init
<1>9. TypeOK
  BY <1>1, <1>3, <1>4, <1>5, <1>6, <1>7, <1>8
     DEF TypeOK, ProcessRecords, WindowRecords, Lines, Boxes, KeyRecords, Mails
<1> QED BY <1>6, <1>7, <1>9 DEF Base

LEMMA PressTyped ==
  ASSUME Base, Press
  PROVE  mail' \in Mails /\ down' \in BOOLEAN /\ UNCHANGED <<limits, child, key>>
BY NoMailTyped DEF Press, PressedMail

LEMMA ProgramKeyTyped ==
  ASSUME Base, NEW p \in Apps, ProgramKey(p)
  PROVE  /\ typed' \in [Apps -> Seq(Chars)] /\ key' \in KeyRecords
         /\ UNCHANGED <<limits, gui, child, focus, term, box, mail, down>>
<1>1. TypedAfter(p, key.ch) \in Seq(Chars)
  BY TypedAfterTyped
<1>2. typed' \in [Apps -> Seq(Chars)]
  BY <1>1, BaseNow DEF ProgramKey
<1>3. key' \in KeyRecords
  BY BaseNow, IdleTyped DEF ProgramKey
<1> QED BY <1>2, <1>3 DEF ProgramKey

LEMMA KeyStepBase ==
  ASSUME Base,
         \/ \E ch \in Typed : KeyArrives(ch) \/ ArrowArrives(ch)
         \/ KeyMailed \/ KeyEdits \/ KeyForProgram \/ KeyLost
  PROVE  Base'
<1>1. CASE \E ch \in Typed : KeyArrives(ch)
  <2>1. PICK ch \in Typed : KeyArrives(ch)
    BY <1>1
  <2>2. key' \in KeyRecords
    <3>1. ch \in Keys /\ focus \in Windows /\ 0 \in BoxCells
      BY BaseNow, Sizes DEF Typed, Keys
    <3>2. (IF Clients(focus) = {} THEN -1 ELSE Max(Clients(focus))) \in Apps \cup {-1}
      BY BaseNow, LastClient DEF Clients
    <3> QED BY <2>1, <3>1, <3>2 DEF KeyArrives, KeyRecords
  <2>3. proc' \in [Apps -> ProcessRecords]
    BY <2>1, BaseNow, WokenTyped DEF KeyArrives
  <2> QED BY <2>1, <2>2, <2>3, BaseNow, BaseNext DEF KeyArrives
<1>2. CASE \E ch \in Typed : ArrowArrives(ch)
  <2>1. PICK ch \in Typed : ArrowArrives(ch)
    BY <1>2
  <2>2. proc' \in [Apps -> ProcessRecords]
    BY <2>1, BaseNow, WokenTyped DEF ArrowArrives
  <2>3. box' \in Boxes /\ box'.text[limits.box + 1] = NUL
    <3>1. CASE box' = box
      BY <3>1, BaseNow
    <3>2. CASE box' = [text |-> box.text, focused |-> TRUE, cur |-> Moved(box.cur, StrLen(box.text), ch)]
      <4>1. box.cur \in BoxCells /\ StrLen(box.text) \in BoxCells /\ box.text \in [BoxCells -> Cells]
        BY BaseNow, BoxFields, BoxLen
      <4>2. limits.box \in Nat
        BY BaseNow, Sizes
      <4>3. Moved(box.cur, StrLen(box.text), ch) \in BoxCells
        BY <4>1, <4>2, MovedIs DEF BoxCells
      <4> QED BY <3>2, <4>1, <4>3, BaseNow DEF Boxes
    <3> QED BY <2>1, <3>1, <3>2 DEF ArrowArrives
  <2>4. term' \in Lines /\ term'.cur <= term'.len
    <3>1. CASE term' = term
      BY <3>1, BaseNow
    <3>2. CASE term' = [buf |-> term.buf, len |-> term.len, cur |-> Moved(term.cur, term.len, ch)]
      <4>1. term.cur \in 0 .. limits.term /\ term.len \in 0 .. limits.term /\ term.buf \in [TermCells -> Cells]
        BY BaseNow, TermFields
      <4>2. limits.term \in Nat
        BY BaseNow, Sizes
      <4>3. Moved(term.cur, term.len, ch) \in 0 .. limits.term /\ Moved(term.cur, term.len, ch) <= term.len
        BY <4>1, <4>2, BaseNow, MovedIs
      <4> QED BY <3>2, <4>1, <4>3 DEF Lines
    <3> QED BY <2>1, <3>1, <3>2 DEF ArrowArrives
  <2> QED BY <2>1, <2>2, <2>3, <2>4, BaseNow, BaseNext DEF ArrowArrives
<1>3. CASE KeyMailed
  <2>1. mail' \in Mails
    BY <1>3, BaseNow, NoMailTyped DEF KeyMailed, Mails, Clients
  <2>2. key' \in KeyRecords
    <3>1. StrLen(box.text) \in BoxCells /\ 0 \in BoxCells
      BY BaseNow, Sizes, BoxLen
    <3>2. KeyAt("edit", StrLen(box.text), FALSE) \in KeyRecords /\ KeyAt("line", 0, FALSE) \in KeyRecords
      BY <3>1, BaseNow, KeyTyped
    <3> QED BY <1>3, <3>2 DEF KeyMailed
  <2> QED BY <1>3, <2>1, <2>2, BaseNow, BaseNext DEF KeyMailed
<1>4. CASE KeyEdits
  <2>1. key.len \in BoxCells /\ 0 \in BoxCells
    BY BaseNow, Sizes, KeyFields
  <2>2. box' \in Boxes /\ box'.text[limits.box + 1] = NUL
    BY <1>4, <2>1, BaseNow, BoxInserted, BoxDeleted DEF KeyEdits
  <2>3. key' \in KeyRecords
    BY <1>4, <2>1, BaseNow, KeyTyped DEF KeyEdits
  <2> QED BY <1>4, <2>2, <2>3, BaseNow, BaseNext DEF KeyEdits
<1>5. CASE KeyForProgram
  <2>1. key' \in KeyRecords
    BY <1>5, BaseNow, Sizes, KeyTyped DEF KeyForProgram
  <2> QED BY <1>5, <2>1, BaseNow, BaseNext DEF KeyForProgram
<1>6. CASE KeyLost
  <2>1. key' \in KeyRecords
    BY <1>6, BaseNow, IdleTyped DEF KeyLost
  <2> QED BY <1>6, <2>1, BaseNow, BaseNext DEF KeyLost
<1> QED BY <1>1, <1>2, <1>3, <1>4, <1>5, <1>6

LEMMA ProgramKeyStepBase ==
  ASSUME Base, NEW p \in Apps,
         ProgramEnter(p) \/ ProgramBack(p) \/ ProgramChar(p) \/ ProgramIgnores(p)
  PROVE  Base'
<1>1. ProgramKey(p)
  BY DEF ProgramEnter, ProgramBack, ProgramChar, ProgramIgnores
<1>2. /\ typed' \in [Apps -> Seq(Chars)] /\ key' \in KeyRecords
      /\ UNCHANGED <<limits, gui, child, focus, term, box, mail, down>>
  BY <1>1, ProgramKeyTyped
<1>3. /\ proc[p].kind \in Kinds /\ proc[p].waiting \in 0 .. 2
      /\ proc[p].idx \in InputCells \cup {0} /\ proc[p].ptr \in BOOLEAN
      /\ proc[p] \in ProcessRecords
      /\ limits.input \in Nat /\ InputCells = 0 .. limits.input - 1
  BY BaseNow, ProcessFields, Sizes DEF InputCells
<1>4. CASE ProgramEnter(p)
  <2>1. Process(proc[p].kind, 0, proc[p].idx, proc[p].ptr) \in ProcessRecords
    <3>1. 0 \in 0 .. 2
      OBVIOUS
    <3> QED BY <3>1, <1>3, ProcessTyped
  <2>2. proc' \in [Apps -> ProcessRecords]
    BY <1>4, <2>1, BaseNow DEF ProgramEnter
  <2>3. mem' \in [Apps -> [InputCells -> Cells]]
    BY <1>4, BaseNow DEF ProgramEnter, Cells
  <2> QED BY <1>2, <2>2, <2>3, BaseNow, BaseNext
<1>5. CASE ProgramBack(p)
  <2>1. proc[p].idx - 1 \in InputCells \cup {0}
    BY <1>3, <1>5 DEF ProgramBack
  <2>2. Process(proc[p].kind, proc[p].waiting, proc[p].idx - 1, proc[p].ptr) \in ProcessRecords
    BY <2>1, <1>3, ProcessTyped
  <2>3. proc' \in [Apps -> ProcessRecords]
    BY <1>5, <2>2, BaseNow DEF ProgramBack
  <2>4. mem' \in [Apps -> [InputCells -> Cells]]
    BY <1>5, BaseNow DEF ProgramBack, Cells
  <2> QED BY <1>2, <2>3, <2>4, BaseNow, BaseNext
<1>6. CASE ProgramChar(p)
  <2>1. proc[p].idx + 1 \in InputCells \cup {0}
    BY <1>3, <1>6 DEF ProgramChar, Fits, InputMax
  <2>2. Process(proc[p].kind, proc[p].waiting, proc[p].idx + 1, proc[p].ptr) \in ProcessRecords
    BY <2>1, <1>3, ProcessTyped
  <2>3. proc' \in [Apps -> ProcessRecords]
    BY <1>6, <2>2, BaseNow DEF ProgramChar
  <2>4. mem' \in [Apps -> [InputCells -> Cells]]
    BY <1>6, BaseNow DEF ProgramChar, Cells
  <2> QED BY <1>2, <2>3, <2>4, BaseNow, BaseNext
<1>7. CASE ProgramIgnores(p)
  BY <1>2, <1>7, BaseNow, BaseNext DEF ProgramIgnores
<1> QED BY <1>4, <1>5, <1>6, <1>7

LEMMA TerminalStepBase ==
  ASSUME Base, TerminalBack \/ TerminalInsert \/ TerminalEnter
  PROVE  Base'
<1>1. key' \in KeyRecords
  BY BaseNow, IdleTyped DEF TerminalBack, TerminalInsert, TerminalEnter, TerminalKey
<1>2. UNCHANGED <<limits, child, box, mail, down>>
  BY DEF TerminalBack, TerminalInsert, TerminalEnter
<1>3. /\ proc' \in [Apps -> ProcessRecords] /\ mem' \in [Apps -> [InputCells -> Cells]]
      /\ typed' \in [Apps -> Seq(Chars)] /\ gui' \in WindowRecords /\ focus' \in Windows
  <2>1. CASE StartsNothing
    BY <2>1, BaseNow DEF StartsNothing
  <2>2. CASE \E p \in Apps, kind \in {"text", "run"} : Starts(p, kind)
    <3>1. PICK p \in Apps, kind \in {"text", "run"} : Starts(p, kind)
      BY <2>2
    <3>2. kind \in Kinds
      BY DEF Kinds
    <3> QED BY <3>1, <3>2, StartsTyped
  <2> QED BY <2>1, <2>2 DEF TerminalBack, TerminalInsert, TerminalEnter
<1>4. term' \in Lines /\ term'.cur <= term'.len
  <2>1. CASE TerminalBack
    BY <2>1, BaseNow, TermDeleted DEF TerminalBack
  <2>2. CASE TerminalInsert
    BY <2>2, BaseNow, TermInserted DEF TerminalInsert
  <2>3. CASE TerminalEnter
    <3>0. term.len \in 0 .. limits.term /\ term.cur \in 0 .. limits.term /\ term.cur <= term.len
      BY BaseNow, TermFields
    <3>1. [term.buf EXCEPT ![term.len] = NUL] \in [TermCells -> Cells]
      BY BaseNow, TermFields DEF Cells
    <3>2. 0 \in 0 .. limits.term
      BY BaseNow, Sizes
    <3>3. CASE term' = TerminalSent
      BY <3>1, <3>2, <3>3 DEF TerminalSent, Lines
    <3>4. CASE term' = TerminalRefused
      BY <3>0, <3>1, <3>4 DEF TerminalRefused, Lines
    <3> QED BY <2>3, <3>3, <3>4 DEF TerminalEnter
  <2> QED BY <2>1, <2>2, <2>3
<1> QED BY <1>1, <1>2, <1>3, <1>4, BaseNow, BaseNext

LEMMA PressStepBase ==
  ASSUME Base, PressElsewhere \/ PressTerminal \/ PressGui \/ PressChild \/ PressProgram
  PROVE  Base'
<1>1. mail' \in Mails /\ down' \in BOOLEAN /\ UNCHANGED <<limits, child, key>>
  BY PressTyped DEF PressElsewhere, PressTerminal, PressGui, PressChild, PressProgram
<1>2. /\ PacketWakes => proc' \in [Apps -> ProcessRecords]
      /\ {"term", "gui", "child"} \subseteq Windows
  BY BaseNow, WokenTyped DEF PacketWakes, Windows
<1>3. CASE PressElsewhere
  BY <1>1, <1>2, <1>3, BaseNow, BaseNext DEF PressElsewhere
<1>4. CASE PressTerminal
  <2>1. PICK cur \in 0 .. term.len : term' = [buf |-> term.buf, len |-> term.len, cur |-> cur]
    BY <1>4 DEF PressTerminal
  <2>2. term' \in Lines /\ term'.cur <= term'.len
    <3>1. limits.term \in Nat /\ term.len \in 0 .. limits.term /\ term.buf \in [TermCells -> Cells]
      BY BaseNow, Sizes, TermFields
    <3>2. cur \in 0 .. limits.term /\ cur <= term.len
      BY <3>1
    <3> QED BY <2>1, <3>1, <3>2 DEF Lines
  <2> QED BY <1>1, <1>2, <1>4, <2>2, BaseNow, BaseNext DEF PressTerminal
<1>5. CASE PressGui
  <2>1. box' \in Boxes /\ box'.text[limits.box + 1] = NUL
    <3>1. StrLen(box.text) \in BoxCells /\ limits.box \in Nat
      BY BaseNow, BoxLen, Sizes
    <3>2. ASSUME NEW cur \in 0 .. StrLen(box.text) PROVE cur \in BoxCells
      BY <3>1 DEF BoxCells
    <3>3. box.text \in [BoxCells -> Cells] /\ box.cur \in BoxCells
      BY BaseNow, BoxFields
    <3>4. ASSUME NEW cur \in BoxCells, NEW f \in BOOLEAN
          PROVE  [text |-> box.text, focused |-> f, cur |-> cur] \in Boxes
      BY <3>3 DEF Boxes
    <3>5. CASE \E cur \in 0 .. StrLen(box.text) : box' = [text |-> box.text, focused |-> TRUE, cur |-> cur]
      <4>1. PICK cur \in 0 .. StrLen(box.text) : box' = [text |-> box.text, focused |-> TRUE, cur |-> cur]
        BY <3>5
      <4>2. cur \in BoxCells /\ TRUE \in BOOLEAN
        BY <3>2
      <4>3. box' \in Boxes
        BY <4>1, <4>2, <3>4
      <4> QED BY <4>1, <4>3, BaseNow
    <3>6. CASE box' = [text |-> box.text, focused |-> FALSE, cur |-> box.cur]
      <4>1. FALSE \in BOOLEAN
        OBVIOUS
      <4>2. box' \in Boxes
        BY <4>1, <3>3, <3>4, <3>6
      <4> QED BY <3>6, <4>2, BaseNow
    <3> QED BY <1>5, <3>5, <3>6 DEF PressGui
  <2> QED BY <1>1, <1>2, <1>5, <2>1, BaseNow, BaseNext DEF PressGui
<1>6. CASE PressChild
  BY <1>1, <1>2, <1>6, BaseNow, BaseNext DEF PressChild
<1>7. CASE PressProgram
  <2>1. PICK p \in Apps : Starts(p, "menu")
    BY <1>7 DEF PressProgram
  <2>2. /\ proc' \in [Apps -> ProcessRecords] /\ mem' \in [Apps -> [InputCells -> Cells]]
        /\ typed' \in [Apps -> Seq(Chars)] /\ gui' \in WindowRecords /\ focus' \in Windows
    BY <2>1, StartsTyped DEF Kinds
  <2> QED BY <1>1, <1>7, <2>2, BaseNow, BaseNext DEF PressProgram
<1> QED BY <1>3, <1>4, <1>5, <1>6, <1>7

LEMMA ReleaseStepBase ==
  ASSUME Base, MouseMoves \/ ReleaseElsewhere \/ ReleaseInfo \/ ReleaseClose \/ ReleaseCloseChild
  PROVE  Base'
<1>1. PacketWakes => proc' \in [Apps -> ProcessRecords]
  BY BaseNow, WokenTyped DEF PacketWakes
<1>2. CASE MouseMoves
  BY <1>1, <1>2, BaseNow, BaseNext DEF MouseMoves
<1>3. CASE ReleaseElsewhere
  BY <1>1, <1>3, BaseNow, BaseNext DEF ReleaseElsewhere, Release
<1>4. CASE ReleaseInfo
  <2>1. PICK p \in Apps : Starts(p, "menu")
    BY <1>4 DEF ReleaseInfo
  <2>2. /\ proc' \in [Apps -> ProcessRecords] /\ mem' \in [Apps -> [InputCells -> Cells]]
        /\ typed' \in [Apps -> Seq(Chars)] /\ gui' \in WindowRecords /\ focus' \in Windows
    BY <2>1, StartsTyped DEF Kinds
  <2> QED BY <1>4, <2>2, BaseNow, BaseNext DEF ReleaseInfo, Release
<1>5. CASE ReleaseClose
  <2> DEFINE S == {p \in Apps : Alive(p) /\ Linked(p) = "gui"}
  <2>1. /\ Ends(S) /\ gui' = [open |-> FALSE, owner |-> gui.owner] /\ child' = Closes(child, S)
        /\ down' = FALSE /\ key' = key
    BY <1>5 DEF ReleaseClose
  <2>2. S \in SUBSET Apps
    OBVIOUS
  <2> HIDE DEF S
  <2>3. /\ proc' \in [Apps -> ProcessRecords] /\ mail' \in Mails
        /\ UNCHANGED <<limits, mem, typed, focus, term, box>>
    BY <2>1, <2>2, EndsTyped
  <2>4. gui' \in WindowRecords
    <3>1. gui.owner \in Apps \cup {0} /\ FALSE \in BOOLEAN
      BY BaseNow DEF WindowRecords
    <3> QED BY <2>1, <3>1, WindowTyped
  <2>5. child' \in WindowRecords
    BY <2>1, BaseNow, ClosesTyped
  <2> QED BY <2>1, <2>3, <2>4, <2>5, BaseNow, BaseNext
<1>6. CASE ReleaseCloseChild
  <2>1. child' \in WindowRecords
    <3>1. child.owner \in Apps \cup {0} /\ FALSE \in BOOLEAN
      BY BaseNow DEF WindowRecords
    <3> QED BY <1>6, <3>1, WindowTyped DEF ReleaseCloseChild
  <2> QED BY <1>1, <1>6, <2>1, BaseNow, BaseNext DEF ReleaseCloseChild, Release
<1> QED BY <1>2, <1>3, <1>4, <1>5, <1>6

LEMMA ProgramStepBase ==
  ASSUME Base, NEW p \in Apps,
         Read(p) \/ Yield(p) \/ GetKey(p) \/ ChildWindow(p) \/ Exit(p) \/ \E s \in Texts : Draw(p, s)
  PROVE  Base'
<1>1. /\ proc[p].kind \in Kinds /\ proc[p].idx \in InputCells \cup {0} /\ proc[p].ptr \in BOOLEAN
      /\ proc[p] \in ProcessRecords
  BY BaseNow, ProcessFields
<1>2. CASE Read(p)
  <2>1. Began(proc[p]) \in ProcessRecords
    <3>1. 1 \in 0 .. 2 /\ 0 \in InputCells \cup {0} /\ TRUE \in BOOLEAN
      OBVIOUS
    <3> QED BY <1>1, <3>1, ProcessTyped DEF Began
  <2>2. proc' \in [Apps -> ProcessRecords] /\ typed' \in [Apps -> Seq(Chars)]
    BY <1>2, <2>1, BaseNow DEF Read
  <2> QED BY <1>2, <2>2, BaseNow, BaseNext DEF Read
<1>3. CASE Yield(p)
  <2>1. Process(proc[p].kind, 2, proc[p].idx, proc[p].ptr) \in ProcessRecords
    <3>1. 2 \in 0 .. 2
      OBVIOUS
    <3> QED BY <1>1, <3>1, ProcessTyped
  <2>2. proc' \in [Apps -> ProcessRecords]
    BY <1>3, <2>1, BaseNow DEF Yield
  <2> QED BY <1>3, <2>2, BaseNow, BaseNext DEF Yield
<1>4. CASE GetKey(p)
  BY <1>4, NoMailTyped, BaseNow, BaseNext DEF GetKey
<1>5. CASE ChildWindow(p)
  <2>1. child' \in WindowRecords /\ focus' \in Windows
    <3>1. TRUE \in BOOLEAN /\ p \in Apps \cup {0}
      OBVIOUS
    <3> QED BY <1>5, <3>1, WindowTyped DEF ChildWindow, Windows
  <2> QED BY <1>5, <2>1, BaseNow, BaseNext DEF ChildWindow
<1>6. CASE Exit(p)
  <2>1. {p} \in SUBSET Apps /\ Ends({p}) /\ UNCHANGED <<key, down>>
    BY <1>6 DEF Exit
  <2>2. /\ proc' \in [Apps -> ProcessRecords] /\ mail' \in Mails
        /\ UNCHANGED <<limits, mem, typed, focus, term, box>>
    BY <2>1, EndsTyped
  <2>3. gui' \in WindowRecords /\ child' \in WindowRecords
    BY <1>6, BaseNow, ClosesTyped DEF Exit
  <2> QED BY <2>1, <2>2, <2>3, BaseNow, BaseNext
<1>7. CASE \E s \in Texts : Draw(p, s)
  <2>1. PICK s \in Texts : Draw(p, s)
    BY <1>7
  <2>2. box' \in Boxes /\ box'.text[limits.box + 1] = NUL
    BY <2>1, DrawnTyped, BaseNow, BoxFields DEF Draw, Boxes
  <2>3. key' \in KeyRecords
    <3>1. key.len \in BoxCells
      BY BaseNow, KeyFields
    <3> QED BY <2>1, <3>1, BaseNow, KeyTyped DEF Draw
  <2> QED BY <2>1, <2>2, <2>3, BaseNow, BaseNext DEF Draw
<1> QED BY <1>2, <1>3, <1>4, <1>5, <1>6, <1>7

LEMMA BaseStep == Base /\ [Next]_vars => Base'
<1> SUFFICES ASSUME Base, [Next]_vars PROVE Base'
  OBVIOUS
<1>1. CASE Kernel
  BY <1>1, KeyStepBase, ProgramKeyStepBase, TerminalStepBase, PressStepBase, ReleaseStepBase DEF Kernel
<1>2. CASE Programs
  BY <1>2, ProgramStepBase DEF Programs
<1>3. CASE UNCHANGED vars
  BY <1>3, BaseNow, BaseNext DEF vars
<1> QED BY <1>1, <1>2, <1>3 DEF Next

LEMMA LimitsKept == ASSUME Base, [Next]_vars PROVE limits' = limits
<1>1. CASE Kernel
  <2>1. CASE \E ch \in Typed : KeyArrives(ch) \/ ArrowArrives(ch)
    BY <2>1 DEF KeyArrives, ArrowArrives
  <2>2. CASE KeyMailed \/ KeyEdits \/ KeyForProgram \/ KeyLost
    BY <2>2 DEF KeyMailed, KeyEdits, KeyForProgram, KeyLost
  <2>3. CASE \E p \in Apps : ProgramEnter(p) \/ ProgramBack(p) \/ ProgramChar(p) \/ ProgramIgnores(p)
    BY <2>3 DEF ProgramEnter, ProgramBack, ProgramChar, ProgramIgnores, ProgramKey
  <2>4. CASE TerminalBack \/ TerminalInsert \/ TerminalEnter
    BY <2>4 DEF TerminalBack, TerminalInsert, TerminalEnter
  <2>5. CASE PressElsewhere \/ PressTerminal \/ PressGui \/ PressChild \/ PressProgram
    BY <2>5 DEF PressElsewhere, PressTerminal, PressGui, PressChild, PressProgram, Press
  <2>6. CASE MouseMoves \/ ReleaseElsewhere \/ ReleaseInfo \/ ReleaseClose \/ ReleaseCloseChild
    BY <2>6 DEF MouseMoves, ReleaseElsewhere, ReleaseInfo, ReleaseClose, ReleaseCloseChild, Release, Ends
  <2> QED BY <1>1, <2>1, <2>2, <2>3, <2>4, <2>5, <2>6 DEF Kernel
<1>2. CASE Programs
  BY <1>2 DEF Programs, Read, Yield, GetKey, ChildWindow, Exit, Ends, Draw
<1>3. CASE UNCHANGED vars
  BY <1>3 DEF vars
<1> QED BY <1>1, <1>2, <1>3 DEF Next

LEMMA BaseAlways == Spec => []Base
BY InitBase, BaseStep, PTL DEF Spec

\* The variables keep their types, whatever is typed, clicked and run.
THEOREM TypeCorrect == Spec => []TypeOK
<1>1. Base => TypeOK
  BY DEF Base
<1> QED BY <1>1, BaseAlways, PTL

(***************************************************************************)
(* The key in the handler's hands, and the buffers of the programs.        *)
(***************************************************************************)
\* A program the handler is about to write to waits, and goes on waiting: only the
\* handler and the mouse, both of pid 0, wake it.
KeyInv == key.at = "app" => key.pid \in Apps /\ Waits(key.pid)

\* Every step of pid 0 either works with the key at hand, or has none.
LEMMA KernelCases ==
  ASSUME Kernel
  PROVE  \/ key.at = "idle" /\ UNCHANGED key
         \/ \E ch \in Typed : KeyArrives(ch)
         \/ KeyMailed \/ KeyEdits \/ KeyForProgram
         \/ key.at \in {"line", "app"} /\ key' = Idle
<1>1. CASE \E ch \in Typed : KeyArrives(ch) \/ ArrowArrives(ch)
  BY <1>1 DEF ArrowArrives
<1>2. CASE KeyMailed \/ KeyEdits \/ KeyForProgram
  BY <1>2
<1>3. CASE KeyLost
  BY <1>3 DEF KeyLost
<1>4. CASE \E p \in Apps : ProgramEnter(p) \/ ProgramBack(p) \/ ProgramChar(p) \/ ProgramIgnores(p)
  BY <1>4 DEF ProgramEnter, ProgramBack, ProgramChar, ProgramIgnores, ProgramKey
<1>5. CASE TerminalBack \/ TerminalInsert \/ TerminalEnter
  BY <1>5 DEF TerminalBack, TerminalInsert, TerminalEnter, TerminalKey
<1>6. CASE PressElsewhere \/ PressTerminal \/ PressGui \/ PressChild \/ PressProgram
  BY <1>6 DEF PressElsewhere, PressTerminal, PressGui, PressChild, PressProgram, Press
<1>7. CASE MouseMoves \/ ReleaseElsewhere \/ ReleaseInfo \/ ReleaseClose \/ ReleaseCloseChild
  BY <1>7 DEF MouseMoves, ReleaseElsewhere, ReleaseInfo, ReleaseClose, ReleaseCloseChild, Release
<1> QED BY <1>1, <1>2, <1>3, <1>4, <1>5, <1>6, <1>7 DEF Kernel

LEMMA KeyInvStep == Base /\ KeyInv /\ [Next]_vars => KeyInv'
<1> SUFFICES ASSUME Base, KeyInv, [Next]_vars, key'.at = "app"
             PROVE  key'.pid \in Apps' /\ proc'[key'.pid].waiting > 0
  BY DEF KeyInv, Waits
<1>1. CASE Kernel
  <2>1. KeyForProgram
    <3>1. /\ key.at = "idle" /\ UNCHANGED key => key'.at # "app"
          /\ KeyMailed => key'.at # "app"
          /\ KeyEdits => key'.at # "app"
          /\ key' = Idle => key'.at # "app"
      BY DEF KeyMailed, KeyEdits, KeyAt, Idle
    <3>2. (\E ch \in Typed : KeyArrives(ch)) => key'.at # "app"
      BY DEF KeyArrives
    <3> QED BY <1>1, <3>1, <3>2, KernelCases
  <2>2. key'.pid = key.pid /\ key.pid \in Apps /\ Waits(key.pid) /\ Apps' = Apps /\ proc' = proc
    <3>1. key.pid \in Apps \cup {-1}
      BY BaseNow, KeyFields
    <3> QED BY <2>1, <3>1 DEF KeyForProgram, KeyAt, Apps
  <2> QED BY <2>2 DEF Waits
<1>2. CASE Programs
  <2>1. PICK p \in Apps : \/ Read(p) \/ Yield(p) \/ GetKey(p) \/ ChildWindow(p) \/ Exit(p)
                          \/ \E s \in Texts : Draw(p, s)
    BY <1>2 DEF Programs
  <2>2. key' = key /\ limits' = limits
    BY <2>1 DEF Read, Yield, GetKey, ChildWindow, Exit, Ends, Draw, KeyAt
  <2>3. key.pid \in Apps /\ Waits(key.pid) /\ Apps' = Apps /\ proc[key.pid].waiting \in 0 .. 2
    BY <2>2, BaseNow, ProcessFields DEF KeyInv, Apps
  <2>4. proc'[key.pid].waiting = proc[key.pid].waiting
    <3>1. CASE Read(p) \/ Yield(p)
      <4>1. p # key.pid
        BY <3>1, <2>3 DEF Read, Yield, Runs, Waits
      <4> QED BY <3>1, <4>1, <2>3, BaseNow DEF Read, Yield
    <3>2. CASE Exit(p)
      BY <3>2, <2>3 DEF Exit, Ends, Process
    <3>3. CASE GetKey(p) \/ ChildWindow(p) \/ \E s \in Texts : Draw(p, s)
      BY <3>3 DEF GetKey, ChildWindow, Draw
    <3> QED BY <2>1, <3>1, <3>2, <3>3
  <2> QED BY <2>2, <2>3, <2>4 DEF Waits
<1>3. CASE UNCHANGED vars
  BY <1>3 DEF vars, KeyInv, Waits, Apps
<1> QED BY <1>1, <1>2, <1>3 DEF Next

LEMMA KeyInvAlways == Spec => []KeyInv
<1>1. Init => KeyInv
  BY DEF Init, KeyInv, Idle
<1> QED BY <1>1, KeyInvStep, BaseAlways, PTL DEF Spec

LEMMA FreeIsDead == ASSUME NEW p, NEW kind, Starts(p, kind) PROVE ~Alive(p)
BY DEF Starts, FreePid

\* The memory of a program is written for a key that is for it, or for the program
\* that takes its place.
LEMMA MemoryWritten ==
  ASSUME Base, [Next]_vars, NEW p \in Apps, Alive(p)
  PROVE  mem'[p] = mem[p] \/ (key.at = "app" /\ p = key.pid)
<1>1. CASE \E q \in Apps : ProgramEnter(q) \/ ProgramBack(q) \/ ProgramChar(q) \/ ProgramIgnores(q)
  <2>1. PICK q \in Apps : ProgramEnter(q) \/ ProgramBack(q) \/ ProgramChar(q) \/ ProgramIgnores(q)
    BY <1>1
  <2>2. key.at = "app" /\ q = key.pid
    BY <2>1 DEF ProgramEnter, ProgramBack, ProgramChar, ProgramIgnores, ProgramKey
  <2>3. p # q => mem'[p] = mem[p]
    BY <2>1, BaseNow DEF ProgramEnter, ProgramBack, ProgramChar, ProgramIgnores
  <2> QED BY <2>2, <2>3
<1>2. CASE \E q \in Apps, kind \in Kinds : Starts(q, kind)
  <2>1. PICK q \in Apps, kind \in Kinds : Starts(q, kind)
    BY <1>2
  <2>2. p # q
    BY <2>1, FreeIsDead
  <2> QED BY <2>1, <2>2, BaseNow DEF Starts
<1>3. CASE mem' = mem
  BY <1>3
<1>4. CASE Kernel
  <2>1. CASE TerminalBack \/ TerminalInsert
    BY <2>1, <1>3 DEF TerminalBack, TerminalInsert, StartsNothing
  <2>2. CASE TerminalEnter
    BY <2>2, <1>2, <1>3 DEF TerminalEnter, StartsNothing, Kinds
  <2>3. CASE PressProgram \/ ReleaseInfo
    BY <2>3, <1>2 DEF PressProgram, ReleaseInfo, Kinds
  <2>4. CASE PressElsewhere \/ PressTerminal \/ PressGui \/ PressChild \/ MouseMoves
    BY <2>4, <1>3 DEF PressElsewhere, PressTerminal, PressGui, PressChild, MouseMoves
  <2>5. CASE ReleaseElsewhere \/ ReleaseClose \/ ReleaseCloseChild
    BY <2>5, <1>3 DEF ReleaseElsewhere, ReleaseClose, ReleaseCloseChild, Ends
  <2>6. CASE \E ch \in Typed : KeyArrives(ch) \/ ArrowArrives(ch)
    BY <2>6, <1>3 DEF KeyArrives, ArrowArrives
  <2>7. CASE KeyMailed \/ KeyEdits \/ KeyForProgram \/ KeyLost
    BY <2>7, <1>3 DEF KeyMailed, KeyEdits, KeyForProgram, KeyLost
  <2> QED BY <1>1, <1>4, <2>1, <2>2, <2>3, <2>4, <2>5, <2>6, <2>7 DEF Kernel
<1>5. CASE Programs
  BY <1>5, <1>3 DEF Programs, Read, Yield, GetKey, ChildWindow, Exit, Ends, Draw
<1>6. CASE UNCHANGED vars
  BY <1>6, <1>3 DEF vars
<1> QED BY <1>4, <1>5, <1>6 DEF Next

\* The buffer of a running program is its own: between the look at
\* waiting_for_input and the write nothing can set it going.
THEOREM BuffersAreSafe == Spec => RunningUntouched
<1> DEFINE A == \A p \in Apps : Alive(p) /\ Alive(p)' /\ proc[p].waiting = 0 => mem'[p] = mem[p]
<1>1. Base /\ KeyInv /\ [Next]_vars => [A]_vars
  <2> SUFFICES ASSUME Base, KeyInv, [Next]_vars, NEW p \in Apps, Alive(p), proc[p].waiting = 0
               PROVE  mem'[p] = mem[p]
    OBVIOUS
  <2>1. ~(key.at = "app" /\ p = key.pid)
    BY DEF KeyInv, Waits
  <2> QED BY <2>1, MemoryWritten
<1>2. RunningUntouched <=> [][A]_vars
  BY DEF RunningUntouched
<1> HIDE DEF A
<1> QED BY <1>1, <1>2, BaseAlways, KeyInvAlways, PTL DEF Spec

(***************************************************************************)
(* The mailbox.                                                            *)
(***************************************************************************)
\* A key that lies in the mailbox, and was not typed with the button down, is for
\* every program of the window in front: a press empties the mailbox, a program
\* that is started by a command finds it empty, and one that is started by a
\* release follows a press.
MailInv ==
  /\ key.at = "mail" => key.win = focus \/ focus = "child"
  /\ key.at \in {"edit", "line", "app"} /\ key.pid = -1 => ~mail.full
  /\ mail.full /\ ~mail.held => ~down /\ \A p \in Apps : Alive(p) /\ Linked(p) = focus => p \in mail.to

LEMMA LinkedIs == ASSUME NEW p PROVE Linked(p) \in {"term", "gui"} /\ Linked(p) # "child" /\ Linked(p) # "none"
BY DEF Linked

\* What leaves the kinds of the programs, the focus, the button and the mailbox
\* alone has only the key to answer for.
LEMMA MailFrame ==
  ASSUME MailInv, \A p \in Apps : proc'[p].kind = proc[p].kind,
         UNCHANGED <<limits, focus, mail, down>>,
         key'.at = "mail" => key'.win = focus \/ focus = "child",
         key'.at \in {"edit", "line", "app"} =>
           key'.pid = key.pid /\ key.at \in {"edit", "line", "app"}
  PROVE  MailInv'
BY DEF MailInv, Alive, Linked, Apps

LEMMA MailInvKeys ==
  ASSUME Base, MailInv,
         \/ \E ch \in Typed : KeyArrives(ch) \/ ArrowArrives(ch)
         \/ KeyMailed \/ KeyEdits \/ KeyForProgram \/ KeyLost
  PROVE  MailInv'
<1>1. \A p \in Apps : Woken(focus)[p].kind = proc[p].kind
  BY BaseNow, WokenTyped
<1>2. CASE \E ch \in Typed : KeyArrives(ch)
  <2>1. PICK ch \in Typed : KeyArrives(ch)
    BY <1>2
  <2> QED BY <1>1, <2>1, MailFrame DEF KeyArrives
<1>3. CASE \E ch \in Typed : ArrowArrives(ch)
  <2>1. PICK ch \in Typed : ArrowArrives(ch)
    BY <1>3
  <2> QED BY <1>1, <2>1, MailFrame DEF ArrowArrives
<1>4. CASE KeyMailed
  <2>1. /\ key.at = "mail" /\ key'.at \in {"edit", "line"} /\ key'.pid = key.pid
        /\ mail' = IF key.pid > 0 THEN [full |-> TRUE, to |-> Clients(key.win), held |-> down] ELSE NoMail
        /\ UNCHANGED <<limits, proc, focus, down>>
    BY <1>4 DEF KeyMailed, KeyAt
  <2>2. key.pid = -1 => ~mail'.full
    BY <2>1 DEF NoMail
  <2>3. ASSUME mail'.full, ~mail'.held, NEW p \in Apps, Alive(p), Linked(p) = focus
        PROVE  ~down /\ p \in mail'.to
    <3>1. key.win = focus /\ focus # "none"
      BY <2>1, <2>3, LinkedIs DEF MailInv
    <3>2. p \in Clients(key.win)
      BY <3>1, <2>3 DEF Clients
    <3> QED BY <2>1, <2>3, <3>2 DEF NoMail
  <2>4. mail'.full /\ ~mail'.held => ~down
    BY <2>1 DEF NoMail
  <2> QED BY <2>1, <2>2, <2>3, <2>4 DEF MailInv, Alive, Linked, Apps
<1>5. CASE KeyEdits \/ KeyForProgram \/ KeyLost
  BY <1>5, MailFrame DEF KeyEdits, KeyForProgram, KeyLost, KeyAt, Idle
<1> QED BY <1>2, <1>3, <1>4, <1>5

LEMMA MailInvKernel == ASSUME Base, MailInv, Kernel PROVE MailInv'
<1>1. PacketWakes => \A p \in Apps : proc'[p].kind = proc[p].kind
  BY BaseNow, WokenTyped DEF PacketWakes
<1>2. CASE \E p \in Apps : ProgramEnter(p) \/ ProgramBack(p) \/ ProgramChar(p) \/ ProgramIgnores(p)
  <2>1. PICK p \in Apps : ProgramEnter(p) \/ ProgramBack(p) \/ ProgramChar(p) \/ ProgramIgnores(p)
    BY <1>2
  <2>2. key' = Idle /\ UNCHANGED <<limits, focus, mail, down>>
    BY <2>1 DEF ProgramEnter, ProgramBack, ProgramChar, ProgramIgnores, ProgramKey
  <2>3. \A q \in Apps : proc'[q].kind = proc[q].kind
    BY <2>1, BaseNow DEF ProgramEnter, ProgramBack, ProgramChar, ProgramIgnores, Process
  <2> QED BY <2>2, <2>3, MailFrame DEF Idle
<1>3. CASE TerminalBack \/ TerminalInsert \/ TerminalEnter
  <2>1. TerminalKey /\ UNCHANGED <<mail, down>>
    BY <1>3 DEF TerminalBack, TerminalInsert, TerminalEnter
  <2>2. ~mail.full
    BY <2>1 DEF TerminalKey, MailInv
  <2>3. key' = Idle
    BY <2>1 DEF TerminalKey
  <2> QED BY <2>1, <2>2, <2>3 DEF MailInv, Idle
<1>4. CASE PressElsewhere \/ PressTerminal \/ PressGui \/ PressChild \/ PressProgram
  BY <1>4 DEF PressElsewhere, PressTerminal, PressGui, PressChild, PressProgram, Press, PressedMail, NoMail, MailInv
<1>5. CASE MouseMoves
  BY <1>1, <1>5, MailFrame DEF MouseMoves
<1>6. CASE ReleaseElsewhere \/ ReleaseInfo \/ ReleaseClose \/ ReleaseCloseChild
  <2>1. key.at = "idle" /\ down /\ key' = key /\ mail'.full = mail.full /\ mail'.held = mail.held
    BY <1>6 DEF ReleaseElsewhere, ReleaseInfo, ReleaseClose, ReleaseCloseChild, Release, Ends
  <2> QED BY <2>1 DEF MailInv
<1> QED BY <1>2, <1>3, <1>4, <1>5, <1>6, MailInvKeys DEF Kernel

LEMMA MailInvPrograms == ASSUME Base, MailInv, Programs PROVE MailInv'
<1>1. PICK p \in Apps : \/ Read(p) \/ Yield(p) \/ GetKey(p) \/ ChildWindow(p) \/ Exit(p)
                        \/ \E s \in Texts : Draw(p, s)
  BY DEF Programs
<1>2. CASE Read(p) \/ Yield(p)
  <2>1. \A q \in Apps : proc'[q].kind = proc[q].kind
    <3>1. CASE Read(p)
      BY <3>1, BaseNow DEF Read, Began, Process
    <3>2. CASE Yield(p)
      BY <3>2, BaseNow DEF Yield, Process
    <3> QED BY <1>2, <3>1, <3>2
  <2>2. UNCHANGED <<limits, focus, key, mail, down>>
    BY <1>2 DEF Read, Yield
  <2> QED BY <2>1, <2>2, MailFrame DEF MailInv
<1>3. CASE GetKey(p)
  BY <1>3 DEF GetKey, NoMail, MailInv
<1>4. CASE ChildWindow(p)
  <2>1. focus' = "child" /\ UNCHANGED <<limits, proc, key, mail, down>>
    BY <1>4 DEF ChildWindow
  <2>2. \A q : Linked(q)' # "child"
    BY DEF Linked
  <2> QED BY <2>1, <2>2 DEF MailInv
<1>5. CASE Exit(p)
  <2>1. /\ \A q \in Apps : q # p => proc'[q].kind = proc[q].kind
        /\ proc'[p].kind = "none"
        /\ mail' = [full |-> mail.full, to |-> mail.to \ {p}, held |-> mail.held]
        /\ UNCHANGED <<limits, focus, key, down>>
    BY <1>5 DEF Exit, Ends, Process
  <2>2. \A q \in Apps : Alive(q)' /\ Linked(q)' = focus =>
          q # p /\ Alive(q) /\ Linked(q) = focus
    BY <2>1 DEF Alive, Linked
  <2> QED BY <2>1, <2>2 DEF MailInv, Apps
<1>6. CASE \E s \in Texts : Draw(p, s)
  <2>1. key' = key \/ (key.at = "edit" /\ key'.at = "edit" /\ key'.pid = key.pid)
    BY <1>6 DEF Draw, KeyAt
  <2>2. UNCHANGED <<limits, proc, focus, mail, down>>
    BY <1>6 DEF Draw
  <2> QED BY <2>1, <2>2, MailFrame DEF MailInv
<1> QED BY <1>1, <1>2, <1>3, <1>4, <1>5, <1>6

LEMMA MailInvAlways == Spec => []MailInv
<1>1. Init => MailInv
  BY DEF Init, MailInv, Idle, NoMail
<1>2. Base /\ MailInv /\ [Next]_vars => MailInv'
  <2>1. ASSUME MailInv, UNCHANGED vars PROVE MailInv'
    BY <2>1 DEF vars, MailInv, Alive, Linked, Apps
  <2> QED BY <2>1, MailInvKernel, MailInvPrograms DEF Next
<1> QED BY <1>1, <1>2, BaseAlways, PTL DEF Spec

\* Whoever takes a key from the mailbox is one of those it was typed for.
THEOREM KeysReachTheirReader == Spec => NoGhostKey
<1> DEFINE A == \A p \in Apps : GetKey(p) => p \in mail.to \/ mail.held
<1>1. MailInv => A
  BY DEF MailInv, GetKey, Runs
<1>2. NoGhostKey <=> [][A]_vars
  BY DEF NoGhostKey
<1> HIDE DEF A
<1> QED BY <1>1, <1>2, MailInvAlways, PTL

(***************************************************************************)
(* The line of a program.                                                  *)
(***************************************************************************)
\* The array a holds the text s.
Holds(a, s) == \A i \in 1 .. Len(s) : a[i - 1] = s[i]

\* A program that waits for its line has a buffer, and what was typed is in it.
ReaderOK(p) ==
  /\ proc[p].ptr
  /\ proc[p].idx = Len(typed[p]) /\ proc[p].idx < limits.input
  /\ Holds(mem[p], typed[p])

ReadInv == \A p \in Apps : proc[p].waiting = 1 => ReaderOK(p)

LEMMA PrefixIs ==
  ASSUME NEW s \in Seq(Chars), NEW a, Holds(a, s)
  PROVE  Prefix(a, Len(s)) = s
<1>1. s = [i \in 1 .. Len(s) |-> s[i]]
  OBVIOUS
<1>2. Prefix(a, Len(s)) = [i \in 1 .. Len(s) |-> s[i]]
  BY DEF Prefix, Holds
<1> QED BY <1>1, <1>2

\* What may happen to a program in one step, as its line goes.
LEMMA ReaderSteps ==
  ASSUME Base, [Next]_vars, NEW p \in Apps
  PROVE  \/ /\ typed'[p] = typed[p] /\ mem'[p] = mem[p]
            /\ proc[p].waiting = 1 => proc'[p].waiting = 1
            /\ proc'[p].waiting = 1 => /\ proc[p].waiting = 1
                                       /\ proc'[p].idx = proc[p].idx /\ proc'[p].ptr = proc[p].ptr
         \/ /\ limits.input > 0 /\ proc[p].waiting # 1 /\ proc'[p] = Began(proc[p]) /\ typed'[p] = <<>>
         \/ ~Alive(p) /\ proc'[p].waiting = 0
         \/ ProgramEnter(p) \/ ProgramBack(p) \/ ProgramChar(p) \/ ProgramIgnores(p)
<1> DEFINE Same == /\ typed'[p] = typed[p] /\ mem'[p] = mem[p]
                   /\ proc[p].waiting = 1 => proc'[p].waiting = 1
                   /\ proc'[p].waiting = 1 => /\ proc[p].waiting = 1
                                              /\ proc'[p].idx = proc[p].idx /\ proc'[p].ptr = proc[p].ptr
<1>1. CASE UNCHANGED <<proc, mem, typed>>
  BY <1>1
<1>2. CASE (PacketWakes \/ proc' = Woken(focus)) /\ UNCHANGED <<mem, typed>>
  <2>1. /\ proc'[p].idx = proc[p].idx /\ proc'[p].ptr = proc[p].ptr
        /\ proc'[p].waiting = proc[p].waiting \/ (proc[p].waiting = 2 /\ proc'[p].waiting = 0)
    BY <1>2, BaseNow, WokenTyped DEF PacketWakes
  <2>2. Same
    BY <1>2, <2>1
  <2> QED BY <2>2
<1>3. CASE \E q \in Apps, kind \in Kinds : Starts(q, kind)
  <2>1. PICK q \in Apps, kind \in Kinds : Starts(q, kind)
    BY <1>3
  <2>2. CASE q = p
    <3>1. ~Alive(p)
      BY <2>1, <2>2, FreeIsDead
    <3>2. proc'[p].waiting = 0
      BY <2>1, <2>2, BaseNow DEF Starts, Process
    <3> QED BY <3>1, <3>2
  <2>3. CASE q # p
    <3>1. Same
      BY <2>1, <2>3, BaseNow DEF Starts
    <3> QED BY <3>1
  <2> QED BY <2>2, <2>3
<1>4. CASE \E S : Ends(S)
  <2>1. PICK S : Ends(S)
    BY <1>4
  <2>2. /\ proc'[p].idx = proc[p].idx /\ proc'[p].ptr = proc[p].ptr /\ proc'[p].waiting = proc[p].waiting
        /\ UNCHANGED <<mem, typed>>
    BY <2>1 DEF Ends, Process
  <2>3. Same
    BY <2>2
  <2> QED BY <2>3
<1>5. CASE \E q \in Apps : ProgramEnter(q) \/ ProgramBack(q) \/ ProgramChar(q) \/ ProgramIgnores(q)
  <2>1. PICK q \in Apps : ProgramEnter(q) \/ ProgramBack(q) \/ ProgramChar(q) \/ ProgramIgnores(q)
    BY <1>5
  <2>2. CASE q # p
    <3>1. mem'[p] = mem[p] /\ proc'[p] = proc[p]
      BY <2>1, <2>2, BaseNow DEF ProgramEnter, ProgramBack, ProgramChar, ProgramIgnores
    <3>2. typed'[p] = typed[p]
      BY <2>1, <2>2, BaseNow DEF ProgramEnter, ProgramBack, ProgramChar, ProgramIgnores, ProgramKey
    <3>3. Same
      BY <3>1, <3>2
    <3> QED BY <3>3
  <2> QED BY <2>1, <2>2
<1>6. CASE Kernel
  <2>1. CASE TerminalBack \/ TerminalInsert
    BY <2>1, <1>1 DEF TerminalBack, TerminalInsert, StartsNothing
  <2>2. CASE TerminalEnter
    <3>1. {"text", "run"} \subseteq Kinds
      BY DEF Kinds
    <3> QED BY <2>2, <3>1, <1>1, <1>3 DEF TerminalEnter, StartsNothing
  <2>3. CASE PressProgram \/ ReleaseInfo
    BY <2>3, <1>3 DEF PressProgram, ReleaseInfo, Kinds
  <2>4. CASE PressElsewhere \/ PressTerminal \/ PressGui \/ PressChild \/ MouseMoves
    BY <2>4, <1>2 DEF PressElsewhere, PressTerminal, PressGui, PressChild, MouseMoves
  <2>5. CASE ReleaseElsewhere \/ ReleaseCloseChild
    BY <2>5, <1>2 DEF ReleaseElsewhere, ReleaseCloseChild, Release
  <2>6. CASE ReleaseClose
    BY <2>6, <1>4 DEF ReleaseClose
  <2>7. CASE \E ch \in Typed : KeyArrives(ch) \/ ArrowArrives(ch)
    BY <2>7, <1>2 DEF KeyArrives, ArrowArrives
  <2>8. CASE KeyMailed \/ KeyEdits \/ KeyForProgram \/ KeyLost
    BY <2>8, <1>1 DEF KeyMailed, KeyEdits, KeyForProgram, KeyLost
  <2> QED BY <1>5, <1>6, <2>1, <2>2, <2>3, <2>4, <2>5, <2>6, <2>7, <2>8 DEF Kernel
<1>7. CASE Programs
  <2>1. PICK q \in Apps : \/ Read(q) \/ Yield(q) \/ GetKey(q) \/ ChildWindow(q) \/ Exit(q)
                          \/ \E s \in Texts : Draw(q, s)
    BY <1>7 DEF Programs
  <2>2. CASE Read(q)
    <3>1. CASE q = p
      <4>1. limits.input > 0 /\ proc[p].waiting # 1
        BY <2>2, <3>1 DEF Read, Runs
      <4>2. proc'[p] = Began(proc[p]) /\ typed'[p] = <<>>
        BY <2>2, <3>1, BaseNow DEF Read
      <4> QED BY <4>1, <4>2
    <3>2. CASE q # p
      <4>1. Same
        BY <2>2, <3>2, BaseNow DEF Read
      <4> QED BY <4>1
    <3> QED BY <3>1, <3>2
  <2>3. CASE Yield(q)
    <3>1. CASE q = p
      <4>1. proc[p].waiting = 0 /\ proc'[p].waiting = 2 /\ UNCHANGED <<mem, typed>>
        BY <2>3, <3>1, BaseNow DEF Yield, Runs, Process
      <4>2. Same
        BY <4>1
      <4> QED BY <4>2
    <3>2. CASE q # p
      <4>1. Same
        BY <2>3, <3>2, BaseNow DEF Yield
      <4> QED BY <4>1
    <3> QED BY <3>1, <3>2
  <2>4. CASE GetKey(q) \/ ChildWindow(q) \/ \E s \in Texts : Draw(q, s)
    BY <2>4, <1>1 DEF GetKey, ChildWindow, Draw
  <2>5. CASE Exit(q)
    BY <2>5, <1>4 DEF Exit
  <2> QED BY <2>1, <2>2, <2>3, <2>4, <2>5
<1>8. CASE UNCHANGED vars
  BY <1>8, <1>1 DEF vars
<1> QED BY <1>6, <1>7, <1>8 DEF Next

\* A key in the line of a program that waits for it.
LEMMA ReaderKeys ==
  ASSUME Base, NEW p \in Apps, proc[p].waiting = 1, ReaderOK(p),
         ProgramEnter(p) \/ ProgramBack(p) \/ ProgramChar(p) \/ ProgramIgnores(p)
  PROVE  /\ ReaderOK(p)'
         /\ proc'[p].waiting = 0 => Str(mem'[p]) = typed[p]
<1> DEFINE t == typed[p]
           m == mem[p]
           n == proc[p].idx
           ch == key.ch
<1>1. /\ t \in Seq(Chars) /\ Len(t) \in Nat /\ DOMAIN m = 0 .. limits.input - 1
      /\ n = Len(t) /\ n < limits.input /\ Holds(m, t) /\ proc[p].ptr
      /\ limits.input \in Nat /\ InputCells = 0 .. limits.input - 1
  BY BaseNow, Sizes DEF ReaderOK, InputCells
<1>2. typed'[p] = TypedAfter(p, ch) /\ limits' = limits
  BY BaseNow DEF ProgramEnter, ProgramBack, ProgramChar, ProgramIgnores, ProgramKey
<1>3. CASE ProgramEnter(p)
  <2>1. ch \notin Chars /\ ch # "back"
    BY <1>3, NulIsNoChar DEF ProgramEnter
  <2>2. typed'[p] = t
    BY <1>2, <2>1 DEF TypedAfter
  <2>3. proc'[p] = Process(proc[p].kind, 0, n, TRUE) /\ mem'[p] = [m EXCEPT ![n] = NUL]
    <3>1. mem' = [mem EXCEPT ![p] = [mem[p] EXCEPT ![proc[p].idx] = NUL]]
      BY <1>1, <1>3 DEF ProgramEnter
    <3>2. proc' = [proc EXCEPT ![p] = Process(proc[p].kind, 0, proc[p].idx, proc[p].ptr)]
      BY <1>3 DEF ProgramEnter
    <3>3. proc[p].ptr = TRUE
      BY <1>1, BaseNow, ProcessFields
    <3> QED BY <3>1, <3>2, <3>3, BaseNow
  <2> HIDE DEF t, m, n
  <2>4. n \in 0 .. limits.input - 1
    BY <1>1
  <2>5. Holds(mem'[p], t)
    BY <1>1, <2>3 DEF Holds
  <2>6. DOMAIN mem'[p] = 0 .. limits.input - 1 /\ mem'[p][n] = NUL
    BY <1>1, <2>3, <2>4
  <2>7. \A i \in 0 .. limits.input - 1 : i < n => mem'[p][i] # NUL
    <3> SUFFICES ASSUME NEW i \in 0 .. limits.input - 1, i < n PROVE mem'[p][i] \in Chars
      BY NulIsNoChar
    <3>1. i + 1 \in 1 .. Len(t) /\ (i + 1) - 1 = i
      BY <1>1
    <3>2. mem'[p][i] = t[i + 1]
      BY <2>5, <3>1 DEF Holds
    <3> QED BY <3>1, <3>2, <1>1
  <2>8. StrLen(mem'[p]) = n
    <3>1. limits.input - 1 \in Nat
      BY <1>1
    <3> QED BY <3>1, <2>4, <2>6, <2>7, StrLenIs
  <2>9. Str(mem'[p]) = t
    BY <1>1, <2>5, <2>8, PrefixIs DEF Str
  <2> QED BY <1>1, <1>2, <2>2, <2>3, <2>5, <2>9 DEF ReaderOK, Process, t
<1>4. CASE ProgramBack(p)
  <2>1. ch = "back" /\ n > 0
    BY <1>4 DEF ProgramBack
  <2>2. typed'[p] = SubSeq(t, 1, Len(t) - 1)
    BY <1>2, <2>1 DEF TypedAfter
  <2>3. /\ proc'[p] = Process(proc[p].kind, proc[p].waiting, n - 1, proc[p].ptr)
        /\ mem'[p] = [m EXCEPT ![n - 1] = NUL]
    BY <1>4, BaseNow DEF ProgramBack
  <2> HIDE DEF t, m, n
  <2>4. Len(typed'[p]) = n - 1 /\ \A i \in 1 .. n - 1 : typed'[p][i] = t[i]
    BY <1>1, <2>1, <2>2
  <2>5. Holds(mem'[p], typed'[p])
    <3> SUFFICES ASSUME NEW i \in 1 .. n - 1 PROVE mem'[p][i - 1] = typed'[p][i]
      BY <2>4 DEF Holds
    <3>1. i \in 1 .. Len(t) /\ i - 1 # n - 1
      BY <1>1
    <3>2. mem'[p][i - 1] = m[i - 1]
      BY <2>3, <3>1
    <3> QED BY <3>1, <3>2, <2>4, <1>1 DEF Holds
  <2>6. n - 1 < limits.input
    BY <1>1
  <2> QED BY <1>1, <1>2, <2>3, <2>4, <2>5, <2>6 DEF ReaderOK, Process
<1>5. CASE ProgramChar(p)
  <2>1. ch \in Chars /\ ch # "back" /\ n < limits.input - 1
    BY <1>1, <1>5, NulIsNoChar DEF ProgramChar, Fits, InputMax
  <2>2. typed'[p] = Append(t, ch)
    BY <1>1, <1>2, <2>1 DEF TypedAfter
  <2>3. /\ proc'[p] = Process(proc[p].kind, proc[p].waiting, n + 1, proc[p].ptr)
        /\ mem'[p] = [i \in InputCells |-> IF i = n THEN ch ELSE IF i = n + 1 THEN NUL ELSE m[i]]
    BY <1>5, BaseNow DEF ProgramChar
  <2> HIDE DEF t, m, n, ch
  <2>4. /\ Len(typed'[p]) = n + 1 /\ typed'[p][n + 1] = ch
        /\ \A i \in 1 .. n : typed'[p][i] = t[i]
    BY <1>1, <2>1, <2>2
  <2>5. Holds(mem'[p], typed'[p])
    <3> SUFFICES ASSUME NEW i \in 1 .. n + 1 PROVE mem'[p][i - 1] = typed'[p][i]
      BY <2>4 DEF Holds
    <3>1. CASE i = n + 1
      BY <3>1, <1>1, <2>1, <2>3, <2>4
    <3>2. CASE i # n + 1
      <4>1. i \in 1 .. n /\ i - 1 \in InputCells /\ i - 1 # n /\ i - 1 # n + 1
        BY <3>2, <1>1
      <4>2. mem'[p][i - 1] = m[i - 1]
        BY <2>3, <4>1
      <4> QED BY <4>1, <4>2, <2>4, <1>1 DEF Holds
    <3> QED BY <3>1, <3>2
  <2>6. n + 1 < limits.input
    BY <1>1, <2>1
  <2> QED BY <1>1, <1>2, <2>3, <2>4, <2>5, <2>6 DEF ReaderOK, Process
<1>6. CASE ProgramIgnores(p)
  <2>1. proc' = proc /\ mem' = mem
    BY <1>6 DEF ProgramIgnores
  <2>2. typed'[p] = t
    <3>1. CASE ch = "back" /\ n = 0
      <4>1. t = <<>>
        BY <1>1, <3>1
      <4>2. SubSeq(t, 1, Len(t) - 1) = <<>>
        BY <4>1, SubSeqEmpty
      <4> QED BY <1>2, <3>1, <4>1, <4>2 DEF TypedAfter
    <3>2. CASE ch \in Chars /\ ~Fits(p)
      <4>1. ~(Len(t) < limits.input - 1) /\ ch # "back"
        BY <1>1, <3>2, NulIsNoChar DEF Fits, InputMax
      <4> QED BY <1>2, <4>1 DEF TypedAfter
    <3> QED BY <1>6, <3>1, <3>2 DEF ProgramIgnores
  <2> QED BY <1>1, <1>2, <2>1, <2>2 DEF ReaderOK
<1> QED BY <1>3, <1>4, <1>5, <1>6

LEMMA ReadInvStep == Base /\ ReadInv /\ [Next]_vars => ReadInv'
<1> SUFFICES ASSUME Base, ReadInv, [Next]_vars PROVE ReadInv'
  OBVIOUS
<1> SUFFICES ASSUME NEW p \in Apps, proc'[p].waiting = 1
             PROVE  ReaderOK(p)'
  BY LimitsKept DEF ReadInv, Apps
<1>1. CASE /\ typed'[p] = typed[p] /\ mem'[p] = mem[p] /\ proc[p].waiting = 1
           /\ proc'[p].idx = proc[p].idx /\ proc'[p].ptr = proc[p].ptr
  BY <1>1, LimitsKept DEF ReadInv, ReaderOK
<1>2. CASE limits.input > 0 /\ proc'[p] = Began(proc[p]) /\ typed'[p] = <<>>
  BY <1>2, LimitsKept DEF ReaderOK, Began, Process, Holds
<1>3. CASE ProgramEnter(p) \/ ProgramBack(p) \/ ProgramChar(p) \/ ProgramIgnores(p)
  <2>1. proc[p].waiting = 1
    BY <1>3, BaseNow DEF ProgramEnter, ProgramBack, ProgramChar, ProgramIgnores, Process
  <2>2. ReaderOK(p)
    BY <2>1 DEF ReadInv
  <2> QED BY <1>3, <2>1, <2>2, ReaderKeys
<1> QED BY <1>1, <1>2, <1>3, ReaderSteps

\* What a program reads is the line that was typed for it, and its string ends
\* where the line does.
THEOREM LinesAreRead == Spec => ReadHoldsTyped
<1> DEFINE A == \A p \in Apps : proc[p].waiting = 1 /\ Alive(p) /\ Alive(p)' =>
                  /\ Prefix(mem'[p], proc'[p].idx) = typed'[p]
                  /\ proc'[p].waiting = 0 => Str(mem'[p]) = typed[p]
<1>1. Init => ReadInv
  BY DEF Init, ReadInv, Dead
<1>2. Base /\ ReadInv /\ [Next]_vars => [A]_vars
  <2> SUFFICES ASSUME Base, ReadInv, [Next]_vars, NEW p \in Apps, proc[p].waiting = 1, Alive(p)
               PROVE  /\ Prefix(mem'[p], proc'[p].idx) = typed'[p]
                      /\ proc'[p].waiting = 0 => Str(mem'[p]) = typed[p]
    OBVIOUS
  <2>1. ReaderOK(p)
    BY DEF ReadInv
  <2>2. ASSUME ReaderOK(p)' PROVE Prefix(mem'[p], proc'[p].idx) = typed'[p]
    <3>1. typed'[p] \in Seq(Chars)
      BY BaseStep, LimitsKept, TypeNow DEF Base, TypeOK, Apps
    <3> QED BY <3>1, <2>2, PrefixIs DEF ReaderOK
  <2>3. CASE typed'[p] = typed[p] /\ mem'[p] = mem[p] /\ proc'[p].waiting = 1
             /\ proc'[p].idx = proc[p].idx /\ proc'[p].ptr = proc[p].ptr
    BY <2>1, <2>2, <2>3, LimitsKept DEF ReaderOK
  <2>4. CASE ProgramEnter(p) \/ ProgramBack(p) \/ ProgramChar(p) \/ ProgramIgnores(p)
    BY <2>1, <2>2, <2>4, ReaderKeys
  <2> QED BY <2>3, <2>4, ReaderSteps
<1>3. ReadHoldsTyped <=> [][A]_vars
  BY DEF ReadHoldsTyped
<1> HIDE DEF A
<1> QED BY <1>1, <1>2, <1>3, ReadInvStep, BaseAlways, PTL DEF Spec

(***************************************************************************)
(* Shifting a text about its cursor.                                       *)
(***************************************************************************)
\* The first n cells of a are a text.
IsText(a, n) == \A i \in 0 .. n - 1 : a[i] \in Chars

LEMMA PrefixSeq ==
  ASSUME NEW n \in Nat, NEW a, IsText(a, n)
  PROVE  /\ Prefix(a, n) \in Seq(Chars) /\ Len(Prefix(a, n)) = n
         /\ \A i \in 1 .. n : Prefix(a, n)[i] = a[i - 1]
<1>1. \A i \in 1 .. n : a[i - 1] \in Chars
  BY DEF IsText
<1> QED BY <1>1 DEF Prefix

LEMMA PrefixSame ==
  ASSUME NEW n \in Nat, NEW s \in Seq(Chars), Len(s) = n,
         NEW a, \A i \in 1 .. n : a[i - 1] = s[i]
  PROVE  Prefix(a, n) = s
BY PrefixIs DEF Holds

\* Both parts of a line about its cursor.
LEMMA Parts ==
  ASSUME NEW t \in Seq(Chars), NEW k \in 0 .. Len(t), NEW j \in 1 .. Len(t) + 1
  PROVE  /\ SubSeq(t, 1, k) \in Seq(Chars) /\ Len(SubSeq(t, 1, k)) = k
         /\ \A i \in 1 .. k : SubSeq(t, 1, k)[i] = t[i]
         /\ SubSeq(t, j, Len(t)) \in Seq(Chars) /\ Len(SubSeq(t, j, Len(t))) = Len(t) - j + 1
         /\ \A i \in 1 .. Len(t) - j + 1 : SubSeq(t, j, Len(t))[i] = t[j + i - 1]
<1>1. Len(t) \in Nat /\ \A i \in 1 .. Len(t) : t[i] \in Chars
  OBVIOUS
<1>2. /\ SubSeq(t, 1, k) \in Seq(Chars)
      /\ Len(SubSeq(t, 1, k)) = IF 1 <= k THEN k - 1 + 1 ELSE 0
      /\ \A i \in 1 .. k - 1 + 1 : SubSeq(t, 1, k)[i] = t[1 + i - 1]
  <2>1. 1 \in Int /\ k \in Int /\ \A i \in 1 .. k : t[i] \in Chars
    BY <1>1
  <2> QED BY <2>1, SubSeqProperties
<1>3. /\ SubSeq(t, j, Len(t)) \in Seq(Chars)
      /\ Len(SubSeq(t, j, Len(t))) = IF j <= Len(t) THEN Len(t) - j + 1 ELSE 0
      /\ \A i \in 1 .. Len(t) - j + 1 : SubSeq(t, j, Len(t))[i] = t[j + i - 1]
  <2>1. j \in Int /\ Len(t) \in Int /\ \A i \in j .. Len(t) : t[i] \in Chars
    BY <1>1
  <2> QED BY <2>1, SubSeqProperties
<1>4. Len(SubSeq(t, 1, k)) = k
  BY <1>2
<1>5. \A i \in 1 .. k : SubSeq(t, 1, k)[i] = t[i]
  <2> SUFFICES ASSUME NEW i \in 1 .. k PROVE SubSeq(t, 1, k)[i] = t[i]
    OBVIOUS
  <2>1. i \in 1 .. k - 1 + 1 /\ 1 + i - 1 = i
    OBVIOUS
  <2> QED BY <2>1, <1>2
<1>6. Len(SubSeq(t, j, Len(t))) = Len(t) - j + 1
  BY <1>1, <1>3
<1> QED BY <1>2, <1>3, <1>4, <1>5, <1>6

\* A line with one character more at the cursor.
LEMMA WithOne ==
  ASSUME NEW t \in Seq(Chars), NEW cur \in 0 .. Len(t), NEW c \in Chars
  PROVE  LET new == SubSeq(t, 1, cur) \o <<c>> \o SubSeq(t, cur + 1, Len(t))
         IN  /\ new \in Seq(Chars) /\ Len(new) = Len(t) + 1
             /\ \A i \in 1 .. Len(t) + 1 : new[i] = IF i = cur + 1 THEN c ELSE IF i <= cur THEN t[i] ELSE t[i - 1]
<1> DEFINE u == SubSeq(t, 1, cur)
           v == SubSeq(t, cur + 1, Len(t))
           uc == u \o <<c>>
<1>1. /\ u \in Seq(Chars) /\ Len(u) = cur /\ \A i \in 1 .. cur : u[i] = t[i]
      /\ v \in Seq(Chars) /\ Len(v) = Len(t) - (cur + 1) + 1
      /\ \A i \in 1 .. Len(t) - (cur + 1) + 1 : v[i] = t[cur + 1 + i - 1]
  <2>1. cur + 1 \in 1 .. Len(t) + 1
    OBVIOUS
  <2> QED BY <2>1, Parts
<1>2. <<c>> \in Seq(Chars) /\ Len(<<c>>) = 1 /\ <<c>>[1] = c
  OBVIOUS
<1> HIDE DEF u, v
<1>3. uc \in Seq(Chars) /\ Len(uc) = cur + 1 /\ uc[cur + 1] = c /\ \A i \in 1 .. cur : uc[i] = t[i]
  BY <1>1, <1>2
<1> HIDE DEF uc
<1>4. uc \o v \in Seq(Chars) /\ Len(uc \o v) = Len(t) + 1
  <2>1. uc \o v \in Seq(Chars) /\ Len(uc \o v) = Len(uc) + Len(v)
    BY <1>1, <1>3, ConcatProperties
  <2>2. Len(t) \in Nat
    OBVIOUS
  <2> QED BY <2>1, <2>2, <1>1, <1>3
<1>5. ASSUME NEW i \in 1 .. Len(t) + 1
      PROVE  (uc \o v)[i] = IF i = cur + 1 THEN c ELSE IF i <= cur THEN t[i] ELSE t[i - 1]
  <2>1. CASE i <= cur + 1
    BY <2>1, <1>1, <1>3
  <2>2. CASE cur + 1 < i
    <3>1. i - (cur + 1) \in 1 .. Len(t) - (cur + 1) + 1 /\ cur + 1 + (i - (cur + 1)) - 1 = i - 1
      BY <2>2
    <3>2. (uc \o v)[i] = v[i - (cur + 1)]
      BY <2>2, <1>1, <1>3
    <3> QED BY <2>2, <3>1, <3>2, <1>1
  <2>3. i \in Int /\ cur + 1 \in Int
    OBVIOUS
  <2>4. i <= cur + 1 \/ cur + 1 < i
    BY <2>3
  <2> QED BY <2>1, <2>2, <2>4
<1> QED BY <1>4, <1>5 DEF uc, u, v

\* A line without the character before the cursor.
LEMMA WithoutOne ==
  ASSUME NEW t \in Seq(Chars), NEW cur \in 1 .. Len(t)
  PROVE  LET new == SubSeq(t, 1, cur - 1) \o SubSeq(t, cur + 1, Len(t))
         IN  /\ new \in Seq(Chars) /\ Len(new) = Len(t) - 1
             /\ \A i \in 1 .. Len(t) - 1 : new[i] = IF i < cur THEN t[i] ELSE t[i + 1]
<1> DEFINE u == SubSeq(t, 1, cur - 1)
           v == SubSeq(t, cur + 1, Len(t))
<1>1. /\ u \in Seq(Chars) /\ Len(u) = cur - 1 /\ \A i \in 1 .. cur - 1 : u[i] = t[i]
      /\ v \in Seq(Chars) /\ Len(v) = Len(t) - (cur + 1) + 1
      /\ \A i \in 1 .. Len(t) - (cur + 1) + 1 : v[i] = t[cur + 1 + i - 1]
  <2>1. cur - 1 \in 0 .. Len(t) /\ cur + 1 \in 1 .. Len(t) + 1
    OBVIOUS
  <2> QED BY <2>1, Parts
<1> HIDE DEF u, v
<1>4. u \o v \in Seq(Chars) /\ Len(u \o v) = Len(t) - 1
  BY <1>1
<1>5. ASSUME NEW i \in 1 .. Len(t) - 1
      PROVE  (u \o v)[i] = IF i < cur THEN t[i] ELSE t[i + 1]
  <2>1. CASE i < cur
    BY <2>1, <1>1
  <2>2. CASE ~(i < cur)
    <3>1. i - (cur - 1) \in 1 .. Len(t) - (cur + 1) + 1 /\ cur + 1 + (i - (cur - 1)) - 1 = i + 1
      BY <2>2
    <3>2. (u \o v)[i] = v[i - (cur - 1)]
      BY <2>2, <1>1
    <3> QED BY <2>2, <3>1, <3>2, <1>1
  <2> QED BY <2>1, <2>2
<1> QED BY <1>4, <1>5 DEF u, v

InsertAt(a, cur, len, c) == [ShiftUp(a, cur, len) EXCEPT ![cur] = c]

LEMMA Inserted ==
  ASSUME NEW n \in Nat, NEW a, DOMAIN a = 0 .. n,
         NEW len \in Nat, len < n, NEW cur \in 0 .. len, NEW c \in Chars, IsText(a, len),
         NEW b, b = InsertAt(a, cur, len, c)
  PROVE  /\ IsText(b, len + 1) /\ b[len + 1] = a[len]
         /\ LET t == Prefix(a, len)
            IN Prefix(b, len + 1) = SubSeq(t, 1, cur) \o <<c>> \o SubSeq(t, cur + 1, Len(t))
<1> DEFINE t == Prefix(a, len)
           new == SubSeq(t, 1, cur) \o <<c>> \o SubSeq(t, cur + 1, Len(t))
<1>1. t \in Seq(Chars) /\ Len(t) = len /\ \A i \in 1 .. len : t[i] = a[i - 1]
  BY PrefixSeq
<1>2. \A i \in 0 .. n : b[i] = IF i = cur THEN c ELSE IF cur < i /\ i <= len + 1 THEN a[i - 1] ELSE a[i]
  BY DEF ShiftUp, InsertAt
<1> HIDE DEF t
<1>3. /\ new \in Seq(Chars) /\ Len(new) = len + 1
      /\ \A i \in 1 .. len + 1 : new[i] = IF i = cur + 1 THEN c ELSE IF i <= cur THEN t[i] ELSE t[i - 1]
  BY <1>1, WithOne
<1> HIDE DEF new
<1>4. ASSUME NEW i \in 1 .. len + 1 PROVE b[i - 1] = new[i]
  <2>1. i - 1 \in 0 .. n
    OBVIOUS
  <2>2. CASE i = cur + 1
    BY <2>1, <2>2, <1>2, <1>3
  <2>3. CASE i <= cur
    <3>1. b[i - 1] = a[i - 1] /\ i \in 1 .. len
      BY <2>1, <2>3, <1>2
    <3> QED BY <3>1, <2>3, <1>1, <1>3
  <2>4. CASE cur + 1 < i
    <3>1. b[i - 1] = a[(i - 1) - 1] /\ i - 1 \in 1 .. len
      BY <2>1, <2>4, <1>2
    <3> QED BY <3>1, <2>4, <1>1, <1>3
  <2> QED BY <2>2, <2>3, <2>4
<1>5. Prefix(b, len + 1) = new
  <2>1. len + 1 \in Nat
    OBVIOUS
  <2> QED BY <2>1, <1>3, <1>4, PrefixSame
<1>6. IsText(b, len + 1)
  <2> SUFFICES ASSUME NEW i \in 0 .. (len + 1) - 1 PROVE b[i] \in Chars
    BY DEF IsText
  <2>1. i + 1 \in 1 .. len + 1 /\ (i + 1) - 1 = i
    OBVIOUS
  <2>2. new[i + 1] \in Chars
    BY <2>1, <1>3
  <2>3. b[(i + 1) - 1] = new[i + 1]
    BY <2>1, <1>4
  <2> QED BY <2>1, <2>2, <2>3
<1>7. b[len + 1] = a[len]
  <2>1. len + 1 \in 0 .. n /\ len + 1 # cur /\ cur < len + 1 /\ (len + 1) - 1 = len
    OBVIOUS
  <2> QED BY <2>1, <1>2
<1> QED BY <1>5, <1>6, <1>7 DEF new, t

LEMMA Deleted ==
  ASSUME NEW n \in Nat, NEW a, DOMAIN a = 0 .. n,
         NEW len \in 0 .. n, NEW cur \in 1 .. len, IsText(a, len),
         NEW b, b = ShiftDown(a, cur, len)
  PROVE  /\ IsText(b, len - 1) /\ b[len - 1] = a[len]
         /\ LET t == Prefix(a, len)
            IN Prefix(b, len - 1) = SubSeq(t, 1, cur - 1) \o SubSeq(t, cur + 1, Len(t))
<1> DEFINE t == Prefix(a, len)
           new == SubSeq(t, 1, cur - 1) \o SubSeq(t, cur + 1, Len(t))
<1>1. t \in Seq(Chars) /\ Len(t) = len /\ \A i \in 1 .. len : t[i] = a[i - 1]
  BY PrefixSeq
<1>2. \A i \in 0 .. n : b[i] = IF cur <= i + 1 /\ i < len THEN a[i + 1] ELSE a[i]
  BY DEF ShiftDown
<1> HIDE DEF t
<1>3. /\ new \in Seq(Chars) /\ Len(new) = len - 1
      /\ \A i \in 1 .. len - 1 : new[i] = IF i < cur THEN t[i] ELSE t[i + 1]
  BY <1>1, WithoutOne
<1> HIDE DEF new
<1>4. ASSUME NEW i \in 1 .. len - 1 PROVE b[i - 1] = new[i]
  <2>1. i - 1 \in 0 .. n
    OBVIOUS
  <2>2. CASE i < cur
    <3>1. b[i - 1] = a[i - 1] /\ i \in 1 .. len
      BY <2>1, <2>2, <1>2
    <3> QED BY <3>1, <2>2, <1>1, <1>3
  <2>3. CASE ~(i < cur)
    <3>1. b[i - 1] = a[(i - 1) + 1] /\ (i - 1) + 1 = (i + 1) - 1 /\ i + 1 \in 1 .. len
      BY <2>1, <2>3, <1>2
    <3> QED BY <3>1, <2>3, <1>1, <1>3
  <2> QED BY <2>2, <2>3
<1>5. Prefix(b, len - 1) = new
  <2>1. len - 1 \in Nat
    OBVIOUS
  <2> QED BY <2>1, <1>3, <1>4, PrefixSame
<1>6. IsText(b, len - 1)
  <2> SUFFICES ASSUME NEW i \in 0 .. (len - 1) - 1 PROVE b[i] \in Chars
    BY DEF IsText
  <2>1. i + 1 \in 1 .. len - 1 /\ (i + 1) - 1 = i
    OBVIOUS
  <2>2. new[i + 1] \in Chars
    BY <2>1, <1>3
  <2>3. b[(i + 1) - 1] = new[i + 1]
    BY <2>1, <1>4
  <2> QED BY <2>1, <2>2, <2>3
<1>7. b[len - 1] = a[len]
  <2>1. len - 1 \in 0 .. n /\ cur <= (len - 1) + 1 /\ len - 1 < len /\ (len - 1) + 1 = len
    OBVIOUS
  <2> QED BY <2>1, <1>2
<1> QED BY <1>5, <1>6, <1>7 DEF new, t

(***************************************************************************)
(* The command line.                                                       *)
(***************************************************************************)
TermInv == IsText(term.buf, term.len)

\* What a step may do to the command line.
LEMMA TermSteps ==
  ASSUME Base, [Next]_vars
  PROVE  \/ term' = term
         \/ \E k \in 0 .. term.len : term' = [buf |-> term.buf, len |-> term.len, cur |-> k]
         \/ /\ key.ch = "back" /\ term.cur # 0
            /\ term' = [buf |-> ShiftDown(term.buf, term.cur, term.len), len |-> term.len - 1, cur |-> term.cur - 1]
         \/ \E c \in Chars : term.len < limits.term /\ term' = TerminalChar(c)
         \/ EntersLine /\ term' = TerminalSent
         \/ EntersLine /\ term' = TerminalRefused
<1>1. CASE Kernel
  <2>1. CASE \E ch \in Typed : ArrowArrives(ch)
    <3>1. PICK ch \in Typed : ArrowArrives(ch)
      BY <2>1
    <3>2. CASE term' = [buf |-> term.buf, len |-> term.len, cur |-> Moved(term.cur, term.len, ch)]
      <4>1. term.cur \in Nat /\ term.len \in Nat /\ term.cur <= term.len
        BY BaseNow, TermFields
      <4>2. Moved(term.cur, term.len, ch) \in 0 .. term.len
        BY <4>1, MovedIs
      <4> QED BY <3>2, <4>2
    <3> QED BY <3>1, <3>2 DEF ArrowArrives
  <2>2. CASE KeyMailed \/ KeyEdits \/ KeyForProgram \/ KeyLost
    BY <2>2 DEF KeyMailed, KeyEdits, KeyForProgram, KeyLost
  <2>3. CASE \E p \in Apps : ProgramEnter(p) \/ ProgramBack(p) \/ ProgramChar(p) \/ ProgramIgnores(p)
    BY <2>3 DEF ProgramEnter, ProgramBack, ProgramChar, ProgramIgnores, ProgramKey
  <2>4. CASE TerminalBack
    BY <2>4 DEF TerminalBack
  <2>5. CASE TerminalInsert
    BY <2>5 DEF TerminalInsert
  <2>6. CASE TerminalEnter
    BY <2>6 DEF TerminalEnter, EntersLine
  <2>7. CASE PressElsewhere \/ PressGui \/ PressChild \/ PressProgram
    BY <2>7 DEF PressElsewhere, PressGui, PressChild, PressProgram
  <2>8. CASE PressTerminal
    BY <2>8 DEF PressTerminal
  <2>9. CASE MouseMoves \/ ReleaseElsewhere \/ ReleaseInfo \/ ReleaseClose \/ ReleaseCloseChild
    BY <2>9 DEF MouseMoves, ReleaseElsewhere, ReleaseInfo, ReleaseClose, ReleaseCloseChild, Release, Ends
  <2>10. CASE \E ch \in Typed : KeyArrives(ch)
    BY <2>10 DEF KeyArrives
  <2> QED BY <1>1, <2>1, <2>2, <2>3, <2>4, <2>5, <2>6, <2>7, <2>8, <2>9, <2>10 DEF Kernel
<1>2. CASE Programs
  BY <1>2 DEF Programs, Read, Yield, GetKey, ChildWindow, Exit, Ends, Draw
<1>3. CASE UNCHANGED vars
  BY <1>3 DEF vars
<1> QED BY <1>1, <1>2, <1>3 DEF Next

LEMMA TermStep ==
  ASSUME Base, TermInv, [Next]_vars
  PROVE  /\ TermInv'
         /\ TermLine!Next \/ UNCHANGED <<Prefix(term.buf, term.len), term.cur, limits.term>>
<1> DEFINE a == term.buf
           len == term.len
           cur == term.cur
           t == Prefix(a, len)
<1>1. /\ limits \in Limits /\ limits.term \in Nat /\ limits' = limits
      /\ len \in 0 .. limits.term /\ cur \in 0 .. len /\ DOMAIN a = 0 .. limits.term + 1 /\ IsText(a, len)
  BY BaseNow, Sizes, TermFields, LimitsKept DEF TermCells, TermInv
<1>2. t \in Seq(Chars) /\ Len(t) = len
  BY <1>1, PrefixSeq
<1>3. CASE term' = term
  BY <1>1, <1>3 DEF TermInv
<1>4. CASE \E k \in 0 .. len : term' = [buf |-> a, len |-> len, cur |-> k]
  <2>1. PICK k \in 0 .. len : term' = [buf |-> a, len |-> len, cur |-> k]
    BY <1>4
  <2>2. TermInv'
    BY <1>1, <2>1 DEF TermInv, IsText
  <2>3. Prefix(term.buf, term.len)' = t /\ term'.cur = k
    BY <2>1 DEF Prefix
  <2>4. TermLine!Move
    BY <1>2, <2>3 DEF TermLine!Move
  <2> QED BY <1>1, <2>2, <2>4 DEF TermLine!Next, TermLine!Edit
<1>5. CASE cur # 0 /\ term' = [buf |-> ShiftDown(a, cur, len), len |-> len - 1, cur |-> cur - 1]
  <2> DEFINE b == ShiftDown(a, cur, len)
  <2>1. limits.term + 1 \in Nat /\ len \in 0 .. limits.term + 1 /\ cur \in 1 .. len
    BY <1>1, <1>5
  <2>2. term'.buf = b /\ term'.len = len - 1 /\ term'.cur = cur - 1
    BY <1>5
  <2> HIDE DEF b, a, cur, len
  <2>3. /\ IsText(b, len - 1)
        /\ Prefix(b, len - 1) = SubSeq(t, 1, cur - 1) \o SubSeq(t, cur + 1, Len(t))
    BY <1>1, <2>1, Deleted DEF b
  <2>4. TermInv' /\ Prefix(term.buf, term.len)' = SubSeq(t, 1, cur - 1) \o SubSeq(t, cur + 1, Len(t))
    BY <2>2, <2>3 DEF TermInv, IsText, Prefix
  <2>5. TermLine!Delete
    <3>1. term.cur > 0
      BY <2>1 DEF cur
    <3>2. term'.cur = term.cur - 1
      BY <2>2 DEF cur
    <3> QED BY <3>1, <3>2, <2>4 DEF TermLine!Delete, t, a, cur, len
  <2> QED BY <1>1, <2>4, <2>5 DEF TermLine!Next, TermLine!Edit
<1>6. CASE \E c \in Chars : len < limits.term /\ term' = TerminalChar(c)
  <2>1. PICK c \in Chars : len < limits.term /\ term' = TerminalChar(c)
    BY <1>6
  <2> DEFINE b == [ShiftUp(a, cur, len) EXCEPT ![cur] = c]
  <2>2. term'.buf = b /\ term'.len = len + 1 /\ term'.cur = cur + 1
    BY <2>1 DEF TerminalChar
  <2>3. limits.term + 1 \in Nat /\ len \in Nat /\ len < limits.term + 1 /\ len < limits.term
    BY <1>1, <2>1
  <2> HIDE DEF b, a, cur, len
  <2>4. /\ IsText(b, len + 1)
        /\ Prefix(b, len + 1) = SubSeq(t, 1, cur) \o <<c>> \o SubSeq(t, cur + 1, Len(t))
    <3>1. b = InsertAt(a, cur, len, c)
      BY DEF b, InsertAt
    <3>2. DOMAIN a = 0 .. limits.term + 1 /\ cur \in 0 .. len /\ IsText(a, len)
      BY <1>1
    <3> HIDE DEF t
    <3>3. limits.term + 1 \in Nat /\ len \in Nat /\ len < limits.term + 1
      BY <2>3
    <3> QED BY <3>1, <3>2, <3>3, Inserted, ZenonT(60) DEF t
  <2>5. TermInv' /\ Prefix(term.buf, term.len)' = SubSeq(t, 1, cur) \o <<c>> \o SubSeq(t, cur + 1, Len(t))
    BY <2>2, <2>4 DEF TermInv, IsText, Prefix
  <2>6. TermLine!Insert(c)
    BY <1>2, <2>2, <2>3, <2>5 DEF TermLine!Insert, a, cur, len
  <2> QED BY <1>1, <2>5, <2>6 DEF TermLine!Next, TermLine!Edit
<1>7. CASE term' = TerminalSent
  <2>1. term'.len = 0 /\ term'.cur = 0
    BY <1>7 DEF TerminalSent
  <2>2. TermInv'
    BY <2>1 DEF TermInv, IsText
  <2>3. Prefix(term.buf, term.len)' = <<>>
    <3>1. IsText(term'.buf, 0)
      BY DEF IsText
    <3>2. Len(Prefix(term'.buf, 0)) = 0 /\ Prefix(term'.buf, 0) \in Seq(Chars)
      BY <3>1, PrefixSeq
    <3> QED BY <2>1, <3>2 DEF Prefix
  <2>4. TermLine!Send
    BY <2>1, <2>3 DEF TermLine!Send
  <2> QED BY <1>1, <2>2, <2>4 DEF TermLine!Next
<1>8. CASE term' = TerminalRefused
  <2> DEFINE b == [a EXCEPT ![len] = NUL]
  <2>1. term'.buf = b /\ term'.len = len /\ term'.cur = cur
    BY <1>8 DEF TerminalRefused
  <2>2. \A i \in 1 .. len : b[i - 1] = a[i - 1]
    BY <1>1
  <2> HIDE DEF b
  <2>3. Prefix(b, len) = t
    BY <2>2 DEF Prefix
  <2>4. TermInv'
    <3>1. \A i \in DOMAIN a : i < len => b[i] = a[i]
      BY <1>1 DEF b
    <3>2. DOMAIN b = DOMAIN a
      BY DEF b
    <3> QED BY <1>1, <2>1, <3>1, <3>2, SMTT(60) DEF TermInv, IsText
  <2>5. Prefix(term.buf, term.len)' = t
    BY <2>1, <2>3 DEF Prefix
  <2> QED BY <1>1, <2>1, <2>4, <2>5
<1> QED BY <1>3, <1>4, <1>5, <1>6, <1>7, <1>8, TermSteps

LEMMA TermInit == Init => TermInv /\ TermLine!Init
<1> SUFFICES ASSUME Init PROVE TermInv /\ TermLine!Init
  OBVIOUS
<1>1. term.len = 0 /\ term.cur = 0 /\ limits.term \in Nat
  BY Sizes DEF Init
<1>2. IsText(term.buf, 0)
  BY DEF IsText
<1>3. Prefix(term.buf, 0) \in Seq(Chars) /\ Len(Prefix(term.buf, 0)) = 0
  BY <1>2, PrefixSeq
<1> QED BY <1>1, <1>2, <1>3 DEF TermInv, TermLine!Init

LEMMA TermInvAlways == Spec => []TermInv
<1>1. Base /\ TermInv /\ [Next]_vars => TermInv'
  BY TermStep
<1> QED BY <1>1, TermInit, BaseAlways, PTL DEF Spec

\* The command line implements a line with a cursor in it.
THEOREM TerminalEdits == Spec => TermIsALine
<1> DEFINE v == <<Prefix(term.buf, term.len), term.cur, limits.term>>
<1>1. Base /\ TermInv /\ [Next]_vars => [TermLine!Next]_v
  BY TermStep
<1> HIDE DEF v
<1>2. Spec => TermLine!Init /\ [][TermLine!Next]_v
  BY <1>1, TermInit, BaseAlways, TermInvAlways, PTL DEF Spec
<1> QED BY <1>2 DEF TermIsALine, TermLine!Spec, v

\* Enter on the command line is one step of the handler: the line is sent, or
\* refused and kept.
LEMMA EnterSteps ==
  ASSUME Base, Next, EntersLine
  PROVE  term' \in {TerminalSent, TerminalRefused}
<1>1. key.at = "line" /\ key.pid = -1 /\ key.win = "term" /\ key.ch = "enter" /\ key'.at = "idle"
  BY DEF EntersLine, TerminalKey, Idle
<1>2. ~Programs
  BY <1>1 DEF Programs, Read, Yield, GetKey, ChildWindow, Exit, Draw, KeyAt
<1>3. TerminalEnter
  BY <1>1, <1>2, NulIsNoChar
  DEF Next, Kernel, KeyArrives, ArrowArrives, KeyMailed, KeyEdits, KeyForProgram, KeyLost,
      ProgramEnter, ProgramBack, ProgramChar, ProgramIgnores, ProgramKey, TerminalBack, TerminalInsert,
      PressElsewhere, PressTerminal, PressGui, PressChild, PressProgram, Press, MouseMoves,
      ReleaseElsewhere, ReleaseInfo, ReleaseClose, ReleaseCloseChild, Release
<1> QED BY <1>3 DEF TerminalEnter

\* A command is the line that was edited, to its last character and no further.
THEOREM CommandsAreSeen == Spec => CommandSeen
<1> DEFINE A == EntersLine => Str(term'.buf) = Prefix(term.buf, term.len)
<1>1. Base /\ TermInv /\ [Next]_vars => [A]_vars
  <2> SUFFICES ASSUME Base, TermInv, Next, EntersLine
               PROVE  Str(term'.buf) = Prefix(term.buf, term.len)
    BY DEF EntersLine, TerminalKey, Idle, vars
  <2> DEFINE a == term.buf
             len == term.len
             n == limits.term + 1
  <2>1. /\ len \in 0 .. n /\ n \in Nat /\ DOMAIN a = 0 .. n /\ IsText(a, len) /\ len \in Nat
    BY BaseNow, Sizes, TermFields DEF TermCells, TermInv
  <2>2. term' \in {TerminalSent, TerminalRefused}
    BY EnterSteps
  <2>3. term'.buf = [a EXCEPT ![len] = NUL]
    BY <2>2 DEF TerminalSent, TerminalRefused
  <2> HIDE DEF a, len, n
  <2>4. /\ DOMAIN term'.buf = 0 .. n /\ term'.buf[len] = NUL
        /\ \A i \in 0 .. n : i < len => term'.buf[i] = a[i] /\ a[i] \in Chars
    BY <2>1, <2>3 DEF IsText
  <2>5. StrLen(term'.buf) = len
    BY <2>1, <2>4, NulIsNoChar, StrLenIs
  <2>6. Prefix(term'.buf, len) = Prefix(a, len)
    <3>1. \A i \in 1 .. len : term'.buf[i - 1] = a[i - 1]
      BY <2>1, <2>3
    <3> QED BY <3>1 DEF Prefix
  <2> QED BY <2>5, <2>6 DEF Str, a, len
<1>2. CommandSeen <=> [][A]_vars
  BY DEF CommandSeen
<1> HIDE DEF A
<1> QED BY <1>1, <1>2, BaseAlways, TermInvAlways, PTL DEF Spec

(***************************************************************************)
(* The textbox.                                                            *)
(***************************************************************************)
\* Unless the program draws in between, the length the handler has measured is
\* still that of the text when it edits.
BoxInv == key.at = "edit" /\ ~key.torn => key.len = StrLen(box.text)

\* What a step may do to the textbox.
LEMMA BoxSteps ==
  ASSUME Base, [Next]_vars
  PROVE  \/ box' = box
         \/ box'.text = box.text /\ key' = key /\ (InText => box'.cur <= StrLen(box.text))
         \/ KeyEdits
         \/ \E p \in Apps, s \in Texts : Draw(p, s)
<1>1. StrLen(box.text) \in Nat /\ box.cur \in Nat
  BY BaseNow, Sizes, BoxLen, BoxFields DEF BoxCells
<1>2. CASE Kernel
  <2>1. CASE \E ch \in Typed : ArrowArrives(ch)
    <3>1. PICK ch \in Typed : ArrowArrives(ch)
      BY <2>1
    <3>2. CASE box' = [text |-> box.text, focused |-> TRUE, cur |-> Moved(box.cur, StrLen(box.text), ch)]
      <4>1. InText => Moved(box.cur, StrLen(box.text), ch) <= StrLen(box.text)
        BY <1>1, MovedIs DEF InText
      <4>2. key' = key
        BY <3>1 DEF ArrowArrives
      <4>3. box'.text = box.text /\ box'.cur = Moved(box.cur, StrLen(box.text), ch)
        BY <3>2
      <4> QED BY <4>1, <4>2, <4>3
    <3> QED BY <3>1, <3>2 DEF ArrowArrives
  <2>2. CASE PressGui
    <3>1. key' = key
      BY <2>2 DEF PressGui, Press
    <3>2. CASE \E cur \in 0 .. StrLen(box.text) : box' = [text |-> box.text, focused |-> TRUE, cur |-> cur]
      BY <1>1, <3>1, <3>2
    <3>3. CASE box' = [text |-> box.text, focused |-> FALSE, cur |-> box.cur]
      BY <3>1, <3>3 DEF InText
    <3> QED BY <2>2, <3>2, <3>3 DEF PressGui
  <2>3. CASE KeyMailed \/ KeyForProgram \/ KeyLost
    BY <2>3 DEF KeyMailed, KeyForProgram, KeyLost
  <2>4. CASE \E p \in Apps : ProgramEnter(p) \/ ProgramBack(p) \/ ProgramChar(p) \/ ProgramIgnores(p)
    BY <2>4 DEF ProgramEnter, ProgramBack, ProgramChar, ProgramIgnores, ProgramKey
  <2>5. CASE TerminalBack \/ TerminalInsert \/ TerminalEnter
    BY <2>5 DEF TerminalBack, TerminalInsert, TerminalEnter
  <2>6. CASE PressElsewhere \/ PressTerminal \/ PressChild \/ PressProgram
    BY <2>6 DEF PressElsewhere, PressTerminal, PressChild, PressProgram
  <2>7. CASE MouseMoves \/ ReleaseElsewhere \/ ReleaseInfo \/ ReleaseClose \/ ReleaseCloseChild
    BY <2>7 DEF MouseMoves, ReleaseElsewhere, ReleaseInfo, ReleaseClose, ReleaseCloseChild, Release, Ends
  <2>8. CASE \E ch \in Typed : KeyArrives(ch)
    BY <2>8 DEF KeyArrives
  <2> QED BY <1>2, <2>1, <2>2, <2>3, <2>4, <2>5, <2>6, <2>7, <2>8 DEF Kernel
<1>3. CASE Programs
  <2>1. PICK p \in Apps : \/ Read(p) \/ Yield(p) \/ GetKey(p) \/ ChildWindow(p) \/ Exit(p)
                          \/ \E s \in Texts : Draw(p, s)
    BY <1>3 DEF Programs
  <2>2. CASE Read(p) \/ Yield(p) \/ GetKey(p) \/ ChildWindow(p) \/ Exit(p)
    BY <2>2 DEF Read, Yield, GetKey, ChildWindow, Exit, Ends
  <2> QED BY <2>1, <2>2
<1>4. CASE UNCHANGED vars
  BY <1>4 DEF vars
<1> QED BY <1>2, <1>3, <1>4 DEF Next

LEMMA BoxInvStep == Base /\ BoxInv /\ [Next]_vars => BoxInv'
<1> SUFFICES ASSUME Base, BoxInv, [Next]_vars, key'.at = "edit", ~key'.torn
             PROVE  key'.len = StrLen(box'.text)
  BY DEF BoxInv
<1>1. CASE Kernel
  <2>1. KeyMailed
    <3>1. /\ key.at = "idle" /\ UNCHANGED key => key'.at # "edit"
          /\ KeyForProgram => key'.at # "edit"
          /\ KeyEdits => key'.at # "edit"
          /\ key' = Idle => key'.at # "edit"
      BY DEF KeyForProgram, KeyEdits, KeyAt, Idle
    <3>2. (\E ch \in Typed : KeyArrives(ch)) => key'.at # "edit"
      BY DEF KeyArrives
    <3> QED BY <1>1, <3>1, <3>2, KernelCases
  <2>2. key'.len = StrLen(box.text) /\ box' = box
    BY <2>1 DEF KeyMailed, KeyAt
  <2> QED BY <2>2
<1>2. CASE Programs
  <2>1. PICK p \in Apps : \/ Read(p) \/ Yield(p) \/ GetKey(p) \/ ChildWindow(p) \/ Exit(p)
                          \/ \E s \in Texts : Draw(p, s)
    BY <1>2 DEF Programs
  <2>2. CASE Read(p) \/ Yield(p) \/ GetKey(p) \/ ChildWindow(p) \/ Exit(p)
    <3>1. UNCHANGED <<key, box>>
      BY <2>2 DEF Read, Yield, GetKey, ChildWindow, Exit, Ends
    <3> QED BY <3>1 DEF BoxInv
  <2>3. CASE \E s \in Texts : Draw(p, s)
    BY <2>3 DEF Draw, KeyAt
  <2> QED BY <2>1, <2>2, <2>3
<1>3. CASE UNCHANGED vars
  BY <1>3 DEF vars, BoxInv
<1> QED BY <1>1, <1>2, <1>3 DEF Next

LEMMA BoxInvAlways == Spec => []BoxInv
<1>1. Init => BoxInv
  BY DEF Init, BoxInv, Idle
<1> QED BY <1>1, BoxInvStep, BaseAlways, PTL DEF Spec

\* An edit that is not torn, with the cursor in the text.
LEMMA BoxEdited ==
  ASSUME Base, BoxInv, [Next]_vars, KeyEdits, InText, ~key.torn
  PROVE  InText' /\ (BoxLine!Edit \/ UNCHANGED <<box.text, box.cur>>)
<1> DEFINE a == box.text
           len == StrLen(a)
           cur == box.cur
           n == limits.box + 1
           t == Prefix(a, len)
<1>1. /\ limits.box \in Nat /\ limits' = limits /\ n \in Nat
      /\ DOMAIN a = 0 .. n /\ len \in 0 .. n /\ a[len] = NUL /\ key.len = len
      /\ cur \in 0 .. len
  BY BaseNow, Sizes, LimitsKept, BoxFields, BoxLen DEF BoxCells, BoxInv, InText, KeyEdits
<1>2. IsText(a, len)
  <2> SUFFICES ASSUME NEW i \in 0 .. len - 1 PROVE a[i] \in Chars
    BY DEF IsText
  <2>1. i \in BoxCells /\ i < len
    BY <1>1 DEF BoxCells
  <2>2. a[i] \in Cells /\ a[i] # NUL
    BY <2>1, BaseNow, BoxFields, BoxLen
  <2> QED BY <2>2 DEF Cells
<1>3. t \in Seq(Chars) /\ Len(t) = len
  BY <1>1, <1>2, PrefixSeq
<1>4. CASE box' = box
  BY <1>4 DEF InText
<1>5. CASE /\ key.ch \in Chars /\ len < limits.box
           /\ box' = [text |-> [ShiftUp(a, cur, len) EXCEPT ![cur] = key.ch],
                      focused |-> box.focused, cur |-> cur + 1]
  <2>0. PICK c \in Chars : c = key.ch
    BY <1>5
  <2> DEFINE b == [ShiftUp(a, cur, len) EXCEPT ![cur] = c]
  <2>1. box'.text = b /\ box'.cur = cur + 1
    BY <1>5, <2>0
  <2>2. n \in Nat /\ len \in Nat /\ len < n /\ len < limits.box
    BY <1>1, <1>5
  <2>3. DOMAIN b = 0 .. n
    BY <1>1 DEF ShiftUp
  <2> HIDE DEF b, len, cur, a, n
  <2>5. /\ IsText(b, len + 1) /\ b[len + 1] = a[len]
        /\ Prefix(b, len + 1) = SubSeq(t, 1, cur) \o <<c>> \o SubSeq(t, cur + 1, Len(t))
    <3>1. b = InsertAt(a, cur, len, c)
      BY DEF b, InsertAt
    <3>2. DOMAIN a = 0 .. n /\ cur \in 0 .. len /\ IsText(a, len)
      BY <1>1, <1>2
    <3> HIDE DEF t
    <3> QED BY <2>2, <3>1, <3>2, Inserted DEF t
  <2>6. StrLen(b) = len + 1
    <3>1. len + 1 \in 0 .. n /\ b[len + 1] = NUL
      BY <1>1, <2>2, <2>5
    <3>2. ASSUME NEW i \in 0 .. n, i < len + 1 PROVE b[i] # NUL
      <4>1. i \in 0 .. (len + 1) - 1
        BY <3>2, <2>2
      <4> QED BY <4>1, <2>5, NulIsNoChar DEF IsText
    <3> QED BY <1>1, <2>3, <3>1, <3>2, StrLenIs
  <2>7. Str(box'.text) = SubSeq(t, 1, cur) \o <<c>> \o SubSeq(t, cur + 1, Len(t))
    BY <2>1, <2>5, <2>6 DEF Str
  <2>8. BoxLine!Insert(c)
    <3>1. Len(Str(box.text)) < limits.box
      BY <1>3, <2>2 DEF Str, t, len, a
    <3>2. Str(box.text) = t
      BY DEF Str, t, len, a
    <3>3. box'.cur = box.cur + 1
      BY <2>1 DEF cur
    <3> HIDE DEF t
    <3> QED BY <2>7, <3>1, <3>2, <3>3 DEF BoxLine!Insert, cur
  <2>9. InText'
    <3>1. cur + 1 <= len + 1
      BY <1>1, <2>2
    <3> QED BY <2>1, <2>6, <3>1 DEF InText
  <2> QED BY <2>8, <2>9 DEF BoxLine!Edit
<1>6. CASE cur # 0 /\ box' = [text |-> ShiftDown(a, cur, len), focused |-> box.focused, cur |-> cur - 1]
  <2> DEFINE b == ShiftDown(a, cur, len)
  <2>1. box'.text = b /\ box'.cur = cur - 1
    BY <1>6
  <2>2. cur \in 1 .. len
    BY <1>1, <1>6
  <2>3. DOMAIN b = 0 .. n
    BY <1>1 DEF ShiftDown
  <2>4. b = ShiftDown(a, cur, len)
    OBVIOUS
  <2> HIDE DEF b, len, cur, a, n
  <2>5. /\ IsText(b, len - 1) /\ b[len - 1] = a[len]
        /\ Prefix(b, len - 1) = SubSeq(t, 1, cur - 1) \o SubSeq(t, cur + 1, Len(t))
    <3> HIDE DEF t
    <3> QED BY <1>1, <1>2, <2>2, <2>4, Deleted DEF t
  <2>6. StrLen(b) = len - 1
    <3>1. len - 1 \in 0 .. n /\ b[len - 1] = NUL
      BY <1>1, <2>2, <2>5
    <3>2. ASSUME NEW i \in 0 .. n, i < len - 1 PROVE b[i] # NUL
      <4>1. i \in 0 .. (len - 1) - 1
        BY <3>2, <1>1
      <4> QED BY <4>1, <2>5, NulIsNoChar DEF IsText
    <3> QED BY <1>1, <2>3, <3>1, <3>2, StrLenIs
  <2>7. Str(box'.text) = SubSeq(t, 1, cur - 1) \o SubSeq(t, cur + 1, Len(t))
    BY <2>1, <2>5, <2>6 DEF Str
  <2>8. BoxLine!Delete
    <3>1. box.cur > 0
      BY <1>1, <2>2 DEF cur
    <3>2. Str(box.text) = t
      BY DEF Str, t, len, a
    <3>3. box'.cur = box.cur - 1
      BY <2>1 DEF cur
    <3> HIDE DEF t
    <3> QED BY <2>7, <3>1, <3>2, <3>3 DEF BoxLine!Delete, cur
  <2>9. InText'
    <3>1. cur - 1 <= len - 1
      BY <1>1, <2>2
    <3> QED BY <2>1, <2>6, <3>1 DEF InText
  <2> QED BY <2>8, <2>9 DEF BoxLine!Edit
<1>7. \/ box' = box
      \/ /\ key.ch \in Chars /\ len < limits.box
         /\ box' = [text |-> [ShiftUp(a, cur, len) EXCEPT ![cur] = key.ch],
                    focused |-> box.focused, cur |-> cur + 1]
      \/ cur # 0 /\ box' = [text |-> ShiftDown(a, cur, len), focused |-> box.focused, cur |-> cur - 1]
  <2>1. CASE key.ch = "back"
    BY <1>1, <2>1 DEF KeyEdits, BoxDelete
  <2>2. CASE key.ch # "back" /\ key.ch \in Chars
    BY <1>1, <2>2 DEF KeyEdits, BoxInsert
  <2>3. CASE key.ch # "back" /\ key.ch \notin Chars
    BY <2>3 DEF KeyEdits
  <2> QED BY <2>1, <2>2, <2>3
<1> QED BY <1>4, <1>5, <1>6, <1>7

\* As long as the program does not draw while a key is on its way, the textbox is a
\* line with a cursor in it, and only the program can leave the cursor outside.
THEOREM TextboxEdits == Spec => BoxIsALine
<1> DEFINE A == InText /\ ~key.torn /\ key'.at # key.at => (BoxLine!Edit \/ UNCHANGED <<box.text, box.cur>>)
           B == InText /\ ~InText' => key.torn \/ UNCHANGED <<box.cur, key.at, down>>
<1>1. Base /\ BoxInv /\ [Next]_vars => A /\ B
  <2> SUFFICES ASSUME Base, BoxInv, [Next]_vars PROVE A /\ B
    OBVIOUS
  <2>1. CASE box' = box
    BY <2>1 DEF InText
  <2>2. CASE box'.text = box.text /\ key' = key /\ (InText => box'.cur <= StrLen(box.text))
    BY <2>2 DEF InText
  <2>3. CASE KeyEdits
    BY <2>3, BoxEdited
  <2>4. CASE \E p \in Apps, s \in Texts : Draw(p, s)
    <3>1. box'.cur = box.cur /\ key'.at = key.at /\ down' = down
      BY <2>4 DEF Draw, KeyAt
    <3> QED BY <3>1
  <2> QED BY <2>1, <2>2, <2>3, <2>4, BoxSteps
<1>2. BoxIsALine <=> [][A]_vars /\ [][B]_vars
  BY DEF BoxIsALine, BoxEdits, CursorStays
<1> HIDE DEF A, B
<1> QED BY <1>1, <1>2, BaseAlways, BoxInvAlways, PTL DEF Spec
=============================================================================
