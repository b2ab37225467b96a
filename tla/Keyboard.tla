------------------------------ MODULE Keyboard ------------------------------
(***************************************************************************)
(* The keyboard of kernel.c: where a key goes.  It may edit a textbox, the *)
(* line a program reads (syscall 3) or the command line of the terminal;   *)
(* it lands in the one-key mailbox of syscall 8; and it wakes a program    *)
(* that yielded (syscall 6).                                               *)
(*                                                                         *)
(* The handler runs in pid 0 with interrupts enabled: the register key     *)
(* keeps what it has fetched, found and measured, and a program may run    *)
(* between two of its steps.  One terminal, one program window with one    *)
(* textbox, one child window; the window manager itself is in Desktop.     *)
(***************************************************************************)
EXTENDS Integers, Sequences, FiniteSets, FiniteSetsExt

CONSTANTS Chars,   \* the printable characters
          Limits   \* [term, box, input, apps, chars]: the sizes of one system

\* Model bounds: a system with box = 0 has no textbox, one with input = 0 no
\* program that reads, and chars are the characters its user types.
ASSUME LimitsAssumption ==
  \A l \in Limits : {l.term, l.box, l.input, l.apps} \subseteq Nat /\ l.chars \subseteq Chars

ASSUME CharsAssumption == Chars \cap {"nul", "enter", "back", "left", "right"} = {}

VARIABLES limits,   \* never changes
          proc,     \* process_table: kind, waiting_for_input, input_idx, input_buffer set
          mem,      \* the cells input_buffer points to
          typed,    \* history: what was typed since the read began
          gui,      \* the program window: open and owner_pid
          child,    \* the child window
          focus,    \* global_active_win
          term,     \* t_buffer, t_len, t_cursor
          box,      \* ui_elements[].text, the textbox focus and focused_cursor_pos
          key,      \* the key handler of pid 0
          mail,     \* last_key_pressed is set; history: for whom, with the button down
          down      \* prev_clicking

vars == <<limits, proc, mem, typed, gui, child, focus, term, box, key, mail, down>>

NUL == "nul"
Cells == Chars \cup {NUL}
Keys == Chars \cup {"enter", "back", "left", "right"}
Typed == limits.chars \cup {"enter", "back", "left", "right"}
Apps == 1 .. limits.apps
Kinds == {"none", "text", "run", "menu"}
Windows == {"none", "term", "gui", "child"}

\* t_buffer has two cells more than the longest line, a text six more (here
\* two) than max_chars keys can fill.
TermCells == 0 .. limits.term + 1
BoxCells == 0 .. limits.box + 1
InputCells == 0 .. limits.input - 1

\* The string in an array of characters: what is before the first NUL.
StrLen(a) == CHOOSE n \in DOMAIN a \cup {Cardinality(DOMAIN a)} :
               /\ \A i \in DOMAIN a : i < n => a[i] # NUL
               /\ n \in DOMAIN a => a[n] = NUL
Prefix(a, n) == [i \in 1 .. n |-> a[i - 1]]
Str(a) == Prefix(a, StrLen(a))

\* for (k = len; k >= cur; k--) a[k + 1] = a[k]
ShiftUp(a, cur, len) == [i \in DOMAIN a |-> IF cur < i /\ i <= len + 1 THEN a[i - 1] ELSE a[i]]
\* for (k = cur; k <= len; k++) a[k - 1] = a[k]
ShiftDown(a, cur, len) == [i \in DOMAIN a |-> IF cur <= i + 1 /\ i < len THEN a[i + 1] ELSE a[i]]

Dead == [kind |-> "none", waiting |-> 0, idx |-> 0, ptr |-> FALSE]
Idle == [at |-> "idle", ch |-> "enter", win |-> "none", pid |-> -1, len |-> 0, torn |-> FALSE]
KeyAt(at, len, torn) == [at |-> at, ch |-> key.ch, win |-> key.win, pid |-> key.pid, len |-> len, torn |-> torn]
NoMail == [full |-> FALSE, to |-> {}, held |-> FALSE]

Process(kind, waiting, idx, ptr) == [kind |-> kind, waiting |-> waiting, idx |-> idx, ptr |-> ptr]
Alive(p) == proc[p].kind # "none"
Runs(p) == Alive(p) /\ proc[p].waiting = 0
Linked(p) == IF proc[p].kind = "text" THEN "term" ELSE "gui"
Parent(p) == IF proc[p].kind = "menu" THEN "none" ELSE "term"
Clients(w) == {p \in Apps : w # "none" /\ Alive(p) /\ w \in {Linked(p), Parent(p)}}
Owner(w) == IF w = "gui" THEN gui.owner ELSE IF w = "child" THEN child.owner ELSE 0

\* The programs that yielded wake when their window is w: the one in focus for
\* a key, the one at the front of window_order for the mouse.
Woken(w) ==
  [p \in Apps |-> IF Alive(p) /\ proc[p].waiting = 2 /\ w # "none" /\ Owner(w) = p
                  THEN Process(proc[p].kind, 0, proc[p].idx, proc[p].ptr) ELSE proc[p]]

Init ==
  /\ limits \in Limits
  /\ proc = [p \in Apps |-> Dead]
  /\ mem = [p \in Apps |-> [i \in InputCells |-> NUL]]
  /\ typed = [p \in Apps |-> <<>>]
  /\ gui = [open |-> FALSE, owner |-> 0]
  /\ child = [open |-> FALSE, owner |-> 0]
  /\ focus = "none"
  /\ term = [buf |-> [i \in TermCells |-> NUL], len |-> 0, cur |-> 0]
  /\ box = [text |-> [i \in BoxCells |-> NUL], focused |-> FALSE, cur |-> 0]
  /\ key = Idle
  /\ mail = NoMail
  /\ down = FALSE

-----------------------------------------------------------------------------
(* The key handler *)

\* The scancode is read, the program of the focused window is looked for (the
\* last one wins) and its owner is woken; the arrows are served at once.
KeyArrives(ch) ==
  /\ key.at = "idle"
  /\ ch \notin {"left", "right"}
  /\ proc' = Woken(focus)
  /\ key' = [at |-> "mail", ch |-> ch, win |-> focus, len |-> 0, torn |-> FALSE,
             pid |-> IF Clients(focus) = {} THEN -1 ELSE Max(Clients(focus))]
  /\ UNCHANGED <<limits, mem, typed, gui, child, focus, term, box, mail, down>>

Moved(cur, len, ch) ==
  IF ch = "left" THEN IF cur > 0 THEN cur - 1 ELSE cur
  ELSE IF cur < len THEN cur + 1 ELSE cur

\* With no window in focus the code looks at windows[-1]: whatever lies there
\* may send the arrow to the terminal.
ArrowArrives(ch) ==
  /\ key.at = "idle"
  /\ ch \in {"left", "right"}
  /\ proc' = Woken(focus)
  /\ IF box.focused /\ focus = "gui"
     THEN box' = [text |-> box.text, focused |-> TRUE, cur |-> Moved(box.cur, StrLen(box.text), ch)] /\ UNCHANGED term
     ELSE /\ \/ /\ focus \in {"term", "none"} /\ Clients(focus) = {}
                /\ term' = [buf |-> term.buf, len |-> term.len, cur |-> Moved(term.cur, term.len, ch)]
             \/ ~(focus = "term" /\ Clients(focus) = {}) /\ UNCHANGED term
          /\ UNCHANGED box
  /\ UNCHANGED <<limits, mem, typed, gui, child, focus, key, mail, down>>

\* The mailbox, and the length of the text if a textbox has the focus.
KeyMailed ==
  /\ key.at = "mail"
  /\ mail' = IF key.pid > 0 THEN [full |-> TRUE, to |-> Clients(key.win), held |-> down] ELSE NoMail
  /\ key' = IF box.focused /\ key.win = "gui"
            THEN KeyAt("edit", StrLen(box.text), FALSE)
            ELSE KeyAt("line", 0, FALSE)
  /\ UNCHANGED <<limits, proc, mem, typed, gui, child, focus, term, box, down>>

\* Mutant: the text is shifted from one place after the cursor.
BoxInsertLate(b, len, c) ==
  [text |-> [ShiftUp(b.text, b.cur + 1, len) EXCEPT ![b.cur] = c], focused |-> b.focused, cur |-> b.cur + 1]

\* Model bound: a cursor that has left the text stops at the last cell; in the
\* code it goes on past the array.
BoxInsert(b, len, c) ==
  IF len >= limits.box \/ b.cur = limits.box + 1 THEN b
  ELSE [text |-> [ShiftUp(b.text, b.cur, len) EXCEPT ![b.cur] = c], focused |-> b.focused, cur |-> b.cur + 1]

BoxDelete(b, len) ==
  IF b.cur = 0 THEN b
  ELSE [text |-> ShiftDown(b.text, b.cur, len), focused |-> b.focused, cur |-> b.cur - 1]

KeyEdits ==
  /\ key.at = "edit"
  /\ box' = IF key.ch = "back" THEN BoxDelete(box, key.len)
            ELSE IF key.ch \in Chars THEN BoxInsert(box, key.len, key.ch) ELSE box
  /\ key' = KeyAt("line", 0, FALSE)
  /\ UNCHANGED <<limits, proc, mem, typed, gui, child, focus, term, mail, down>>

\* Mutant: a program need not wait to get a key.
WaitsNot(p) == Alive(p)

Waits(p) == proc[p].waiting > 0

\* A program that waits gets the key; its pages are mounted a moment later.
KeyForProgram ==
  /\ key.at = "line"
  /\ key.pid > 0 /\ Waits(key.pid)
  /\ key' = KeyAt("app", 0, FALSE)
  /\ UNCHANGED <<limits, proc, mem, typed, gui, child, focus, term, box, mail, down>>

KeyLost ==
  /\ key.at = "line"
  /\ IF key.pid > 0 THEN ~Waits(key.pid) ELSE key.win # "term"
  /\ key' = Idle
  /\ UNCHANGED <<limits, proc, mem, typed, gui, child, focus, term, box, mail, down>>

\* input_max of a process that never read is 0.
InputMax(p) == IF proc[p].ptr THEN limits.input ELSE 0

Fits(p) == proc[p].idx < InputMax(p) - 1

\* History: the line of a reader, as a text.
TypedAfter(p, ch) ==
  IF ch = "back" THEN SubSeq(typed[p], 1, Len(typed[p]) - 1)
  ELSE IF ch \in Chars /\ Len(typed[p]) < limits.input - 1 THEN Append(typed[p], ch) ELSE typed[p]

\* The key in the line of a program.  It also goes to one that yielded, into
\* the buffer of an earlier read; through the null pointer of one that never
\* read, Enter writes outside what is modelled.
ProgramKey(p) ==
  /\ key.at = "app" /\ p = key.pid
  /\ typed' = IF proc[p].waiting = 1 THEN [typed EXCEPT ![p] = TypedAfter(p, key.ch)] ELSE typed
  /\ key' = Idle
  /\ UNCHANGED <<limits, gui, child, focus, term, box, mail, down>>

ProgramEnter(p) ==
  /\ ProgramKey(p)
  /\ key.ch = "enter"
  /\ mem' = IF proc[p].ptr THEN [mem EXCEPT ![p] = [@ EXCEPT ![proc[p].idx] = NUL]] ELSE mem
  /\ proc' = [proc EXCEPT ![p] = Process(@.kind, 0, @.idx, @.ptr)]

ProgramBack(p) ==
  /\ ProgramKey(p)
  /\ key.ch = "back" /\ proc[p].idx > 0
  /\ mem' = [mem EXCEPT ![p] = [@ EXCEPT ![proc[p].idx - 1] = NUL]]
  /\ proc' = [proc EXCEPT ![p] = Process(@.kind, @.waiting, @.idx - 1, @.ptr)]

ProgramChar(p) ==
  /\ ProgramKey(p)
  /\ key.ch \in Chars /\ Fits(p)
  /\ mem' = [mem EXCEPT ![p] = [i \in InputCells |->
               IF i = proc[p].idx THEN key.ch ELSE IF i = proc[p].idx + 1 THEN NUL ELSE @[i]]]
  /\ proc' = [proc EXCEPT ![p] = Process(@.kind, @.waiting, @.idx + 1, @.ptr)]

ProgramIgnores(p) ==
  /\ ProgramKey(p)
  /\ (key.ch = "back" /\ proc[p].idx = 0) \/ (key.ch \in Chars /\ ~Fits(p))
  /\ UNCHANGED <<mem, proc>>

\* A program starts: its slot keeps the input fields of the one before, its
\* memory is new.
FreePid == {p \in Apps : ~Alive(p) /\ \A q \in Apps : ~Alive(q) => p <= q}

Starts(p, kind) ==
  /\ p \in FreePid
  /\ kind # "text" => ~gui.open
  /\ proc' = [proc EXCEPT ![p] = Process(kind, 0, @.idx, @.ptr)]
  /\ mem' = [mem EXCEPT ![p] = [i \in InputCells |-> NUL]]
  /\ typed' = [typed EXCEPT ![p] = <<>>]
  /\ IF kind = "text" THEN UNCHANGED <<gui, focus>>
     ELSE gui' = [open |-> TRUE, owner |-> p] /\ focus' = "gui"

StartsNothing == UNCHANGED <<proc, mem, typed, gui, focus>>

\* The key in the command line of a terminal without programs.
TerminalKey == key.at = "line" /\ key.pid = -1 /\ key.win = "term" /\ key' = Idle

TerminalBack ==
  /\ TerminalKey
  /\ key.ch = "back"
  /\ term' = IF term.cur = 0 THEN term
             ELSE [buf |-> ShiftDown(term.buf, term.cur, term.len), len |-> term.len - 1, cur |-> term.cur - 1]
  /\ StartsNothing
  /\ UNCHANGED <<limits, child, box, mail, down>>

\* Mutant: the line is shifted from one place after the cursor.
TerminalCharLate(c) ==
  [buf |-> [ShiftUp(term.buf, term.cur + 1, term.len) EXCEPT ![term.cur] = c], len |-> term.len + 1, cur |-> term.cur + 1]

TerminalChar(c) ==
  [buf |-> [ShiftUp(term.buf, term.cur, term.len) EXCEPT ![term.cur] = c], len |-> term.len + 1, cur |-> term.cur + 1]

TerminalInsert ==
  /\ TerminalKey
  /\ key.ch \in Chars
  /\ term' = IF term.len < limits.term THEN TerminalChar(key.ch) ELSE term
  /\ StartsNothing
  /\ UNCHANGED <<limits, child, box, mail, down>>

\* Mutant: the line is not ended.
TerminalSentOpen == [term EXCEPT !.len = 0, !.cur = 0]

TerminalSent == [buf |-> [term.buf EXCEPT ![term.len] = NUL], len |-> 0, cur |-> 0]

\* A "run" of a corrupt file or of a Ring 0 program goes on with the next event
\* before it comes to where the line is emptied.
TerminalRefused == [buf |-> [term.buf EXCEPT ![term.len] = NUL], len |-> term.len, cur |-> term.cur]

\* Enter ends the string, the command runs, and may start a program.
TerminalEnter ==
  /\ TerminalKey
  /\ key.ch = "enter"
  /\ \/ term' = TerminalSent /\ StartsNothing
     \/ term' = TerminalSent /\ \E p \in Apps, kind \in {"text", "run"} : Starts(p, kind)
     \/ term.len > 0 /\ term' = TerminalRefused /\ StartsNothing
  /\ UNCHANGED <<limits, child, box, mail, down>>

-----------------------------------------------------------------------------
(* The mouse *)

\* Mutant: a press leaves the mailbox as it is.
PressedMailKept == mail

\* The press empties the mailbox.
PressedMail == NoMail

\* A packet wakes the owner of window_order[0]: any window, for this model.
PacketWakes == \E w \in Windows : proc' = Woken(w)

\* A press empties the mailbox, and may land on a window, a text or a menu.
Press ==
  /\ key.at = "idle" /\ ~down /\ down' = TRUE
  /\ mail' = PressedMail
  /\ UNCHANGED <<limits, child, key>>

PressElsewhere ==
  /\ Press
  /\ PacketWakes
  /\ UNCHANGED <<mem, typed, gui, focus, term, box>>

PressTerminal ==
  /\ Press
  /\ PacketWakes
  /\ focus' = "term"
  /\ \E cur \in 0 .. term.len : term' = [buf |-> term.buf, len |-> term.len, cur |-> cur]
  /\ UNCHANGED <<mem, typed, gui, box>>

PressGui ==
  /\ Press
  /\ gui.open
  /\ PacketWakes
  /\ focus' = "gui"
  /\ \/ limits.box > 0 /\ \E cur \in 0 .. StrLen(box.text) : box' = [text |-> box.text, focused |-> TRUE, cur |-> cur]
     \/ box' = [text |-> box.text, focused |-> FALSE, cur |-> box.cur]
  /\ UNCHANGED <<mem, typed, gui, term>>

PressChild ==
  /\ Press
  /\ child.open
  /\ PacketWakes
  /\ focus' = "child"
  /\ UNCHANGED <<mem, typed, gui, term, box>>

PressProgram ==
  /\ Press
  /\ \E p \in Apps : Starts(p, "menu")
  /\ UNCHANGED <<term, box>>

MouseMoves ==
  /\ key.at = "idle"
  /\ PacketWakes /\ proc' # proc
  /\ UNCHANGED <<limits, mem, typed, gui, child, focus, term, box, key, mail, down>>

Release ==
  /\ key.at = "idle" /\ down /\ down' = FALSE
  /\ UNCHANGED <<limits, term, box, key>>

ReleaseElsewhere ==
  /\ Release
  /\ PacketWakes
  /\ UNCHANGED <<mem, typed, gui, child, focus, mail>>

ReleaseInfo ==
  /\ Release
  /\ \E p \in Apps : Starts(p, "menu")
  /\ UNCHANGED <<child, mail>>

\* Processes end: nobody is left for whom the key in the mailbox was.
Ends(S) ==
  /\ proc' = [p \in Apps |-> IF p \in S THEN Process("none", proc[p].waiting, proc[p].idx, proc[p].ptr) ELSE proc[p]]
  /\ mail' = [full |-> mail.full, to |-> mail.to \ S, held |-> mail.held]
  /\ UNCHANGED <<limits, mem, typed, focus, term, box>>

Closes(w, S) == [open |-> w.open /\ w.owner \notin S, owner |-> w.owner]

\* The close button of the program window ends its clients.
ReleaseClose ==
  /\ key.at = "idle" /\ down /\ down' = FALSE
  /\ gui.open
  /\ LET S == {p \in Apps : Alive(p) /\ Linked(p) = "gui"}
     IN Ends(S) /\ gui' = [open |-> FALSE, owner |-> gui.owner] /\ child' = Closes(child, S)
  /\ UNCHANGED key

ReleaseCloseChild ==
  /\ Release
  /\ child.open
  /\ child' = [open |-> FALSE, owner |-> child.owner]
  /\ PacketWakes
  /\ UNCHANGED <<mem, typed, gui, focus, mail>>

-----------------------------------------------------------------------------
(* The programs: their syscalls run masked, at any place of pid 0 *)

\* Mutant: a read goes on where the last one ended.
BeganAtOld(r) == Process(r.kind, 1, r.idx, TRUE)

Began(r) == Process(r.kind, 1, 0, TRUE)

Read(p) ==
  /\ Runs(p)
  /\ limits.input > 0
  /\ proc' = [proc EXCEPT ![p] = Began(@)]
  /\ typed' = [typed EXCEPT ![p] = <<>>]
  /\ UNCHANGED <<limits, mem, gui, child, focus, term, box, key, mail, down>>

Yield(p) ==
  /\ Runs(p)
  /\ proc' = [proc EXCEPT ![p] = Process(@.kind, 2, @.idx, @.ptr)]
  /\ UNCHANGED <<limits, mem, typed, gui, child, focus, term, box, key, mail, down>>

GetKey(p) ==
  /\ Runs(p)
  /\ Linked(p) = focus /\ mail.full
  /\ mail' = NoMail
  /\ UNCHANGED <<limits, proc, mem, typed, gui, child, focus, term, box, key, down>>

\* The window is drawn again, with any text in the textbox.
Texts == UNION {[1 .. n -> limits.chars] : n \in 0 .. limits.box}
Drawn(s) == [i \in BoxCells |-> IF i < Len(s) THEN s[i + 1] ELSE IF i = Len(s) THEN NUL ELSE box.text[i]]

Draw(p, s) ==
  /\ Runs(p)
  /\ limits.box > 0 /\ gui.owner = p
  /\ box' = [text |-> Drawn(s), focused |-> box.focused, cur |-> box.cur]
  /\ key' = IF key.at = "edit" THEN KeyAt("edit", key.len, TRUE) ELSE key
  /\ UNCHANGED <<limits, proc, mem, typed, gui, child, focus, term, mail, down>>

ChildWindow(p) ==
  /\ Runs(p)
  /\ ~child.open
  /\ child' = [open |-> TRUE, owner |-> p]
  /\ focus' = "child"
  /\ UNCHANGED <<limits, proc, mem, typed, gui, term, box, key, mail, down>>

\* Exit closes the windows, a return or a fault does not.
Exit(p) ==
  /\ Runs(p)
  /\ Ends({p})
  /\ \/ gui' = Closes(gui, {p}) /\ child' = Closes(child, {p})
     \/ UNCHANGED <<gui, child>>
  /\ UNCHANGED <<key, down>>

Kernel ==
  \/ \E ch \in Typed : KeyArrives(ch) \/ ArrowArrives(ch)
  \/ KeyMailed \/ KeyEdits \/ KeyForProgram \/ KeyLost
  \/ \E p \in Apps : ProgramEnter(p) \/ ProgramBack(p) \/ ProgramChar(p) \/ ProgramIgnores(p)
  \/ TerminalBack \/ TerminalInsert \/ TerminalEnter
  \/ PressElsewhere \/ PressTerminal \/ PressGui \/ PressChild \/ PressProgram \/ MouseMoves
  \/ ReleaseElsewhere \/ ReleaseInfo \/ ReleaseClose \/ ReleaseCloseChild

Programs ==
  \E p \in Apps :
    Read(p) \/ Yield(p) \/ GetKey(p) \/ ChildWindow(p) \/ Exit(p) \/ \E s \in Texts : Draw(p, s)

Next == Kernel \/ Programs

Spec == Init /\ [][Next]_vars

-----------------------------------------------------------------------------
\* The variables keep their types.
TypeOK ==
  /\ limits \in Limits
  /\ proc \in [Apps -> [kind : Kinds, waiting : 0 .. 2, idx : InputCells \cup {0}, ptr : BOOLEAN]]
  /\ mem \in [Apps -> [InputCells -> Cells]]
  /\ typed \in [Apps -> Seq(Chars)]
  /\ gui \in [open : BOOLEAN, owner : Apps \cup {0}]
  /\ child \in [open : BOOLEAN, owner : Apps \cup {0}]
  /\ focus \in Windows
  /\ term \in [buf : [TermCells -> Cells], len : 0 .. limits.term, cur : 0 .. limits.term]
  /\ box \in [text : [BoxCells -> Cells], focused : BOOLEAN, cur : BoxCells]
  /\ key \in [at : {"idle", "mail", "edit", "line", "app"}, ch : Keys, win : Windows,
              pid : Apps \cup {-1}, len : BoxCells, torn : BOOLEAN]
  /\ mail \in [full : BOOLEAN, to : SUBSET Apps, held : BOOLEAN]
  /\ down \in BOOLEAN

\* The command line is a text with a cursor in it, through the shifts of
\* t_buffer, the arrows and the clicks.
TermLine == INSTANCE EditLine WITH text <- Prefix(term.buf, term.len), cur <- term.cur, room <- limits.term
TermIsALine == TermLine!Spec

\* What the commands compare, up to the first NUL, is the line that was edited,
\* to its last character and no further, whatever earlier and longer lines have
\* left behind it.  (The line itself is not always begun empty: see EnterEmpties.)
EntersLine == TerminalKey /\ key.ch = "enter"

CommandSeen ==
  [][EntersLine => Str(term'.buf) = Prefix(term.buf, term.len)]_vars

\* Enter leaves an empty command line for the next command.
EnterEmpties == [][EntersLine => term'.len = 0 /\ term'.cur = 0]_vars

\* So is a textbox, as long as its cursor is in the text and the program does
\* not draw between the measure of the text and the edit.
BoxLine == INSTANCE EditLine WITH text <- Str(box.text), cur <- box.cur, room <- limits.box
InText == box.cur <= StrLen(box.text)
BoxEdits ==
  [][InText /\ ~key.torn /\ key'.at # key.at => (BoxLine!Edit \/ UNCHANGED <<box.text, box.cur>>)]_vars

\* The keys and the mouse never take the cursor out of the text: it is out only
\* when the program draws a shorter one, or has drawn in that gap.
CursorStays ==
  [][InText /\ ~InText' => key.torn \/ UNCHANGED <<box.cur, key.at, down>>]_vars

\* So the shifting code of the textboxes, keys and clicks in any order, is that
\* of a line with a cursor in it.
BoxIsALine == BoxEdits /\ CursorStays

\* A program that reads has in its buffer what was typed since it began, and
\* when it goes on, the string is that line.
ReadHoldsTyped ==
  [][\A p \in Apps : proc[p].waiting = 1 /\ Alive(p) /\ Alive(p)' =>
       /\ Prefix(mem'[p], proc'[p].idx) = typed'[p]
       /\ proc'[p].waiting = 0 => Str(mem'[p]) = typed[p]]_vars

\* The buffer of a program does not change under it: the handler looks at
\* waiting_for_input, and mounts the pages and writes a moment later.
RunningUntouched ==
  [][\A p \in Apps : Alive(p) /\ Alive(p)' /\ proc[p].waiting = 0 => mem'[p] = mem[p]]_vars

\* A key in the mailbox is taken by a program that the focused window belonged
\* to when it was typed, unless the mouse button was held.
NoGhostKey ==
  [][\A p \in Apps : GetKey(p) => p \in mail.to \/ mail.held]_vars
=============================================================================
