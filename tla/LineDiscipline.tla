--------------------------- MODULE LineDiscipline ---------------------------
(***************************************************************************)
(* The console's line buffer (indo-kernel/src/keyboard.rs), fed by the     *)
(* keyboard and the serial interrupt, with the terminal flags of tty.rs    *)
(* and the readers of sys_read(0).                                         *)
(*                                                                         *)
(* Interrupt handlers and system calls run with interrupts masked, so each *)
(* is one step.  A blocked reader is woken by the timer (keyboard_wake),   *)
(* which the handlers ask for by setting KEYBOARD_WAKE_PENDING.            *)
(***************************************************************************)
EXTENDS Integers, Sequences

CONSTANTS
  LINE_BUF_SIZE,   \* size of the line buffer
  Chars,           \* ordinary characters
  Readers          \* processes that read standard input

ASSUME LineAssumption == LINE_BUF_SIZE \in Nat \ {0}

Enter == "\n"
Backspace == "BS"
SignalChar == "^C"    \* any of Ctrl+C, Ctrl+Z and Ctrl+\
Byte == Chars \cup {Enter, Backspace, SignalChar}
Zero == "\\0"          \* what the buffer holds before its first use

VARIABLES
  LINE_BUF,
  LINE_R,                 \* next byte to read
  LINE_W,                 \* end of the committed bytes
  LINE_E,                 \* end of the line being typed
  lflags,                 \* TTY_LFLAGS without ECHO
  KEYBOARD_WAKE_PENDING,
  blocked,                \* readers blocked with WakeReason::Keyboard
  got                     \* what the last read that found data returned

lines == <<LINE_BUF, LINE_R, LINE_W, LINE_E>>
vars == <<LINE_BUF, LINE_R, LINE_W, LINE_E, lflags, KEYBOARD_WAKE_PENDING, blocked, got>>

Flags == [canonical : BOOLEAN, isig : BOOLEAN]
Cooked == [canonical |-> TRUE, isig |-> TRUE]

Init ==
  /\ LINE_BUF = [i \in 0..(LINE_BUF_SIZE - 1) |-> Zero]
  /\ LINE_R = 0 /\ LINE_W = 0 /\ LINE_E = 0
  /\ lflags = Cooked
  /\ KEYBOARD_WAKE_PENDING = FALSE
  /\ blocked = {}
  /\ got = <<>>

-----------------------------------------------------------------------------
(* line_discipline_input, one action per kind of byte.  The serial handler *)
(* asks for a wake-up after every byte, the keyboard handler never does;   *)
(* "wake" says which of the two is the source.                             *)

IsSignal(b) == b = SignalChar /\ lflags.isig

\* tty::check_signal_char found a signal character.  send_signal_to_fg kills or
\* stops the readers of the foreground group and makes all others Ready.
InputSignal(b, wake) ==
  /\ IsSignal(b) /\ wake
  /\ blocked' = {}
  /\ KEYBOARD_WAKE_PENDING' = TRUE
  /\ UNCHANGED <<lines, lflags, got>>

\* Faulty variants, used only to see that the properties can fail, are named
\* <definition>_<fault>.
InputEnter_NoWake(b, wake) ==
  /\ b = Enter
  /\ LINE_W' = LINE_E
  /\ KEYBOARD_WAKE_PENDING' = (KEYBOARD_WAKE_PENDING \/ wake)
  /\ UNCHANGED <<LINE_BUF, LINE_R, LINE_E, lflags, blocked, got>>

\* The newline itself is not stored.
InputEnter(b, wake) ==
  /\ b = Enter
  /\ LINE_W' = LINE_E
  /\ KEYBOARD_WAKE_PENDING' = TRUE
  /\ UNCHANGED <<LINE_BUF, LINE_R, LINE_E, lflags, blocked, got>>

\* Store b at the end of the line, if there is room.
Store(b) ==
  IF LINE_E < LINE_BUF_SIZE
  THEN /\ LINE_BUF' = [LINE_BUF EXCEPT ![LINE_E] = b]
       /\ LINE_E' = LINE_E + 1
  ELSE UNCHANGED <<LINE_BUF, LINE_E>>

InputErase_Unchecked(b, wake) ==
  /\ b = Backspace /\ lflags.canonical
  /\ LINE_E' = LINE_E - 1
  /\ KEYBOARD_WAKE_PENDING' = (KEYBOARD_WAKE_PENDING \/ wake)
  /\ UNCHANGED <<LINE_BUF, LINE_R, LINE_W, lflags, blocked, got>>

\* Canonical backspace: it looks at LINE_R, not at LINE_W, so that at the start of a
\* line it takes back a byte of the line committed before, if that is not read yet.
InputErase(b, wake) ==
  /\ b = Backspace /\ lflags.canonical
  /\ LINE_E' = IF LINE_E > LINE_R THEN LINE_E - 1 ELSE LINE_E
  /\ KEYBOARD_WAKE_PENDING' = (KEYBOARD_WAKE_PENDING \/ wake)
  /\ UNCHANGED <<LINE_BUF, LINE_R, LINE_W, lflags, blocked, got>>

\* A backspace in raw mode is stored; it is not committed.
InputRawErase(b, wake) ==
  /\ b = Backspace /\ ~lflags.canonical
  /\ Store(b)
  /\ KEYBOARD_WAKE_PENDING' = (KEYBOARD_WAKE_PENDING \/ wake)
  /\ UNCHANGED <<LINE_R, LINE_W, lflags, blocked, got>>

\* Any other byte; in raw mode it is committed at once.
InputOther(b, wake) ==
  /\ b \in Chars \cup {SignalChar} /\ ~IsSignal(b)
  /\ b = SignalChar => wake
  /\ Store(b)
  /\ LET raw == ~lflags.canonical /\ LINE_E < LINE_BUF_SIZE
     IN /\ LINE_W' = IF raw THEN LINE_E + 1 ELSE LINE_W
        /\ KEYBOARD_WAKE_PENDING' = (KEYBOARD_WAKE_PENDING \/ wake \/ raw)
  /\ UNCHANGED <<LINE_R, lflags, blocked, got>>

line_discipline_input(b, wake) ==
  \/ InputSignal(b, wake) \/ InputEnter(b, wake) \/ InputErase(b, wake)
  \/ InputRawErase(b, wake) \/ InputOther(b, wake)

-----------------------------------------------------------------------------
(* System calls and the timer *)

Smaller(m, n) == IF m < n THEN m ELSE n

read_line_ResetsTyping(p, len) ==
  /\ p \notin blocked
  /\ \/ /\ LINE_R < LINE_W
        /\ LET n == Smaller(len, LINE_W - LINE_R)
               empty == LINE_R + n = LINE_W
           IN /\ got' = [i \in 1..n |-> LINE_BUF[LINE_R + i - 1]]
              /\ LINE_R' = IF empty THEN 0 ELSE LINE_R + n
              /\ LINE_W' = IF empty THEN 0 ELSE LINE_W
              /\ LINE_E' = IF empty THEN 0 ELSE LINE_E
        /\ UNCHANGED blocked
     \/ /\ LINE_R >= LINE_W
        /\ blocked' = blocked \cup {p}
        /\ UNCHANGED <<LINE_R, LINE_W, LINE_E, got>>
  /\ UNCHANGED <<LINE_BUF, lflags, KEYBOARD_WAKE_PENDING>>

\* keyboard::read_line into a buffer of len bytes.  Committed bytes are handed
\* over, and the indices go back to 0 when nothing is left, typed or committed;
\* with no committed byte the caller blocks and its read returns 0.
read_line(p, len) ==
  /\ p \notin blocked
  /\ \/ /\ LINE_R < LINE_W
        /\ LET n == Smaller(len, LINE_W - LINE_R)
               empty == LINE_R + n = LINE_W /\ LINE_E = LINE_W
           IN /\ got' = [i \in 1..n |-> LINE_BUF[LINE_R + i - 1]]
              /\ LINE_R' = IF empty THEN 0 ELSE LINE_R + n
              /\ LINE_W' = IF empty THEN 0 ELSE LINE_W
              /\ LINE_E' = IF empty THEN 0 ELSE LINE_E
        /\ UNCHANGED blocked
     \/ /\ LINE_R >= LINE_W
        /\ blocked' = blocked \cup {p}
        /\ UNCHANGED <<LINE_R, LINE_W, LINE_E, got>>
  /\ UNCHANGED <<LINE_BUF, lflags, KEYBOARD_WAKE_PENDING>>

\* tty_apply_termios; what is typed or committed stays as it is.
sys_tcsetattr(flags) ==
  /\ lflags' = flags
  /\ UNCHANGED <<lines, KEYBOARD_WAKE_PENDING, blocked, got>>

\* process::keyboard_wake, from the timer interrupt.
keyboard_wake ==
  /\ KEYBOARD_WAKE_PENDING
  /\ KEYBOARD_WAKE_PENDING' = FALSE
  /\ blocked' = {}
  /\ UNCHANGED <<lines, lflags, got>>

Input == \E b \in Byte, wake \in BOOLEAN : line_discipline_input(b, wake)
Read == \E p \in Readers, len \in 1..LINE_BUF_SIZE : read_line(p, len)

Next ==
  \/ Input
  \/ Read
  \/ \E flags \in Flags : sys_tcsetattr(flags)
  \/ keyboard_wake

Spec == Init /\ [][Next]_vars
-----------------------------------------------------------------------------

\* Every variable keeps its shape and no index leaves the buffer, so that no
\* access to LINE_BUF is out of bounds.
TypeOK ==
  /\ LINE_BUF \in [0..(LINE_BUF_SIZE - 1) -> Byte \cup {Zero}]
  /\ LINE_R \in 0..LINE_BUF_SIZE
  /\ LINE_W \in 0..LINE_BUF_SIZE
  /\ LINE_E \in 0..LINE_BUF_SIZE
  /\ lflags \in Flags
  /\ KEYBOARD_WAKE_PENDING \in BOOLEAN
  /\ blocked \subseteq Readers
  /\ got \in Seq(Byte \cup {Zero})

\* The line buffer's documented invariant: what was read, what is committed and
\* what is being typed follow each other in the buffer.
Ordered == LINE_R <= LINE_W /\ LINE_W <= LINE_E

\* A backspace takes back the last byte of a committed line.
TakesBack ==
  /\ lflags.canonical /\ LINE_R < LINE_E /\ LINE_E = LINE_W
  /\ LINE_E' = LINE_E - 1
  /\ UNCHANGED <<LINE_BUF, LINE_R, LINE_W, lflags, blocked, got>>

\* The documented order of the indices is broken by one step only, a backspace at
\* the start of a line typed ahead of the reader; no read, commit, raw byte, full
\* buffer or change of the terminal flags in between breaks it.
PointerOrder == Ordered /\ [][Ordered => Ordered' \/ TakesBack]_vars

\* A reader never sleeps on data: while one is blocked and a committed byte can be
\* read, the wake-up that the interrupt handler asks for is pending.
NoLostWake == blocked # {} /\ LINE_R < LINE_W => KEYBOARD_WAKE_PENDING

\* The committed bytes not read yet, and the line being typed.
Between(i, j) == [k \in 1..(j - i) |-> LINE_BUF[i + k - 1]]
Stream == INSTANCE ConsoleStream WITH
  committed <- Between(LINE_R, LINE_W),
  edit <- Between(LINE_W, LINE_E)

\* As long as the indices are in order, the three of them and the fixed buffer
\* implement the stream of ConsoleStream: reads return the committed bytes in
\* order, each once, and losing a byte is only possible while it is typed into a
\* full buffer.  A step out of order, or back into it, is not the stream's: bytes
\* taken back after they were committed may be read, or typed over.
StreamSpec == Stream!Init /\ [][Ordered /\ Ordered' => [Stream!Next]_(Stream!streamVars)]_vars
=============================================================================
