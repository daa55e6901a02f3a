---------------------------- MODULE UartFraming ----------------------------
(***************************************************************************)
(* The receive interrupt of platform/stm32/uart.c: bytes become frames in  *)
(* a bounded queue, which Communications empties.  A byte is a delimiter,  *)
(* a member of Text, or ERR: a byte received with an overrun, noise,       *)
(* framing or parity flag, whose value is thrown away.  heard and taken    *)
(* are histories; nothing in the code reads them.                          *)
(***************************************************************************)
EXTENDS Integers, SequencesExt, FiniteSetsExt

CONSTANTS
  Text,          \* bytes that are neither CR nor LF
  LineCapacity,  \* bytes kept of a line (UART_RX_LINE_CAPACITY)
  RxCapacity,    \* frames the queue holds (RX_FRAMES)
  MaxBytes       \* bound: bytes received in a behaviour

ASSUME FramingAssumption ==
  /\ Text \cap {"CR", "LF", "ERR"} = {}
  /\ LineCapacity \in Nat \ {0} /\ RxCapacity \in Nat \ {0} /\ MaxBytes \in Nat

VARIABLES
  partial,   \* the line being received, at most LineCapacity bytes
  skipLf,    \* the last byte was a CR
  discard,   \* an error spoiled the current line
  rx,        \* the queue of frames
  drops,     \* frames lost because the queue was full
  errors,    \* bytes received with an error
  heard,     \* history: every byte so far
  taken      \* history: every frame read so far

vars == <<partial, skipLf, discard, rx, drops, errors, heard, taken>>

Bytes == Text \cup {"CR", "LF", "ERR"}

Init ==
  /\ partial = <<>> /\ skipLf = FALSE /\ discard = FALSE
  /\ rx = <<>> /\ drops = 0 /\ errors = 0
  /\ heard = <<>> /\ taken = <<>>

----------------------------------------------------------------------------
\* One entry of the interrupt handler receives one byte.
Receive(byte) ==
  /\ Len(heard) < MaxBytes
  /\ heard' = Append(heard, byte)
  /\ UNCHANGED taken

BadByte ==
  /\ Receive("ERR")
  /\ errors' = errors + 1 /\ partial' = <<>> /\ discard' = TRUE
  /\ UNCHANGED <<skipLf, rx, drops>>

\* Mutant: every LF ends a line.
SwallowedNever(byte) == FALSE

\* The LF of a CR LF pair.
Swallowed(byte) == byte = "LF" /\ skipLf

SecondHalf ==
  /\ Swallowed("LF") /\ Receive("LF")
  /\ skipLf' = FALSE
  /\ UNCHANGED <<partial, discard, rx, drops, errors>>

\* A line ends: queue it unless it is spoiled or the queue is full.
Delimiter ==
  \E byte \in {"CR", "LF"} :
    /\ Receive(byte) /\ ~Swallowed(byte)
    /\ skipLf' = (byte = "CR")
    /\ partial' = <<>> /\ discard' = FALSE
    /\ \/ discard /\ UNCHANGED <<rx, drops>>
       \/ ~discard /\ Len(rx) < RxCapacity /\ rx' = Append(rx, partial) /\ UNCHANGED drops
       \/ ~discard /\ Len(rx) = RxCapacity /\ drops' = drops + 1 /\ UNCHANGED rx
    /\ UNCHANGED errors

\* Mutant: a long line wraps round and keeps its last bytes.
KeptWrapped(byte) ==
  IF Len(partial) < LineCapacity THEN Append(partial, byte) ELSE <<byte>>

\* A line longer than the buffer keeps its first bytes.
Kept(byte) ==
  IF Len(partial) < LineCapacity THEN Append(partial, byte) ELSE partial

TextByte ==
  \E byte \in Text :
    /\ Receive(byte)
    /\ skipLf' = FALSE
    /\ partial' = IF discard THEN partial ELSE Kept(byte)
    /\ UNCHANGED <<discard, rx, drops, errors>>

\* uart_try_read_line, called by Communications.
ReadLine ==
  /\ rx # <<>>
  /\ rx' = Tail(rx) /\ taken' = Append(taken, Head(rx))
  /\ UNCHANGED <<partial, skipLf, discard, drops, errors, heard>>

Next == BadByte \/ SecondHalf \/ Delimiter \/ TextByte \/ ReadLine

Spec == Init /\ [][Next]_vars

----------------------------------------------------------------------------
(***************************************************************************)
(* What the bytes say, without reading them one by one: positions of       *)
(* delimiters, and the lines between them.                                 *)
(***************************************************************************)
Ends == {i \in DOMAIN heard :
           /\ heard[i] \in {"CR", "LF"}
           /\ ~(heard[i] = "LF" /\ i > 1 /\ heard[i - 1] = "CR")}

\* The first byte of the line behind a delimiter; the LF of a CR LF belongs to
\* no line.
First(last) ==
  IF last < Len(heard) /\ heard[last + 1] = "LF" THEN last + 2 ELSE last + 1

\* The bytes of the line that ends at i.
LineAt(i) ==
  LET last == Max({0} \cup {j \in Ends : j < i})
  IN  SubSeq(heard, First(last), i - 1)

Clip(line) == SubSeq(line, 1, Min({Len(line), LineCapacity}))

\* The lines received without an error, by their ends.
Clean == {i \in Ends : "ERR" \notin ToSet(LineAt(i))}

\* An error in the very byte that follows a CR.
BrokenPair == \E i \in 2 .. Len(heard) : heard[i - 1] = "CR" /\ heard[i] = "ERR"

Received == taken \o rx

TypeOK ==
  /\ partial \in Seq(Text) /\ Len(partial) <= LineCapacity
  /\ skipLf \in BOOLEAN /\ discard \in BOOLEAN
  /\ rx \in Seq(Seq(Text)) /\ Len(rx) <= RxCapacity
  /\ drops \in Nat /\ errors \in Nat
  /\ heard \in Seq(Bytes) /\ taken \in Seq(Seq(Text))

\* Each frame is a clean line, in the order of the lines and each at most once.
FramesFromLines(frames) ==
  \E end \in [DOMAIN frames -> Clean] :
    \A k \in DOMAIN frames :
      /\ frames[k] = Clip(LineAt(end[k]))
      /\ \A j \in 1 .. k - 1 : end[j] < end[k]

\* Unless an error hits the byte after a CR, every clean line of the input is
\* queued, at most LineCapacity bytes long, or counted as dropped
\* (docs/stm32-port.md:32-36).
FramesAreLines ==
  ~BrokenPair => Len(Received) + drops = Cardinality(Clean)

\* Even then no frame is invented, repeated, reordered or joined from two lines.
NothingInvented == FramesFromLines(Received)

\* What reaches Communications is what was typed, and what is missing is counted.
LinesArrive == FramesAreLines /\ NothingInvented

\* docs/stm32-port.md:35, "Hardware errors discard the current line through
\* the next delimiter": every other line is queued or counted as dropped.
ErrorsCostOneLine == Len(Received) + drops = Cardinality(Clean)
=============================================================================
