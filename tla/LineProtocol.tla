---------------------------- MODULE LineProtocol ----------------------------
(***************************************************************************)
(* The text protocol: command_parse of protocol/command.c, and the way the *)
(* two telemetry adapters print a line (uart_print with vsnprintf or with  *)
(* tiny_vformat, then uart_write).  A character is a one-letter string;    *)
(* "V" stands for the name of a command with an argument and "N" for one   *)
(* without, because only whole names are compared.  The variable line      *)
(* takes every value over Alphabet, character by character.                *)
(***************************************************************************)
EXTENDS Integers, SequencesExt, FiniteSetsExt

CONSTANTS
  Alphabet,         \* characters lines are made of
  CommandCapacity,  \* COMMAND_LINE_CAPACITY
  IntMax,           \* INT32_MAX
  MaxWrite,         \* UART_TX_MAX_WRITE
  MaxLine           \* bound: length of a line

ASSUME ProtocolAssumption ==
  /\ IntMax \in Nat /\ IntMax >= 9
  /\ CommandCapacity \in Nat \ {0} /\ MaxWrite \in Nat /\ MaxLine \in Nat

VARIABLE line

\* The harness or the wire delivers any line.
Type(char) == Len(line) < MaxLine /\ line' = Append(line, char)

LineSpec == line = <<>> /\ [][\E char \in Alphabet : Type(char)]_line

----------------------------------------------------------------------------
(***************************************************************************)
(* command_parse.                                                          *)
(***************************************************************************)
DigitChars == <<"0", "1", "2", "3", "4", "5", "6", "7", "8", "9">>

IsDigit(char) == \E i \in DOMAIN DigitChars : DigitChars[i] = char

DigitValue(char) == (CHOOSE i \in DOMAIN DigitChars : DigitChars[i] = char) - 1

IsSpace(char) == char = " "

\* Without its leading, or its leading and trailing, whitespace.
SkipSpace(text) ==
  LET dark == {i \in DOMAIN text : ~IsSpace(text[i])}
  IN  IF dark = {} THEN <<>> ELSE SubSeq(text, Min(dark), Len(text))

Trim(text) == Reverse(SkipSpace(Reverse(SkipSpace(text))))

\* The first word of a text that does not begin with whitespace.
FirstWord(text) ==
  SubSeq(text, 1, Min({i \in DOMAIN text : IsSpace(text[i])} \cup {Len(text) + 1}) - 1)

\* Mutant: the test that is right for binary shifts, one digit too late.
TooBigLate(value, digit, limit) == value > limit \div 10

\* What keeps value * 10 + digit within the limit, without computing it.
TooBig(value, digit, limit) == value > (limit - digit) \div 10

NoNumber == [ok |-> FALSE, value |-> 0]

\* One turn of the digit loop.
Accumulate(number, char, limit) ==
  IF ~number.ok \/ ~IsDigit(char) THEN NoNumber
  ELSE IF TooBig(number.value, DigitValue(char), limit) THEN NoNumber
  ELSE [ok |-> TRUE, value |-> number.value * 10 + DigitValue(char)]

Zero == [ok |-> TRUE, value |-> 0]

\* The loop over all of them.
Number(digits, limit) ==
  LET upto[i \in 0 .. Len(digits)] ==
        IF i = 0 THEN Zero ELSE Accumulate(upto[i - 1], digits[i], limit)
  IN  upto[Len(digits)]

Limit(negative) == IF negative THEN IntMax + 1 ELSE IntMax

\* The argument: an optional sign and digits up to the end of the text.
Argument(text) ==
  LET signed   == text # <<>> /\ Head(text) \in {"-", "+"}
      negative == signed /\ Head(text) = "-"
      digits   == IF signed THEN Tail(text) ELSE text
      number   == Number(digits, Limit(negative))
  IN  IF digits = <<>> \/ ~number.ok THEN NoNumber
      ELSE [ok |-> TRUE, value |-> IF negative THEN -number.value ELSE number.value]

Refused(why) == [result |-> why, verb |-> "none", value |-> 0]

Full(text) == Len(text) >= CommandCapacity

command_parse(frame) ==
  LET text == Trim(frame)
      word == FirstWord(text)
      rest == SkipSpace(SubSeq(text, Len(word) + 1, Len(text)))
      arg  == Argument(rest)
  IN  CASE Full(frame)  -> Refused("TOO_LONG")
        [] ~Full(frame) /\ text = <<>> -> Refused("EMPTY")
        [] ~Full(frame) /\ word = <<"N">> ->
             IF rest = <<>> THEN [result |-> "OK", verb |-> "N", value |-> 0]
                            ELSE Refused("ARGUMENT")
        [] ~Full(frame) /\ word = <<"V">> ->
             IF arg.ok THEN [result |-> "OK", verb |-> "V", value |-> arg.value]
                       ELSE Refused("ARGUMENT")
        [] OTHER -> Refused("UNKNOWN")

----------------------------------------------------------------------------
(***************************************************************************)
(* Printing.                                                               *)
(***************************************************************************)
\* Mutant: digits of the magnitude as int, which INT32_MIN does not have.
MagnitudeSaturated(value) == IF value < 0 THEN Min({-value, IntMax}) ELSE value

\* 0U - (uint32_t)value for a negative one.
Magnitude(value) == IF value < 0 THEN -value ELSE value

\* integer: the decimal digits, most significant first.
Decimal[n \in Nat] ==
  Append(IF n < 10 THEN <<>> ELSE Decimal[n \div 10], DigitChars[(n % 10) + 1])

\* tiny_vformat for %ld.
FormatInt(value) ==
  (IF value < 0 THEN <<"-">> ELSE <<>>) \o Decimal[Magnitude(value)]

\* What tiny_vformat leaves of a text in a buffer, the terminating NUL aside.
TinyFormat(text, capacity) ==
  IF Len(text) < capacity THEN [length |-> Len(text), data |-> text]
  ELSE [length |-> -1, data |-> SubSeq(text, 1, capacity - 1)]

\* vsnprintf returns the length the text would have had.
HostFormat(text, capacity) ==
  [length |-> Len(text),
   data   |-> IF Len(text) < capacity THEN text ELSE SubSeq(text, 1, capacity - 1)]

\* Mutant: the host's buffer is as long as a write may be.
BufferTight == MaxWrite

\* uart_print's char text[UART_TX_MAX_WRITE + 1U].
Buffer == MaxWrite + 1

\* A NUL follows what the formatter wrote.
Sent(formatted) == SubSeq(Append(formatted.data, "NUL"), 1, formatted.length)

Nothing == <<>>

\* uart_print and uart_write of the host: what reaches the sink.
HostPrint(text) ==
  LET formatted == HostFormat(text, Buffer)
  IN  IF formatted.length > MaxWrite THEN Nothing ELSE Sent(formatted)

\* uart_print and uart_write of the target, while the transmitter keeps up.
TargetPrint(text) ==
  LET formatted == TinyFormat(text, Buffer)
  IN  IF formatted.length < 0 THEN Nothing ELSE Sent(formatted)

----------------------------------------------------------------------------
(***************************************************************************)
(* What protocol.md says of the same lines, by words and numerals instead  *)
(* of by scanning.                                                         *)
(***************************************************************************)
Words ==
  {w \in (DOMAIN line) \X (DOMAIN line) :
     /\ w[1] <= w[2] /\ \A i \in w[1] .. w[2] : ~IsSpace(line[i])
     /\ w[1] = 1 \/ IsSpace(line[w[1] - 1])
     /\ w[2] = Len(line) \/ IsSpace(line[w[2] + 1])}

Word(w) == SubSeq(line, w[1], w[2])

Leftmost(words) == CHOOSE w \in words : \A v \in words : w[1] <= v[1]

\* An optionally signed decimal numeral and its value, however long it is: each
\* digit makes the tens of those before it.
Digits(word) == IF word[1] \in {"-", "+"} THEN Tail(word) ELSE word

IsNumeral(word) == Digits(word) # <<>> /\ \A i \in DOMAIN Digits(word) : IsDigit(Digits(word)[i])

Worth(digits) ==
  LET upto[i \in 0 .. Len(digits)] ==
        IF i = 0 THEN 0 ELSE 10 * upto[i - 1] + DigitValue(digits[i])
  IN  upto[Len(digits)]

NumeralValue(word) == IF word[1] = "-" THEN -Worth(Digits(word)) ELSE Worth(Digits(word))

InRange(value) == value >= -IntMax - 1 /\ value <= IntMax

Meaning ==
  LET first  == Leftmost(Words)
      others == Words \ {first}
      second == Word(Leftmost(others))
      argument == /\ others # {} /\ others = {Leftmost(others)}
                  /\ IsNumeral(second) /\ InRange(NumeralValue(second))
  IN  IF Len(line) >= CommandCapacity THEN Refused("TOO_LONG")
      ELSE IF Words = {} THEN Refused("EMPTY")
      ELSE IF Word(first) \notin {<<"V">>, <<"N">>} THEN Refused("UNKNOWN")
      ELSE IF Word(first) = <<"N">> /\ others = {}
           THEN [result |-> "OK", verb |-> "N", value |-> 0]
      ELSE IF Word(first) = <<"V">> /\ argument
           THEN [result |-> "OK", verb |-> "V", value |-> NumeralValue(second)]
      ELSE Refused("ARGUMENT")

\* protocol.md:3-6 and 55-58.  A line is a command exactly when it has the
\* grammar's words and its numeral is in the 32-bit range, and then it means
\* that number; otherwise it is refused for the reason the table names.  A line
\* that fills the receiver's buffer, perhaps the beginning of a longer one
\* (comms_task.c:5), is among the refused.
ParserIsExact == command_parse(line) = Meaning

\* Every 32-bit value printed by the target is read back as the same command.
PrintedIsRead ==
  line = <<>> =>
    \A value \in -IntMax - 1 .. IntMax :
      Argument(FormatInt(value)) = [ok |-> TRUE, value |-> value]

\* telemetry_host.c:20 and stm32/telemetry.c:19: both adapters send the whole
\* line or nothing of it, and they send the same lines.
NothingTruncated ==
  /\ HostPrint(line) = TargetPrint(line)
  /\ HostPrint(line) \in {line, Nothing}
  /\ Len(line) <= MaxWrite => HostPrint(line) = line

\* protocol.md:3 and 95.  A number or a line that is printed arrives as it was.
PrintsAreRead == PrintedIsRead /\ NothingTruncated
=============================================================================
