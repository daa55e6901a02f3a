--------------------------- MODULE ProtocolProofs ---------------------------
(***************************************************************************)
(* Theorems about the protocol: the reception of lines, for every input of *)
(* any length and every size of the line buffer and of the queue, and the  *)
(* parsing and printing of lines, for every width of an integer and every  *)
(* size of the buffers.                                                    *)
(***************************************************************************)
EXTENDS UartFraming, LineProtocol, SequenceTheorems, FiniteSetTheorems, WellFoundedInduction, TLAPS

----------------------------------------------------------------------------
(***************************************************************************)
(* Numbers and sequences.                                                  *)
(***************************************************************************)
LEMMA LeastMember ==
  ASSUME NEW S, S \subseteq Nat, S # {}
  PROVE  \E x \in S : \A y \in S : x <= y
<1>1. \E x \in S : \A y \in S : <<y, x>> \notin OpToRel(<, Nat)
  BY WFMin, NatLessThanWellFounded
<1>2. PICK x \in S : \A y \in S : <<y, x>> \notin OpToRel(<, Nat)
  BY <1>1
<1>3. \A y \in S : <<y, x>> \in Nat \X Nat
  BY <1>2
<1>4. \A y \in S : ~(y < x)
  BY <1>2, <1>3 DEF OpToRel
<1>5. \A y \in S : x <= y
  BY <1>4
<1>6. QED
  BY <1>5

LEMMA MaxIsGreatest ==
  ASSUME NEW n \in Nat, NEW S, S \subseteq 0 .. n, S # {}
  PROVE  Max(S) \in S /\ \A y \in S : y <= Max(S)
<1> DEFINE R == {n - x : x \in S}
<1>1. R \subseteq Nat
  OBVIOUS
<1>2. PICK some \in S : TRUE
  OBVIOUS
<1>3. R # {}
  BY <1>2
<1>4. PICK r \in R : \A q \in R : r <= q
  BY <1>1, <1>3, LeastMember
<1>5. PICK x \in S : r = n - x
  BY <1>4
<1>6. \A y \in S : y <= x
  <2> TAKE y \in S
  <2>1. n - y \in R
    OBVIOUS
  <2>2. n - x <= n - y
    BY <1>4, <1>5, <2>1
  <2>3. QED
    BY <2>2
<1>7. \E z \in S : \A y \in S : z >= y
  BY <1>6
<1>8. Max(S) \in S /\ \A y \in S : Max(S) >= y
  BY <1>7 DEF Max
<1>9. QED
  BY <1>8

LEMMA MinOfTwo ==
  ASSUME NEW m \in Nat, NEW n \in Nat
  PROVE  Min({m, n}) = IF m <= n THEN m ELSE n
BY DEF Min

LEMMA SpanFacts ==
  ASSUME NEW S, NEW s \in Seq(S), NEW a \in Nat \ {0}, NEW b \in 0 .. Len(s)
  PROVE  /\ SubSeq(s, a, b) \in Seq(S)
         /\ Len(SubSeq(s, a, b)) = IF a <= b THEN b - a + 1 ELSE 0
         /\ \A i \in 1 .. b - a + 1 : SubSeq(s, a, b)[i] = s[a + i - 1]
<1>1. Len(s) \in Nat
  BY LenProperties
<1>2. \A i \in a .. b : s[i] \in S
  BY <1>1, ElementOfSeq
<1>3. a \in Int /\ b \in Int
  BY <1>1
<1>4. QED
  BY <1>2, <1>3, SubSeqProperties

LEMMA SpanMembers ==
  ASSUME NEW S, NEW s \in Seq(S), NEW a \in Nat \ {0}, NEW b \in 0 .. Len(s), NEW x
  PROVE  x \in ToSet(SubSeq(s, a, b)) <=> \E k \in a .. b : s[k] = x
<1> DEFINE t == SubSeq(s, a, b)
<1>1. /\ Len(s) \in Nat /\ t \in Seq(S)
      /\ Len(t) = IF a <= b THEN b - a + 1 ELSE 0
      /\ \A i \in 1 .. b - a + 1 : t[i] = s[a + i - 1]
  BY SpanFacts, LenProperties
<1>2. DOMAIN t = 1 .. Len(t)
  BY <1>1, LenProperties
<1> HIDE DEF t
<1>3. ASSUME x \in ToSet(t) PROVE \E k \in a .. b : s[k] = x
  <2>1. PICK i \in DOMAIN t : t[i] = x
    BY <1>3 DEF ToSet
  <2>2. i \in 1 .. b - a + 1 /\ a + i - 1 \in a .. b
    BY <1>1, <1>2, <2>1
  <2>3. QED
    BY <1>1, <2>1, <2>2
<1>4. ASSUME NEW k \in a .. b, s[k] = x PROVE x \in ToSet(t)
  <2>1. k - a + 1 \in 1 .. b - a + 1 /\ k - a + 1 \in DOMAIN t /\ a + (k - a + 1) - 1 = k
    BY <1>1, <1>2
  <2>2. t[k - a + 1] = x
    BY <1>1, <1>4, <2>1
  <2>3. QED
    BY <2>1, <2>2 DEF ToSet
<1>5. QED
  BY <1>3, <1>4 DEF t

LEMMA AppendFacts ==
  ASSUME NEW S, NEW s \in Seq(S), NEW x \in S
  PROVE  /\ Append(s, x) \in Seq(S) /\ Len(Append(s, x)) = Len(s) + 1 /\ Len(s) \in Nat
         /\ \A i \in 1 .. Len(s) : Append(s, x)[i] = s[i]
         /\ Append(s, x)[Len(s) + 1] = x
  BY LenProperties

LEMMA SameSpan ==
  ASSUME NEW S, NEW s \in Seq(S), NEW x \in S, NEW a \in Nat \ {0}, NEW b \in 0 .. Len(s)
  PROVE  SubSeq(Append(s, x), a, b) = SubSeq(s, a, b)
<1> DEFINE t == Append(s, x)
<1>1. t \in Seq(S) /\ Len(t) = Len(s) + 1 /\ Len(s) \in Nat
      /\ \A i \in 1 .. Len(s) : t[i] = s[i]
  BY AppendFacts
<1> HIDE DEF t
<1>2. b \in 0 .. Len(t)
  BY <1>1
<1>3. /\ SubSeq(s, a, b) \in Seq(S) /\ SubSeq(t, a, b) \in Seq(S)
      /\ Len(SubSeq(s, a, b)) = (IF a <= b THEN b - a + 1 ELSE 0)
      /\ Len(SubSeq(t, a, b)) = (IF a <= b THEN b - a + 1 ELSE 0)
      /\ \A i \in 1 .. b - a + 1 : SubSeq(s, a, b)[i] = s[a + i - 1]
      /\ \A i \in 1 .. b - a + 1 : SubSeq(t, a, b)[i] = t[a + i - 1]
  BY <1>1, <1>2, SpanFacts
<1>4. \A i \in 1 .. b - a + 1 : a + i - 1 \in 1 .. Len(s)
  BY <1>1
<1>5. \A i \in 1 .. Len(SubSeq(t, a, b)) : SubSeq(t, a, b)[i] = SubSeq(s, a, b)[i]
  BY <1>1, <1>3, <1>4
<1>6. SubSeq(t, a, b) = SubSeq(s, a, b)
  BY <1>3, <1>5, SeqEqual
<1>7. QED
  BY <1>6 DEF t

LEMMA LongerSpan ==
  ASSUME NEW S, NEW s \in Seq(S), NEW x \in S, NEW a \in 1 .. Len(s) + 1
  PROVE  SubSeq(Append(s, x), a, Len(s) + 1) = Append(SubSeq(s, a, Len(s)), x)
<1> DEFINE t == Append(s, x)
           n == Len(s)
           old == SubSeq(s, a, n)
           new == SubSeq(t, a, n + 1)
<1>1. t \in Seq(S) /\ Len(t) = n + 1 /\ n \in Nat
      /\ (\A i \in 1 .. n : t[i] = s[i]) /\ t[n + 1] = x
  BY AppendFacts
<1> HIDE DEF t
<1>2. a \in Nat \ {0} /\ n \in 0 .. Len(s) /\ n + 1 \in 0 .. Len(t)
  BY <1>1
<1>3. /\ old \in Seq(S) /\ Len(old) = n - a + 1
      /\ \A i \in 1 .. n - a + 1 : old[i] = s[a + i - 1]
  BY <1>1, <1>2, SpanFacts
<1>4. /\ new \in Seq(S) /\ Len(new) = n + 1 - a + 1
      /\ \A i \in 1 .. n + 1 - a + 1 : new[i] = t[a + i - 1]
  BY <1>1, <1>2, SpanFacts
<1> HIDE DEF old, new
<1>5. /\ Append(old, x) \in Seq(S) /\ Len(Append(old, x)) = n - a + 2
      /\ \A i \in 1 .. n - a + 1 : Append(old, x)[i] = old[i]
      /\ Append(old, x)[n - a + 2] = x
  BY <1>1, <1>2, <1>3, AppendFacts
<1>6. \A i \in 1 .. n - a + 1 : a + i - 1 \in 1 .. n
  BY <1>1, <1>2
<1>7. \A i \in 1 .. n - a + 1 : new[i] = Append(old, x)[i]
  <2> TAKE i \in 1 .. n - a + 1
  <2>1. i \in 1 .. n + 1 - a + 1 /\ a + i - 1 \in 1 .. n
    BY <1>1, <1>2
  <2>2. QED
    BY <1>1, <1>3, <1>4, <1>5, <2>1
<1>8. new[n - a + 2] = Append(old, x)[n - a + 2]
  <2>1. n - a + 2 \in 1 .. n + 1 - a + 1 /\ a + (n - a + 2) - 1 = n + 1
    BY <1>1, <1>2
  <2>2. QED
    BY <1>1, <1>4, <1>5, <2>1
<1>9. \A i \in 1 .. Len(new) : i \in 1 .. n - a + 1 \/ i = n - a + 2
  <2>1. n - a + 1 \in Int /\ Len(new) = (n - a + 1) + 1
    BY <1>1, <1>2, <1>4
  <2>2. n - a + 2 = (n - a + 1) + 1
    BY <1>1, <1>2
  <2> DEFINE m == n - a + 1
  <2> HIDE DEF m
  <2>3. m \in Int /\ Len(new) = m + 1 /\ n - a + 2 = m + 1
    BY <2>1, <2>2 DEF m
  <2>4. \A i \in 1 .. Len(new) : i \in 1 .. m \/ i = n - a + 2
    BY <2>3
  <2>5. QED
    BY <2>4 DEF m
<1>10. Len(new) = Len(Append(old, x))
  BY <1>1, <1>2, <1>4, <1>5
<1>11. \A i \in 1 .. Len(new) : new[i] = Append(old, x)[i]
  BY <1>7, <1>8, <1>9
<1>12. new = Append(old, x)
  BY <1>4, <1>5, <1>10, <1>11, SeqEqual
<1>13. QED
  BY <1>12 DEF old, new, t

----------------------------------------------------------------------------
(***************************************************************************)
(* The line being received.                                                *)
(***************************************************************************)
Previous(i) == Max({0} \cup {j \in Ends : j < i})

\* The last delimiter so far, and the bytes behind it.
LastEnd == Max({0} \cup Ends)
Current == SubSeq(heard, First(LastEnd), Len(heard))

Spoiled == "ERR" \in ToSet(Current)

\* What the interrupt handler remembers of the input.
Remembered ==
  /\ Spoiled => discard
  /\ discard => Spoiled \/ BrokenPair
  /\ ~discard => partial = Clip(Current)
  /\ heard # <<>> /\ heard[Len(heard)] = "CR" => skipLf
  /\ skipLf => /\ heard # <<>>
               /\ \/ heard[Len(heard)] = "CR"
                  \/ heard[Len(heard)] = "ERR" /\ discard /\ BrokenPair

\* The inductive invariant.
LineInv == TypeOK /\ Remembered /\ LinesArrive

EndsLine(byte) ==
  \/ byte = "CR"
  \/ byte = "LF" /\ ~(heard # <<>> /\ heard[Len(heard)] = "CR")

LEMMA HeardTypes ==
  ASSUME TypeOK
  PROVE  /\ heard \in Seq(Bytes) /\ Len(heard) \in Nat /\ DOMAIN heard = 1 .. Len(heard)
         /\ Ends \subseteq 1 .. Len(heard)
         /\ heard # <<>> <=> Len(heard) > 0
<1>1. heard \in Seq(Bytes)
  BY DEF TypeOK
<1>2. Len(heard) \in Nat /\ DOMAIN heard = 1 .. Len(heard)
  BY <1>1, LenProperties
<1>3. Ends \subseteq 1 .. Len(heard)
  BY <1>2 DEF Ends
<1>4. heard # <<>> <=> Len(heard) > 0
  BY <1>1, <1>2, EmptySeq
<1>5. QED
  BY <1>1, <1>2, <1>3, <1>4

LEMMA LastFacts ==
  ASSUME TypeOK
  PROVE  /\ LastEnd \in 0 .. Len(heard) /\ LastEnd \in {0} \cup Ends /\ \A j \in Ends : j <= LastEnd
         /\ First(LastEnd) \in {LastEnd + 1, LastEnd + 2}
<1>1. {0} \cup Ends \subseteq 0 .. Len(heard) /\ {0} \cup Ends # {} /\ Len(heard) \in Nat
  BY HeardTypes
<1>2. LastEnd \in {0} \cup Ends /\ \A j \in {0} \cup Ends : j <= LastEnd
  BY <1>1, MaxIsGreatest DEF LastEnd
<1>3. QED
  BY <1>1, <1>2 DEF First

LEMMA PreviousFacts ==
  ASSUME TypeOK, NEW i \in Nat \ {0}
  PROVE  /\ Previous(i) \in 0 .. Len(heard) /\ Previous(i) < i
         /\ First(Previous(i)) \in {Previous(i) + 1, Previous(i) + 2}
<1> DEFINE S == {0} \cup {j \in Ends : j < i}
<1>1. S \subseteq 0 .. Len(heard) /\ S # {} /\ Len(heard) \in Nat
  BY HeardTypes
<1>2. Max(S) \in S
  BY <1>1, MaxIsGreatest
<1>3. QED
  BY <1>1, <1>2 DEF First, Previous

LEMMA PreviousOfNext ==
  ASSUME TypeOK PROVE Previous(Len(heard) + 1) = LastEnd
<1>1. {j \in Ends : j < Len(heard) + 1} = Ends
  BY HeardTypes
<1>2. QED
  BY <1>1 DEF Previous, LastEnd

LEMMA LineOfPrevious == \A i : LineAt(i) = SubSeq(heard, First(Previous(i)), i - 1)
BY DEF LineAt, Previous

\* One more byte: what it changes in the reading of the input.
LEMMA HearFacts ==
  ASSUME TypeOK, NEW byte \in Bytes, Receive(byte)
  PROVE  /\ heard' \in Seq(Bytes) /\ Len(heard') = Len(heard) + 1
         /\ \A i \in 1 .. Len(heard) : heard'[i] = heard[i]
         /\ heard'[Len(heard) + 1] = byte /\ heard' # <<>> /\ Len(heard) \in Nat
BY HeardTypes, AppendFacts DEF Receive

LEMMA HearEnds ==
  ASSUME TypeOK, NEW byte \in Bytes, Receive(byte)
  PROVE  Ends' = Ends \cup (IF EndsLine(byte) THEN {Len(heard) + 1} ELSE {})
<1> DEFINE n == Len(heard)
<1>1. /\ heard' \in Seq(Bytes) /\ Len(heard') = n + 1 /\ n \in Nat
      /\ (\A i \in 1 .. n : heard'[i] = heard[i]) /\ heard'[n + 1] = byte
      /\ DOMAIN heard = 1 .. n
  BY HearFacts, HeardTypes
<1>2. DOMAIN heard' = 1 .. n + 1
  BY <1>1, LenProperties
<1>3. \A i \in 1 .. n : i > 1 => i - 1 \in 1 .. n
  BY <1>1
<1>4. \A i \in 1 .. n : i \in Ends' <=> i \in Ends
  BY <1>1, <1>2, <1>3 DEF Ends
<1>5. n + 1 \in Ends' <=> EndsLine(byte)
  <2>1. n + 1 > 1 <=> heard # <<>>
    BY <1>1, HeardTypes
  <2>2. n + 1 > 1 => n \in 1 .. n /\ n + 1 - 1 = n
    BY <1>1
  <2>3. QED
    BY <1>1, <1>2, <2>1, <2>2 DEF Ends, EndsLine
<1>6. Ends' \subseteq 1 .. n + 1 /\ Ends \subseteq 1 .. n
  BY <1>1, <1>2, HeardTypes DEF Ends
<1>7. \A i \in 1 .. n + 1 : i \in 1 .. n \/ i = n + 1
  BY <1>1
<1>8. QED
  BY <1>1, <1>4, <1>5, <1>6, <1>7

LEMMA HearFirst ==
  ASSUME TypeOK, NEW byte \in Bytes, Receive(byte), NEW l \in 0 .. Len(heard)
  PROVE  First(l)' = IF l = Len(heard) /\ byte = "LF" THEN l + 2 ELSE First(l)
<1>1. /\ Len(heard') = Len(heard) + 1 /\ Len(heard) \in Nat
      /\ (\A i \in 1 .. Len(heard) : heard'[i] = heard[i]) /\ heard'[Len(heard) + 1] = byte
  BY HearFacts
<1>2. CASE l < Len(heard)
  <2>1. heard'[l + 1] = heard[l + 1]
    BY <1>1, <1>2
  <2>2. QED
    BY <1>1, <1>2, <2>1 DEF First
<1>3. CASE l = Len(heard)
  BY <1>1, <1>3 DEF First
<1>4. QED
  BY <1>1, <1>2, <1>3

\* The lines that have ended are as they were.
LEMMA HearOldLines ==
  ASSUME TypeOK, NEW byte \in Bytes, Receive(byte), NEW i \in 1 .. Len(heard)
  PROVE  LineAt(i)' = LineAt(i)
<1>1. Len(heard) \in Nat /\ heard \in Seq(Bytes) /\ heard' = Append(heard, byte)
  BY HeardTypes DEF Receive
<1>2. {j \in Ends' : j < i} = {j \in Ends : j < i}
  BY <1>1, HearEnds
<1>3. Previous(i)' = Previous(i)
  BY <1>2 DEF Previous
<1>4. Previous(i) \in 0 .. Len(heard) /\ Previous(i) < i
      /\ First(Previous(i)) \in {Previous(i) + 1, Previous(i) + 2}
  BY PreviousFacts
<1>5. PICK l \in 0 .. Len(heard) : l = Previous(i)
  BY <1>4
<1>6. l \in 0 .. Len(heard) /\ l # Len(heard) /\ First(l) \in Nat \ {0}
  BY <1>1, <1>4, <1>5
<1>7. First(l)' = First(l)
  BY <1>6, HearFirst
<1>8. SubSeq(heard', First(l), i - 1) = SubSeq(heard, First(l), i - 1)
  <2>1. i - 1 \in 0 .. Len(heard)
    BY <1>1
  <2>2. QED
    BY <1>1, <1>6, <2>1, SameSpan
<1>9. LineAt(i) = SubSeq(heard, First(l), i - 1)
  BY <1>5, LineOfPrevious
<1>10. LineAt(i)' = SubSeq(heard', First(l)', i - 1)
  BY <1>3, <1>5 DEF LineAt, Previous, First
<1>11. QED
  BY <1>7, <1>8, <1>9, <1>10

\* The line that this byte ends is the current one.
LEMMA HearThisLine ==
  ASSUME TypeOK, NEW byte \in Bytes, Receive(byte), NEW i \in Nat, i = Len(heard) + 1
  PROVE  LineAt(i)' = Current
<1> DEFINE n == Len(heard)
<1>1. n \in Nat /\ heard \in Seq(Bytes) /\ heard' = Append(heard, byte)
  BY HeardTypes DEF Receive
<1>2. {j \in Ends' : j < i} = {j \in Ends : j < i}
  BY <1>1, HearEnds
<1>3. Previous(i)' = LastEnd
  BY <1>2, PreviousOfNext DEF Previous
<1>4. PICK l \in 0 .. n : l = LastEnd
  BY LastFacts
<1>5. First(l) \in {l + 1, l + 2}
  BY <1>4, LastFacts
<1>6. LineAt(i)' = SubSeq(heard', First(l)', n)
  <2>1. Previous(i)' = l
    BY <1>3, <1>4
  <2>2. LineAt(i)' = SubSeq(heard', First(l)', i - 1)
    BY <2>1 DEF LineAt, Previous, First
  <2>3. i - 1 = n
    BY <1>1
  <2>4. QED
    BY <2>2, <2>3
<1>7. SubSeq(heard', First(l)', n) = SubSeq(heard, First(l), n)
  <2>1. CASE First(l)' = First(l)
    <3>1. First(l) \in Nat \ {0} /\ n \in 0 .. Len(heard)
      BY <1>1, <1>5
    <3>2. QED
      BY <1>1, <2>1, <3>1, SameSpan
  <2>2. CASE l = n /\ First(l)' = l + 2
    <3>1. First(l) \in Int /\ n < First(l) /\ l + 2 \in Int /\ n < l + 2
      BY <1>1, <1>5, <2>2
    <3>2. QED
      BY <1>1, <2>2, <3>1, SubSeqEmpty
  <2>3. QED
    BY <1>4, <2>1, <2>2, HearFirst
<1>8. QED
  BY <1>4, <1>6, <1>7 DEF Current

\* The current line after this byte.
LEMMA HearLast ==
  ASSUME TypeOK, NEW byte \in Bytes, Receive(byte)
  PROVE  LastEnd' = IF EndsLine(byte) THEN Len(heard) + 1 ELSE LastEnd
<1>1. Len(heard) \in Nat /\ Len(heard') = Len(heard) + 1
  BY HearFacts
<1>2. Ends \subseteq 1 .. Len(heard)
  BY HeardTypes
<1>3. CASE EndsLine(byte)
  <2> DEFINE S == {0} \cup Ends \cup {Len(heard) + 1}
  <2>1. S \subseteq 0 .. Len(heard) + 1 /\ S # {} /\ Len(heard) + 1 \in Nat
    <3>1. 0 \in S
      OBVIOUS
    <3>2. \A x \in S : x \in 0 .. Len(heard) + 1
      BY <1>1, <1>2
    <3> HIDE DEF S
    <3>3. QED
      BY <1>1, <3>1, <3>2
  <2>2. Max(S) \in S /\ \A y \in S : y <= Max(S)
    <3> HIDE DEF S
    <3>1. QED
      BY <2>1, MaxIsGreatest
  <2>3. Len(heard) + 1 \in S
    OBVIOUS
  <2> HIDE DEF S
  <2>4. Max(S) = Len(heard) + 1
    <3>1. Max(S) \in 0 .. Len(heard) + 1 /\ Len(heard) + 1 <= Max(S)
      BY <2>1, <2>2, <2>3
    <3>2. QED
      BY <1>1, <3>1
  <2>5. {0} \cup Ends' = S
    BY <1>3, HearEnds DEF S
  <2>6. QED
    BY <1>3, <2>4, <2>5 DEF LastEnd
<1>4. CASE ~EndsLine(byte)
  BY <1>4, HearEnds DEF LastEnd
<1>5. QED
  BY <1>3, <1>4

LEMMA HearEnd ==
  ASSUME TypeOK, NEW byte \in Bytes, Receive(byte), EndsLine(byte)
  PROVE  Current' = <<>>
<1>1. Len(heard) \in Nat /\ Len(heard') = Len(heard) + 1 /\ heard' \in Seq(Bytes)
  BY HearFacts
<1>2. PICK l \in Nat : l = Len(heard) + 1
  BY <1>1
<1>3. LastEnd' = l
  BY <1>2, HearLast
<1>4. First(l)' = l + 1
  BY <1>1, <1>2 DEF First
<1>5. Current' = SubSeq(heard', l + 1, l)
  BY <1>1, <1>2, <1>3, <1>4 DEF Current, First
<1>6. QED
  BY <1>5, SubSeqEmpty

\* The LF of a pair.
LEMMA HearPair ==
  ASSUME TypeOK, NEW byte \in Bytes, Receive(byte),
         byte = "LF", heard # <<>>, heard[Len(heard)] = "CR"
  PROVE  Current = <<>> /\ Current' = <<>> /\ ~EndsLine(byte)
<1>1. Len(heard) \in Nat \ {0} /\ Len(heard') = Len(heard) + 1
      /\ DOMAIN heard = 1 .. Len(heard) /\ heard'[Len(heard) + 1] = byte
  BY HearFacts, HeardTypes
<1>2. Len(heard) \in Ends
  <2>1. Len(heard) \in DOMAIN heard
    BY <1>1
  <2>2. heard[Len(heard)] \in {"CR", "LF"} /\ heard[Len(heard)] # "LF"
    OBVIOUS
  <2>3. QED
    BY <2>1, <2>2 DEF Ends
<1>3. LastEnd = Len(heard)
  <2>1. LastEnd \in 0 .. Len(heard) /\ Len(heard) <= LastEnd
    BY <1>2, LastFacts
  <2>2. \A m, n \in Nat : m \in 0 .. n /\ n <= m => m = n
    OBVIOUS
  <2>3. LastEnd \in Nat /\ Len(heard) \in Nat
    BY <1>1, <2>1
  <2>4. QED
    BY <2>1, <2>2, <2>3
<1>4. PICK l \in Nat : l = Len(heard)
  BY <1>1
<1>5. ~EndsLine(byte)
  BY DEF EndsLine
<1>6. LastEnd' = l
  BY <1>3, <1>4, <1>5, HearLast
<1>7. First(l) = l + 1 /\ First(l)' = l + 2
  BY <1>1, <1>4 DEF First
<1>8. Current = SubSeq(heard, l + 1, l)
  BY <1>3, <1>4, <1>7 DEF Current
<1>9. Current' = SubSeq(heard', l + 2, l + 1)
  BY <1>1, <1>4, <1>6, <1>7 DEF Current, First
<1>10. QED
  BY <1>5, <1>8, <1>9, SubSeqEmpty

LEMMA HearMore ==
  ASSUME TypeOK, NEW byte \in Bytes, Receive(byte), byte \notin {"CR", "LF"}
  PROVE  Current' = Append(Current, byte)
<1>1. /\ Len(heard) \in Nat /\ Len(heard') = Len(heard) + 1 /\ heard \in Seq(Bytes)
      /\ heard' = Append(heard, byte)
  BY HearFacts, HeardTypes DEF Receive
<1>2. PICK l \in 0 .. Len(heard) : l = LastEnd
  BY LastFacts
<1>3. LastEnd' = l
  BY <1>2, HearLast DEF EndsLine
<1>4. First(l)' = First(l)
  BY HearFirst
<1>5. First(l) \in 1 .. Len(heard) + 1
  <2>1. First(l) \in {l + 1, l + 2} /\ (l = Len(heard) => First(l) = l + 1)
    BY <1>1, <1>2 DEF First
  <2>2. QED
    BY <1>1, <1>2, <2>1
<1>6. Current' = SubSeq(heard', First(l), Len(heard) + 1)
  BY <1>1, <1>3, <1>4 DEF Current, First
<1>7. QED
  BY <1>1, <1>2, <1>5, <1>6, LongerSpan DEF Current

LEMMA HearBroken ==
  ASSUME TypeOK, NEW byte \in Bytes, Receive(byte)
  PROVE  BrokenPair' <=> \/ BrokenPair
                         \/ byte = "ERR" /\ heard # <<>> /\ heard[Len(heard)] = "CR"
<1> DEFINE n == Len(heard)
<1>1. /\ n \in Nat /\ Len(heard') = n + 1 /\ heard'[n + 1] = byte
      /\ \A i \in 1 .. n : heard'[i] = heard[i]
      /\ heard # <<>> <=> n > 0
  BY HearFacts, HeardTypes
<1>2. \A i \in 2 .. n : i \in 1 .. n /\ i - 1 \in 1 .. n
  BY <1>1
<1>3. \A i \in 2 .. n : heard'[i - 1] = "CR" /\ heard'[i] = "ERR"
                          <=> heard[i - 1] = "CR" /\ heard[i] = "ERR"
  BY <1>1, <1>2
<1>4. n > 0 => n + 1 \in 2 .. n + 1 /\ n \in 1 .. n /\ n + 1 - 1 = n
  BY <1>1
<1>5. \A i \in 2 .. n + 1 : i \in 2 .. n \/ (i = n + 1 /\ n > 0)
  BY <1>1
<1>6. \A i \in 2 .. n : i \in 2 .. n + 1
  BY <1>1
<1>7. BrokenPair' <=> \E i \in 2 .. n + 1 : heard'[i - 1] = "CR" /\ heard'[i] = "ERR"
  BY <1>1 DEF BrokenPair
<1>8. QED
  BY <1>1, <1>3, <1>4, <1>5, <1>6, <1>7 DEF BrokenPair

LEMMA HearClean ==
  ASSUME TypeOK, NEW byte \in Bytes, Receive(byte)
  PROVE  Clean' = Clean \cup (IF EndsLine(byte) /\ ~Spoiled THEN {Len(heard) + 1} ELSE {})
<1>1. Len(heard) \in Nat /\ Ends \subseteq 1 .. Len(heard)
  BY HeardTypes
<1>2. PICK n \in Nat : n = Len(heard) + 1
  BY <1>1
<1>3. \A i \in Ends : LineAt(i)' = LineAt(i)
  BY <1>1, HearOldLines
<1>4. LineAt(n)' = Current
  BY <1>2, HearThisLine
<1>5. Clean' = {i \in Ends' : "ERR" \notin ToSet(LineAt(i)')}
  BY DEF Clean, ToSet
<1>6. Ends' = Ends \cup (IF EndsLine(byte) THEN {n} ELSE {})
  BY <1>2, HearEnds
<1>7. \A i \in Ends : i \in Clean' <=> i \in Clean
  BY <1>3, <1>5, <1>6 DEF Clean
<1>8. n \in Clean' <=> EndsLine(byte) /\ ~Spoiled
  <2>1. n \notin Ends
    BY <1>1, <1>2
  <2>2. n \in Ends' <=> EndsLine(byte)
    BY <1>6, <2>1
  <2>3. n \in Clean' <=> n \in Ends' /\ "ERR" \notin ToSet(LineAt(n)')
    BY <1>5
  <2>4. QED
    BY <1>4, <2>2, <2>3 DEF Spoiled
<1>9. Clean \subseteq Ends /\ Clean' \subseteq Ends'
  BY <1>5 DEF Clean
<1>10. QED
  BY <1>2, <1>6, <1>7, <1>8, <1>9

LEMMA CleanFacts ==
  ASSUME TypeOK
  PROVE  /\ Clean \subseteq 1 .. Len(heard) /\ IsFiniteSet(Clean) /\ Cardinality(Clean) \in Nat
         /\ Cardinality(Clean \cup {Len(heard) + 1}) = Cardinality(Clean) + 1
<1>1. Len(heard) \in Nat /\ Clean \subseteq 1 .. Len(heard)
  BY HeardTypes DEF Clean
<1>2. IsFiniteSet(Clean)
  <2>1. IsFiniteSet(1 .. Len(heard))
    BY <1>1, FS_Interval
  <2>2. QED
    BY <1>1, <2>1, FS_Subset
<1>3. Len(heard) + 1 \notin Clean
  BY <1>1
<1>4. QED
  BY <1>1, <1>2, <1>3, FS_CardinalityType, FS_AddElement

\* Frames that stood for lines go on doing so.
LEMMA FramesStay ==
  ASSUME TypeOK, NEW byte \in Bytes, Receive(byte), NEW frames, FramesFromLines(frames)
  PROVE  FramesFromLines(frames)'
<1>1. PICK end \in [DOMAIN frames -> Clean] :
        \A k \in DOMAIN frames :
          /\ frames[k] = Clip(LineAt(end[k]))
          /\ \A j \in 1 .. k - 1 : end[j] < end[k]
  BY DEF FramesFromLines
<1>2. end \in [DOMAIN frames -> Clean']
  BY HearClean
<1>3. \A k \in DOMAIN frames : LineAt(end[k])' = LineAt(end[k])
  <2> TAKE k \in DOMAIN frames
  <2>1. PICK i \in 1 .. Len(heard) : i = end[k]
    BY CleanFacts
  <2>2. LineAt(i)' = LineAt(i)
    BY HearOldLines
  <2>3. QED
    BY <2>1, <2>2 DEF LineAt, First
<1>4. \A k \in DOMAIN frames :
        /\ frames[k] = Clip(LineAt(end[k])')
        /\ \A j \in 1 .. k - 1 : end[j] < end[k]
  BY <1>1, <1>3
<1>5. QED
  BY <1>2, <1>4 DEF FramesFromLines, Clip

\* So does one more, for the line that has just ended.
LEMMA FramesGrow ==
  ASSUME TypeOK, NEW byte \in Bytes, Receive(byte), EndsLine(byte), ~Spoiled,
         NEW S, NEW frames \in Seq(S), NEW frame \in S, frame = Clip(Current),
         FramesFromLines(frames)
  PROVE  FramesFromLines(Append(frames, frame))'
<1> DEFINE n == Len(heard)
           m == Len(frames)
           more == Append(frames, frame)
<1>1. PICK end \in [DOMAIN frames -> Clean] :
        \A k \in DOMAIN frames :
          /\ frames[k] = Clip(LineAt(end[k]))
          /\ \A j \in 1 .. k - 1 : end[j] < end[k]
  BY DEF FramesFromLines
<1>2. /\ more \in Seq(S) /\ Len(more) = m + 1 /\ m \in Nat
      /\ (\A k \in 1 .. m : more[k] = frames[k]) /\ more[m + 1] = frame
      /\ DOMAIN frames = 1 .. m
  BY AppendFacts, LenProperties
<1>3. DOMAIN more = 1 .. m + 1
  BY <1>2, LenProperties
<1> HIDE DEF more
<1>4. PICK last \in Nat : last = n + 1
  BY HeardTypes
<1>5. Clean' = Clean \cup {last}
  BY <1>4, HearClean
<1>6. \A i \in Clean : i \in 1 .. n /\ i < last
  BY <1>4, CleanFacts, HeardTypes
<1> DEFINE ends == [k \in 1 .. m + 1 |-> IF k \in 1 .. m THEN end[k] ELSE last]
<1>7. ends \in [1 .. m + 1 -> Clean']
  BY <1>2, <1>5
<1>8. \A k \in 1 .. m : ends[k] = end[k] /\ ends[k] \in Clean
  BY <1>2
<1>9. ends[m + 1] = last
  BY <1>2
<1> HIDE DEF ends
<1>10. \A k \in 1 .. m + 1 : more[k] = Clip(LineAt(ends[k])')
  <2> TAKE k \in 1 .. m + 1
  <2>1. CASE k \in 1 .. m
    <3>1. PICK i \in 1 .. n : i = end[k]
      BY <1>6, <1>8, <2>1
    <3>2. LineAt(i)' = LineAt(i)
      BY HearOldLines
    <3>3. LineAt(ends[k])' = LineAt(end[k])
      BY <1>8, <2>1, <3>1, <3>2 DEF LineAt, First
    <3>4. QED
      BY <1>1, <1>2, <2>1, <3>3
  <2>2. CASE k = m + 1
    <3>1. LineAt(last)' = Current
      BY <1>4, HearThisLine
    <3>2. LineAt(ends[k])' = Current
      BY <1>9, <2>2, <3>1 DEF LineAt, First
    <3>3. QED
      BY <1>2, <2>2, <3>2
  <2>3. QED
    BY <1>2, <2>1, <2>2
<1>11. \A k \in 1 .. m + 1 : \A j \in 1 .. k - 1 : ends[j] < ends[k]
  <2> TAKE k \in 1 .. m + 1
  <2> TAKE j \in 1 .. k - 1
  <2>1. j \in 1 .. m /\ (k \in 1 .. m \/ k = m + 1)
    BY <1>2
  <2>2. CASE k \in 1 .. m
    BY <1>1, <1>2, <1>8, <2>1, <2>2
  <2>3. CASE k = m + 1
    BY <1>6, <1>8, <1>9, <2>1, <2>3
  <2>4. QED
    BY <2>1, <2>2, <2>3
<1>12. FramesFromLines(more)'
  BY <1>3, <1>7, <1>10, <1>11 DEF FramesFromLines, Clip
<1>13. QED
  BY <1>12 DEF more

----------------------------------------------------------------------------
(***************************************************************************)
(* The buffer and the queue.                                               *)
(***************************************************************************)
LEMMA CurrentType == TypeOK => Current \in Seq(Bytes)
<1> SUFFICES ASSUME TypeOK PROVE Current \in Seq(Bytes)
  OBVIOUS
<1>1. /\ heard \in Seq(Bytes) /\ Len(heard) \in 0 .. Len(heard)
      /\ First(LastEnd) \in Nat \ {0}
  BY HeardTypes, LastFacts
<1>2. QED
  BY <1>1, SpanFacts DEF Current

LEMMA ClipMore ==
  ASSUME NEW S, NEW text \in Seq(S), NEW x \in S
  PROVE  Clip(Append(text, x)) =
           IF Len(Clip(text)) < LineCapacity THEN Append(Clip(text), x) ELSE Clip(text)
<1>1. LineCapacity \in Nat \ {0} /\ Len(text) \in Nat
  BY FramingAssumption, LenProperties DEF FramingAssumption
<1>2. Append(text, x) \in Seq(S) /\ Len(Append(text, x)) = Len(text) + 1
  BY AppendFacts
<1>3. CASE Len(text) < LineCapacity
  <2>1. Min({Len(text), LineCapacity}) = Len(text)
        /\ Min({Len(text) + 1, LineCapacity}) = Len(text) + 1
    BY <1>1, <1>3, MinOfTwo
  <2>2. Clip(text) = text /\ Clip(Append(text, x)) = Append(text, x)
    BY <1>2, <2>1, SubSeqFull DEF Clip
  <2>3. QED
    BY <1>3, <2>2
<1>4. CASE ~(Len(text) < LineCapacity)
  <2>1. Min({Len(text), LineCapacity}) = LineCapacity
        /\ Min({Len(text) + 1, LineCapacity}) = LineCapacity
    BY <1>1, <1>4, MinOfTwo
  <2>2. LineCapacity \in 0 .. Len(text) /\ 1 \in Nat \ {0}
    BY <1>1, <1>4
  <2>3. Clip(text) = SubSeq(text, 1, LineCapacity)
        /\ Clip(Append(text, x)) = SubSeq(Append(text, x), 1, LineCapacity)
    BY <1>2, <2>1 DEF Clip
  <2>4. Clip(Append(text, x)) = Clip(text)
    BY <2>2, <2>3, SameSpan
  <2>5. Len(Clip(text)) = LineCapacity
    BY <1>1, <2>2, <2>3, SpanFacts
  <2>6. QED
    BY <1>1, <2>4, <2>5
<1>5. QED
  BY <1>3, <1>4

LEMMA ClipNothing == Clip(<<>>) = <<>>
<1>1. Min({0, LineCapacity}) = 0
  BY FramingAssumption, MinOfTwo DEF FramingAssumption
<1>2. Clip(<<>>) = SubSeq(<<>>, 1, 0)
  BY <1>1 DEF Clip
<1>3. QED
  BY <1>2, SubSeqEmpty

LEMMA ConcatAppend ==
  ASSUME NEW S, NEW s \in Seq(S), NEW t \in Seq(S), NEW x \in S
  PROVE  s \o Append(t, x) = Append(s \o t, x)
<1>1. <<x>> \in Seq(S) /\ Append(t, x) = t \o <<x>> /\ Append(s \o t, x) = (s \o t) \o <<x>>
  BY ConcatProperties
<1>2. QED
  BY <1>1, ConcatAssociative

LEMMA HeadMoves ==
  ASSUME NEW S, NEW s \in Seq(S), NEW t \in Seq(S), t # <<>>
  PROVE  Append(s, Head(t)) \o Tail(t) = s \o t
<1>1. Head(t) \in S /\ Tail(t) \in Seq(S)
  BY HeadTailProperties
<1>2. <<Head(t)>> \in Seq(S) /\ Append(s, Head(t)) = s \o <<Head(t)>>
  BY <1>1
<1>3. <<Head(t)>> \o Tail(t) = t
  BY <1>1
<1>4. QED
  BY <1>1, <1>2, <1>3, ConcatAssociative

LEMMA ReceivedType == TypeOK => Received \in Seq(Seq(Text)) /\ Len(Received) \in Nat
<1> SUFFICES ASSUME TypeOK PROVE Received \in Seq(Seq(Text)) /\ Len(Received) \in Nat
  OBVIOUS
<1>1. taken \in Seq(Seq(Text)) /\ rx \in Seq(Seq(Text))
  BY DEF TypeOK
<1>2. Received \in Seq(Seq(Text))
  BY <1>1, ConcatProperties DEF Received
<1>3. QED
  BY <1>2, LenProperties

LEMMA BytesAre ==
  /\ "CR" \in Bytes /\ "LF" \in Bytes /\ "ERR" \in Bytes /\ Text \subseteq Bytes
  /\ \A byte \in Text : byte \notin {"CR", "LF", "ERR"}
BY FramingAssumption DEF FramingAssumption, Bytes

\* A received byte leaves the frames of before where they are.
LEMMA SameReceived ==
  ASSUME TypeOK, LinesArrive, NEW byte \in Bytes, Receive(byte), rx' = rx
  PROVE  NothingInvented' /\ Received' = Received
<1>1. Received' = Received
  BY DEF Received, Receive
<1>2. PICK frames : frames = Received
  OBVIOUS
<1>3. FramesFromLines(frames)'
  BY <1>2, FramesStay DEF LinesArrive, NothingInvented
<1>4. QED
  BY <1>1, <1>2, <1>3 DEF NothingInvented, FramesFromLines

LEMMA BadByteKeeps == LineInv /\ BadByte => LineInv'
<1> SUFFICES ASSUME LineInv, BadByte PROVE LineInv'
  OBVIOUS
<1>1. TypeOK /\ Remembered /\ LinesArrive /\ "ERR" \in Bytes /\ Receive("ERR")
  BY BytesAre DEF LineInv, BadByte
<1>2. /\ Len(heard) \in Nat /\ heard' \in Seq(Bytes) /\ heard' # <<>>
      /\ Len(heard') = Len(heard) + 1 /\ heard'[Len(heard) + 1] = "ERR"
  BY <1>1, HearFacts
<1>3. TypeOK'
  BY <1>1, <1>2, EmptySeq, FramingAssumption DEF TypeOK, BadByte, Receive, FramingAssumption
<1>4. Current' = Append(Current, "ERR") /\ Current \in Seq(Bytes)
  BY <1>1, HearMore, CurrentType
<1>5. Spoiled'
  <2>1. Len(Current) + 1 \in DOMAIN Append(Current, "ERR")
        /\ Append(Current, "ERR")[Len(Current) + 1] = "ERR"
    BY <1>1, <1>4, AppendFacts, LenProperties
  <2>2. QED
    BY <1>4, <2>1 DEF Spoiled, ToSet
<1>6. BrokenPair' <=> BrokenPair \/ (heard # <<>> /\ heard[Len(heard)] = "CR")
  BY <1>1, HearBroken
<1>7. Remembered'
  BY <1>1, <1>2, <1>5, <1>6 DEF Remembered, BadByte
<1>8. ~EndsLine("ERR")
  BY DEF EndsLine
<1>9. Clean' = Clean
  BY <1>1, <1>8, HearClean
<1>10. NothingInvented' /\ Received' = Received
  BY <1>1, SameReceived DEF BadByte
<1>11. FramesAreLines'
  BY <1>1, <1>6, <1>9, <1>10 DEF LinesArrive, FramesAreLines, BadByte
<1>12. QED
  BY <1>3, <1>7, <1>10, <1>11 DEF LineInv, LinesArrive

LEMMA SecondHalfKeeps == LineInv /\ SecondHalf => LineInv'
<1> SUFFICES ASSUME LineInv, SecondHalf PROVE LineInv'
  OBVIOUS
<1>1. TypeOK /\ Remembered /\ LinesArrive /\ "LF" \in Bytes /\ Receive("LF") /\ skipLf
  BY BytesAre DEF LineInv, SecondHalf, Swallowed
<1>2. /\ Len(heard) \in Nat /\ heard' \in Seq(Bytes) /\ heard' # <<>>
      /\ Len(heard') = Len(heard) + 1 /\ heard'[Len(heard) + 1] = "LF"
  BY <1>1, HearFacts
<1>3. TypeOK'
  BY <1>1, <1>2 DEF TypeOK, SecondHalf, Receive
<1>4. BrokenPair' <=> BrokenPair
  BY <1>1, HearBroken
<1>5. NothingInvented' /\ Received' = Received
  BY <1>1, SameReceived DEF SecondHalf
<1>6. CASE heard[Len(heard)] = "CR"
  <2>1. Current = <<>> /\ Current' = <<>> /\ ~EndsLine("LF")
    BY <1>1, <1>6, HearPair DEF Remembered
  <2>2. Spoiled' <=> Spoiled
    BY <2>1 DEF Spoiled
  <2>3. Remembered'
    BY <1>1, <1>2, <1>4, <2>1, <2>2 DEF Remembered, SecondHalf
  <2>4. Clean' = Clean
    BY <1>1, <2>1, HearClean
  <2>5. FramesAreLines'
    BY <1>1, <1>4, <1>5, <2>4 DEF LinesArrive, FramesAreLines, SecondHalf
  <2>6. QED
    BY <1>3, <1>5, <2>3, <2>5 DEF LineInv, LinesArrive
<1>7. CASE heard[Len(heard)] # "CR"
  <2>1. EndsLine("LF") /\ discard /\ BrokenPair
    BY <1>1, <1>7 DEF Remembered, EndsLine
  <2>2. Current' = <<>>
    BY <1>1, <2>1, HearEnd
  <2>3. ~Spoiled'
    BY <2>2 DEF Spoiled, ToSet
  <2>4. Remembered'
    BY <1>1, <1>2, <1>4, <2>1, <2>3 DEF Remembered, SecondHalf
  <2>5. FramesAreLines'
    BY <1>4, <2>1 DEF FramesAreLines
  <2>6. QED
    BY <1>3, <1>5, <2>4, <2>5 DEF LineInv, LinesArrive
<1>8. QED
  BY <1>6, <1>7

LEMMA DelimiterKeeps == LineInv /\ Delimiter => LineInv'
<1> SUFFICES ASSUME LineInv, Delimiter PROVE LineInv'
  OBVIOUS
<1>1. PICK byte \in {"CR", "LF"} :
        /\ Receive(byte) /\ ~Swallowed(byte)
        /\ skipLf' = (byte = "CR")
        /\ partial' = <<>> /\ discard' = FALSE
        /\ \/ discard /\ UNCHANGED <<rx, drops>>
           \/ ~discard /\ Len(rx) < RxCapacity /\ rx' = Append(rx, partial) /\ UNCHANGED drops
           \/ ~discard /\ Len(rx) = RxCapacity /\ drops' = drops + 1 /\ UNCHANGED rx
        /\ UNCHANGED errors
  BY DEF Delimiter
<1>2. TypeOK /\ Remembered /\ LinesArrive /\ byte \in Bytes
  BY BytesAre DEF LineInv
<1>3. /\ Len(heard) \in Nat /\ heard' \in Seq(Bytes) /\ heard' # <<>>
      /\ Len(heard') = Len(heard) + 1 /\ heard'[Len(heard) + 1] = byte
  BY <1>1, <1>2, HearFacts
<1>4. TypeOK'
  <2>1. partial' \in Seq(Text) /\ Len(partial') <= LineCapacity
    BY <1>1, EmptySeq, FramingAssumption DEF FramingAssumption
  <2>2. rx' \in Seq(Seq(Text)) /\ Len(rx') <= RxCapacity
    <3>1. CASE rx' = rx
      BY <1>2, <3>1 DEF TypeOK
    <3>2. CASE Len(rx) < RxCapacity /\ rx' = Append(rx, partial)
      <4>1. rx' \in Seq(Seq(Text)) /\ Len(rx') = Len(rx) + 1 /\ Len(rx) \in Nat
        BY <1>2, <3>2, AppendFacts DEF TypeOK
      <4>2. QED
        BY <3>2, <4>1, FramingAssumption DEF FramingAssumption
    <3>3. QED
      BY <1>1, <3>1, <3>2
  <2>3. drops' \in Nat /\ errors' \in Nat
    BY <1>1, <1>2 DEF TypeOK
  <2>4. skipLf' \in BOOLEAN /\ discard' \in BOOLEAN /\ taken' \in Seq(Seq(Text))
    BY <1>1, <1>2 DEF TypeOK, Receive
  <2>5. QED
    BY <1>3, <2>1, <2>2, <2>3, <2>4 DEF TypeOK
<1>5. BrokenPair' <=> BrokenPair
  BY <1>1, <1>2, HearBroken
<1>6. EndsLine(byte)
  BY <1>1, <1>2 DEF EndsLine, Remembered, Swallowed
<1>7. Current' = <<>> /\ ~Spoiled'
  <2>1. Current' = <<>>
    BY <1>1, <1>2, <1>6, HearEnd
  <2>2. QED
    BY <2>1 DEF Spoiled, ToSet
<1>8. Remembered'
  BY <1>1, <1>3, <1>7, ClipNothing DEF Remembered
<1>9. Clean' = Clean \cup (IF Spoiled THEN {} ELSE {Len(heard) + 1})
  BY <1>1, <1>2, <1>6, HearClean
<1>10. CASE discard
  <2>1. NothingInvented' /\ Received' = Received
    BY <1>1, <1>2, <1>10, SameReceived
  <2>2. ~BrokenPair => Clean' = Clean
    BY <1>2, <1>9, <1>10 DEF Remembered
  <2>3. FramesAreLines'
    BY <1>1, <1>2, <1>5, <1>10, <2>1, <2>2 DEF LinesArrive, FramesAreLines
  <2>4. QED
    BY <1>4, <1>8, <2>1, <2>3 DEF LineInv, LinesArrive
<1>11. CASE ~discard
  <2>1. ~Spoiled /\ partial = Clip(Current)
    BY <1>2, <1>11 DEF Remembered
  <2>2. Cardinality(Clean') = Cardinality(Clean) + 1 /\ Cardinality(Clean) \in Nat
    BY <1>2, <1>9, <2>1, CleanFacts
  <2>3. Len(Received) \in Nat /\ Received \in Seq(Seq(Text)) /\ drops \in Nat
        /\ rx \in Seq(Seq(Text)) /\ taken \in Seq(Seq(Text)) /\ partial \in Seq(Text)
    BY <1>2, ReceivedType DEF TypeOK
  <2>4. CASE rx' = rx /\ drops' = drops + 1
    <3>1. NothingInvented' /\ Received' = Received
      BY <1>1, <1>2, <2>4, SameReceived
    <3>2. FramesAreLines'
      BY <1>2, <1>5, <2>2, <2>3, <2>4, <3>1 DEF LinesArrive, FramesAreLines
    <3>3. QED
      BY <1>4, <1>8, <3>1, <3>2 DEF LineInv, LinesArrive
  <2>5. CASE rx' = Append(rx, partial) /\ drops' = drops
    <3>1. Received' = Append(Received, partial)
      BY <1>1, <2>3, <2>5, ConcatAppend DEF Received, Receive
    <3>2. PICK frames \in Seq(Seq(Text)) : frames = Received
      BY <2>3
    <3>3. PICK frame \in Seq(Text) : frame = partial
      BY <2>3
    <3>4. FramesFromLines(Append(frames, frame))'
      <4>1. FramesFromLines(frames) /\ frame = Clip(Current)
        BY <1>2, <2>1, <3>2, <3>3 DEF LinesArrive, NothingInvented
      <4>2. QED
        BY <1>1, <1>2, <1>6, <2>1, <4>1, FramesGrow
    <3>5. NothingInvented'
      BY <3>1, <3>2, <3>3, <3>4 DEF NothingInvented, FramesFromLines
    <3>6. Len(Received') = Len(Received) + 1
      BY <2>3, <3>1, AppendFacts
    <3>7. FramesAreLines'
      BY <1>2, <1>5, <2>2, <2>3, <2>5, <3>6 DEF LinesArrive, FramesAreLines
    <3>8. QED
      BY <1>4, <1>8, <3>5, <3>7 DEF LineInv, LinesArrive
  <2>6. QED
    BY <1>1, <1>11, <2>4, <2>5
<1>12. QED
  BY <1>10, <1>11

LEMMA TextByteKeeps == LineInv /\ TextByte => LineInv'
<1> SUFFICES ASSUME LineInv, TextByte PROVE LineInv'
  OBVIOUS
<1>1. PICK byte \in Text :
        /\ Receive(byte)
        /\ skipLf' = FALSE
        /\ partial' = IF discard THEN partial ELSE Kept(byte)
        /\ UNCHANGED <<discard, rx, drops, errors>>
  BY DEF TextByte
<1>2. TypeOK /\ Remembered /\ LinesArrive /\ byte \in Bytes /\ byte \notin {"CR", "LF", "ERR"}
  BY BytesAre DEF LineInv
<1>3. /\ Len(heard) \in Nat /\ heard' \in Seq(Bytes) /\ heard' # <<>>
      /\ Len(heard') = Len(heard) + 1 /\ heard'[Len(heard) + 1] = byte
  BY <1>1, <1>2, HearFacts
<1>4. TypeOK'
  <2>1. partial' \in Seq(Text) /\ Len(partial') <= LineCapacity
    <3>1. partial \in Seq(Text) /\ Len(partial) <= LineCapacity
      BY <1>2 DEF TypeOK
    <3>2. /\ Append(partial, byte) \in Seq(Text)
          /\ Len(Append(partial, byte)) = Len(partial) + 1 /\ Len(partial) \in Nat
      BY <3>1, AppendFacts
    <3>3. QED
      BY <1>1, <3>1, <3>2, FramingAssumption DEF Kept, FramingAssumption
  <2>2. QED
    BY <1>1, <1>2, <1>3, <2>1 DEF TypeOK, Receive
<1>5. BrokenPair' <=> BrokenPair
  BY <1>1, <1>2, HearBroken
<1>6. Current' = Append(Current, byte) /\ Current \in Seq(Bytes)
  BY <1>1, <1>2, HearMore, CurrentType
<1>7. Spoiled' <=> Spoiled
  <2>1. /\ DOMAIN Current = 1 .. Len(Current) /\ Len(Current) \in Nat
        /\ DOMAIN Append(Current, byte) = 1 .. Len(Current) + 1
        /\ \A i \in 1 .. Len(Current) : Append(Current, byte)[i] = Current[i]
        /\ Append(Current, byte)[Len(Current) + 1] = byte
    BY <1>2, <1>6, AppendFacts, LenProperties
  <2>2. Spoiled <=> \E i \in 1 .. Len(Current) : Current[i] = "ERR"
    BY <2>1 DEF Spoiled, ToSet
  <2>3. Spoiled' <=> \E i \in 1 .. Len(Current) + 1 : Append(Current, byte)[i] = "ERR"
    BY <1>6, <2>1 DEF Spoiled, ToSet
  <2>4. \A i \in 1 .. Len(Current) + 1 : i \in 1 .. Len(Current) \/ i = Len(Current) + 1
    BY <2>1
  <2>5. \A i \in 1 .. Len(Current) : i \in 1 .. Len(Current) + 1
    BY <2>1
  <2>6. QED
    BY <1>2, <2>1, <2>2, <2>3, <2>4, <2>5
<1>8. ~discard => partial' = Clip(Current')
  BY <1>1, <1>2, <1>6, ClipMore DEF Remembered, Kept
<1>9. Remembered'
  <2>1. heard'[Len(heard')] # "CR" /\ ~skipLf'
    BY <1>1, <1>2, <1>3
  <2>2. discard' = discard
    BY <1>1
  <2>3. QED
    BY <1>2, <1>5, <1>7, <1>8, <2>1, <2>2 DEF Remembered, Clip
<1>10. Clean' = Clean
  BY <1>1, <1>2, HearClean DEF EndsLine
<1>11. NothingInvented' /\ Received' = Received
  BY <1>1, <1>2, SameReceived
<1>12. FramesAreLines'
  BY <1>1, <1>2, <1>5, <1>10, <1>11 DEF LinesArrive, FramesAreLines
<1>13. QED
  BY <1>4, <1>9, <1>11, <1>12 DEF LineInv, LinesArrive

\* What is known of the input changes with the input only.
LEMMA NothingHeard ==
  ASSUME Remembered, LinesArrive, Received' = Received,
         UNCHANGED <<heard, partial, skipLf, discard, drops>>
  PROVE  Remembered' /\ LinesArrive'
<1>1. Ends' = Ends /\ BrokenPair' = BrokenPair
  BY DEF Ends, BrokenPair
<1>2. Current' = Current
  BY <1>1 DEF Current, LastEnd, First
<1>3. Remembered'
  BY <1>1, <1>2 DEF Remembered, Spoiled, ToSet, Clip
<1>4. Clean' = Clean
  BY <1>1 DEF Clean, LineAt, First, ToSet
<1>5. FramesAreLines'
  BY <1>1, <1>4 DEF LinesArrive, FramesAreLines
<1>6. PICK frames : frames = Received
  OBVIOUS
<1>7. FramesFromLines(frames)'
  <2>1. FramesFromLines(frames)
    BY <1>6 DEF LinesArrive, NothingInvented
  <2>2. \A i : LineAt(i)' = LineAt(i)
    BY <1>1 DEF LineAt, First
  <2>3. QED
    BY <1>4, <2>1, <2>2 DEF FramesFromLines, Clip, LineAt, First
<1>8. NothingInvented'
  BY <1>6, <1>7 DEF NothingInvented, FramesFromLines
<1>9. QED
  BY <1>3, <1>5, <1>8 DEF LinesArrive

LEMMA ReadLineKeeps == LineInv /\ ReadLine => LineInv'
<1> SUFFICES ASSUME LineInv, ReadLine PROVE LineInv'
  OBVIOUS
<1>1. TypeOK /\ Remembered /\ LinesArrive
  BY DEF LineInv
<1>2. rx # <<>> /\ rx \in Seq(Seq(Text)) /\ taken \in Seq(Seq(Text))
      /\ rx' = Tail(rx) /\ taken' = Append(taken, Head(rx)) /\ Len(rx) <= RxCapacity
      /\ UNCHANGED <<partial, skipLf, discard, drops, errors, heard>>
  BY <1>1 DEF ReadLine, TypeOK
<1>3. Head(rx) \in Seq(Text) /\ Tail(rx) \in Seq(Seq(Text)) /\ Len(Tail(rx)) = Len(rx) - 1
      /\ Len(rx) \in Nat
  BY <1>2, HeadTailProperties, LenProperties
<1>4. taken' \in Seq(Seq(Text))
  BY <1>2, <1>3, AppendFacts
<1>5. TypeOK'
  BY <1>1, <1>2, <1>3, <1>4, FramingAssumption DEF TypeOK, FramingAssumption
<1>6. Received' = Received
  BY <1>2, HeadMoves DEF Received
<1>7. QED
  BY <1>1, <1>2, <1>5, <1>6, NothingHeard DEF LineInv

LEMMA StartsWithNothing == Init => LineInv
<1> SUFFICES ASSUME Init PROVE LineInv
  OBVIOUS
<1>1. heard = <<>> /\ Len(heard) = 0 /\ DOMAIN heard = {} /\ Received = <<>>
  BY ConcatEmptySeq, EmptySeq, LenProperties DEF Init, Received
<1>2. TypeOK
  <2>1. <<>> \in Seq(Text) /\ <<>> \in Seq(Seq(Text)) /\ <<>> \in Seq(Bytes) /\ Len(<<>>) = 0
    BY EmptySeq
  <2>2. 0 <= LineCapacity /\ 0 <= RxCapacity
    BY FramingAssumption DEF FramingAssumption
  <2>3. QED
    BY <2>1, <2>2 DEF Init, TypeOK
<1>3. Ends = {} /\ Clean = {} /\ ~BrokenPair
  BY <1>1 DEF Ends, Clean, BrokenPair
<1>4. Current = <<>>
  <2>1. First(LastEnd) \in Int /\ 0 < First(LastEnd)
    BY <1>1, <1>2, LastFacts
  <2>2. QED
    BY <1>1, <2>1, SubSeqEmpty DEF Current
<1>5. Remembered
  BY <1>1, <1>4, ClipNothing DEF Remembered, Spoiled, ToSet, Init
<1>6. FramesAreLines
  BY <1>1, <1>3, FS_EmptySet DEF FramesAreLines, Init
<1>7. NothingInvented
  <2>1. DOMAIN Received = {}
    BY <1>1
  <2>2. [k \in {} |-> 0] \in [DOMAIN Received -> Clean]
    BY <2>1
  <2>3. QED
    BY <2>1, <2>2 DEF NothingInvented, FramesFromLines
<1>8. QED
  BY <1>2, <1>5, <1>6, <1>7 DEF LineInv, LinesArrive

\* Reception: whatever bytes, errors and reads come in whatever order, every
\* frame is a line of the input, in order and at most once, and every intact line
\* is queued or counted, as long as no error hits the byte behind a CR.
THEOREM LinesDoArrive == Spec => []LinesArrive
<1>1. LineInv /\ [Next]_vars => LineInv'
  <2> SUFFICES ASSUME LineInv, [Next]_vars PROVE LineInv'
    OBVIOUS
  <2>1. CASE BadByte
    BY <2>1, BadByteKeeps
  <2>2. CASE SecondHalf
    BY <2>2, SecondHalfKeeps
  <2>3. CASE Delimiter
    BY <2>3, DelimiterKeeps
  <2>4. CASE TextByte
    BY <2>4, TextByteKeeps
  <2>5. CASE ReadLine
    BY <2>5, ReadLineKeeps
  <2>6. CASE UNCHANGED vars
    <3>1. Received' = Received /\ TypeOK'
      BY <2>6 DEF vars, Received, LineInv, TypeOK
    <3>2. QED
      BY <2>6, <3>1, NothingHeard DEF vars, LineInv
  <2>7. QED
    BY <2>1, <2>2, <2>3, <2>4, <2>5, <2>6 DEF Next
<1>2. LineInv => LinesArrive
  BY DEF LineInv
<1>3. QED
  BY <1>1, <1>2, StartsWithNothing, PTL DEF Spec

----------------------------------------------------------------------------
(***************************************************************************)
(* Digits, and the loop that reads them.                                   *)
(***************************************************************************)
\* Induction: what holds of 0, and of n + 1 if of n, holds of every number.
LEMMA Induct ==
  ASSUME NEW S, 0 \in S, \A n \in Nat : n \in S => n + 1 \in S
  PROVE  Nat \subseteq S
<1> SUFFICES ASSUME Nat \ S # {} PROVE FALSE
  OBVIOUS
<1>1. PICK m \in Nat \ S : \A n \in Nat \ S : m <= n
  BY LeastMember
<1>2. m - 1 \in Nat /\ m - 1 \in S
  BY <1>1
<1>3. QED
  BY <1>2

LEMMA DigitFacts ==
  ASSUME NEW d \in 0 .. 9
  PROVE  /\ IsDigit(DigitChars[d + 1]) /\ DigitValue(DigitChars[d + 1]) = d
         /\ DigitChars[d + 1] \notin {"-", "+", " "}
<1>1. DOMAIN DigitChars = 1 .. 10 /\ d + 1 \in 1 .. 10
  BY DEF DigitChars
<1>2. \A i, j \in 1 .. 10 : DigitChars[i] = DigitChars[j] => i = j
  BY DEF DigitChars
<1>3. DigitChars[d + 1] \notin {"-", "+", " "}
  <2>1. \A i \in 1 .. 10 : DigitChars[i] \notin {"-", "+", " "}
    <3>1. \A i \in 1 .. 10 :
            DigitChars[i] \in {"0", "1", "2", "3", "4", "5", "6", "7", "8", "9"}
      BY DEF DigitChars
    <3>2. QED
      BY <3>1
  <2>2. QED
    BY <1>1, <2>1
<1> DEFINE i == CHOOSE k \in DOMAIN DigitChars : DigitChars[k] = DigitChars[d + 1]
<1>4. i \in DOMAIN DigitChars /\ DigitChars[i] = DigitChars[d + 1]
  BY <1>1
<1> HIDE DEF i
<1>5. i = d + 1
  BY <1>1, <1>2, <1>4
<1>6. DigitValue(DigitChars[d + 1]) = d
  <2>1. DigitValue(DigitChars[d + 1]) = i - 1
    BY Zenon DEF DigitValue, i
  <2>2. QED
    BY <1>5, <2>1
<1>7. QED
  BY <1>1, <1>3, <1>6 DEF IsDigit

\* The loop over the first n digits.
Loop(f, digits, limit, n) ==
  f = [i \in 0 .. n |->
         IF i = 0 THEN Zero ELSE Accumulate(f[i - 1], digits[i], limit)]

LEMMA LoopExists ==
  ASSUME NEW digits, NEW limit, NEW n \in Nat
  PROVE  \E f : Loop(f, digits, limit, n)
<1> USE DEF Loop
<1> DEFINE Upto(m, f) == Loop(f, digits, limit, m)
           S == {m \in Nat : \E f : Upto(m, f)}
<1>1. 0 \in S
  <2> DEFINE f == [i \in 0 .. 0 |-> Zero]
  <2>1. f = [i \in 0 .. 0 |-> IF i = 0 THEN Zero ELSE Accumulate(f[i - 1], digits[i], limit)]
    OBVIOUS
  <2>2. QED
    BY <2>1
<1>2. ASSUME NEW m \in Nat, m \in S
      PROVE  m + 1 \in S
  <2>1. PICK f : Upto(m, f)
    BY <1>2
  <2> DEFINE g == [i \in 0 .. m + 1 |->
                     IF i <= m THEN f[i] ELSE Accumulate(f[m], digits[m + 1], limit)]
  <2>2. DOMAIN g = 0 .. m + 1 /\ \A i \in 0 .. m : g[i] = f[i]
    OBVIOUS
  <2>3. ASSUME NEW i \in 0 .. m + 1
        PROVE  g[i] = IF i = 0 THEN Zero ELSE Accumulate(g[i - 1], digits[i], limit)
    <3>1. CASE i = 0
      <4>1. 0 \in 0 .. m /\ f[0] = Zero
        BY <2>1
      <4>2. QED
        BY <2>2, <3>1, <4>1
    <3>2. CASE i # 0 /\ i <= m
      <4>1. i \in 0 .. m /\ i - 1 \in 0 .. m /\ f[i] = Accumulate(f[i - 1], digits[i], limit)
        BY <2>1, <3>2
      <4>2. QED
        BY <2>2, <3>2, <4>1
    <3>3. CASE i = m + 1
      <4>1. i - 1 = m /\ m \in 0 .. m /\ i # 0 /\ ~(i <= m)
        BY <3>3
      <4>2. QED
        BY <2>2, <3>3, <4>1
    <3>4. QED
      BY <3>1, <3>2, <3>3
  <2>4. g = [i \in 0 .. m + 1 |-> IF i = 0 THEN Zero ELSE Accumulate(g[i - 1], digits[i], limit)]
    <3>1. g = [i \in 0 .. m + 1 |-> g[i]]
      OBVIOUS
    <3> HIDE DEF g
    <3>2. QED
      BY <2>3, <3>1
  <2>5. Upto(m + 1, g)
    BY <2>4
  <2>6. m + 1 \in Nat
    OBVIOUS
  <2> HIDE DEF Upto, g
  <2>7. QED
    BY <2>5, <2>6
<1>3. Nat \subseteq S
  <2> HIDE DEF S
  <2>1. QED
    BY <1>1, <1>2, Induct
<1>4. QED
  BY <1>3

LEMMA NumberIsLoop ==
  ASSUME NEW digits, NEW limit, Len(digits) \in Nat
  PROVE  \E f : Loop(f, digits, limit, Len(digits)) /\ Number(digits, limit) = f[Len(digits)]
<1> DEFINE f == CHOOSE g : g = [i \in 0 .. Len(digits) |->
                                  IF i = 0 THEN Zero
                                  ELSE Accumulate(g[i - 1], digits[i], limit)]
<1>1. PICK g : Loop(g, digits, limit, Len(digits))
  BY LoopExists
<1>2. f = [i \in 0 .. Len(digits) |-> IF i = 0 THEN Zero
                                      ELSE Accumulate(f[i - 1], digits[i], limit)]
  BY <1>1, Zenon DEF Loop
<1>3. Number(digits, limit) = f[Len(digits)]
  BY Zenon DEF Number
<1>4. QED
  BY <1>2, <1>3, Zenon DEF Loop

SameStart(s, t, n) == \A i \in 1 .. n : s[i] = t[i]

\* Two loops agree as far as both go over the same digits.
LEMMA LoopsAgree ==
  ASSUME NEW s, NEW t, NEW limit, NEW m \in Nat, NEW n \in Nat, m <= n,
         SameStart(s, t, m), NEW f, Loop(f, s, limit, m), NEW g, Loop(g, t, limit, n)
  PROVE  \A i \in 0 .. m : f[i] = g[i]
<1> DEFINE S == {i \in Nat : i <= m => f[i] = g[i]}
<1>1. 0 \in S
  BY DEF Loop
<1>2. ASSUME NEW i \in Nat, i \in S
      PROVE  i + 1 \in S
  <2>1. SUFFICES ASSUME i + 1 <= m PROVE f[i + 1] = g[i + 1]
    OBVIOUS
  <2>2. i + 1 \in 0 .. m /\ i + 1 \in 0 .. n /\ i + 1 # 0 /\ (i + 1) - 1 = i /\ i + 1 \in 1 .. m
    BY <2>1
  <2>3. f[i + 1] = Accumulate(f[i], s[i + 1], limit) /\ g[i + 1] = Accumulate(g[i], t[i + 1], limit)
    BY <2>2 DEF Loop
  <2>4. QED
    BY <1>2, <2>1, <2>2, <2>3 DEF SameStart
<1>3. Nat \subseteq S
  <2> HIDE DEF S
  <2>1. QED
    BY <1>1, <1>2, Induct
<1>4. QED
  BY <1>3

LEMMA NumberOfNone ==
  ASSUME NEW limit
  PROVE  Number(<<>>, limit) = Zero
<1>1. Len(<<>>) = 0
  OBVIOUS
<1>2. PICK f : Loop(f, <<>>, limit, 0) /\ Number(<<>>, limit) = f[0]
  BY <1>1, NumberIsLoop
<1>3. QED
  BY <1>2 DEF Loop

LEMMA NumberOfMore ==
  ASSUME NEW C, NEW s \in Seq(C), NEW c \in C, NEW limit
  PROVE  Number(Append(s, c), limit) = Accumulate(Number(s, limit), c, limit)
<1> DEFINE t == Append(s, c)
           n == Len(s)
<1>1. /\ n \in Nat /\ Len(t) = n + 1 /\ Len(t) \in Nat
      /\ t[n + 1] = c /\ \A i \in 1 .. n : s[i] = t[i]
  OBVIOUS
<1>2. PICK f : Loop(f, s, limit, n) /\ Number(s, limit) = f[n]
  BY <1>1, NumberIsLoop
<1>3. PICK g : Loop(g, t, limit, n + 1) /\ Number(t, limit) = g[n + 1]
  <2> HIDE DEF t, n
  <2>1. QED
    BY <1>1, NumberIsLoop
<1> HIDE DEF t, n
<1>4. f[n] = g[n]
  <2>1. n + 1 \in Nat /\ n <= n + 1 /\ n \in 0 .. n
    BY <1>1
  <2>2. \A i \in 0 .. n : f[i] = g[i]
    <3>1. n \in Nat /\ SameStart(s, t, n)
      BY <1>1 DEF SameStart
    <3>2. Loop(f, s, limit, n)
      BY <1>2
    <3>3. Loop(g, t, limit, n + 1)
      BY <1>3
    <3>4. QED
      BY <2>1, <3>1, <3>2, <3>3, LoopsAgree
  <2>3. QED
    BY <2>1, <2>2
<1>5. g[n + 1] = Accumulate(g[n], t[n + 1], limit)
  <2>1. n + 1 \in 0 .. n + 1 /\ n + 1 # 0 /\ (n + 1) - 1 = n
    BY <1>1
  <2>2. QED
    BY <1>3, <2>1 DEF Loop
<1>6. QED
  BY <1>1, <1>2, <1>3, <1>4, <1>5 DEF t

----------------------------------------------------------------------------
(***************************************************************************)
(* The numerals that are printed.  Decimal is defined for every number,    *)
(* because a number of more digits has a quotient that is smaller.         *)
(***************************************************************************)
Numeral(f, n) == Append(IF n < 10 THEN <<>> ELSE f[n \div 10], DigitChars[(n % 10) + 1])

Numerals(f, n) == f = [k \in 0 .. n |-> Numeral(f, k)]

LEMMA QuotientIsSmaller ==
  ASSUME NEW n \in Nat
  PROVE  /\ n \div 10 \in Nat /\ n % 10 \in 0 .. 9 /\ n = 10 * (n \div 10) + (n % 10)
         /\ n \div 10 <= n /\ (n >= 10 => n \div 10 < n)
         /\ n < 10 => n % 10 = n
OBVIOUS

LEMMA NumeralDepends ==
  ASSUME NEW f, NEW g, NEW n \in Nat, n >= 10 => f[n \div 10] = g[n \div 10]
  PROVE  Numeral(f, n) = Numeral(g, n)
BY DEF Numeral

LEMMA NumeralsExist ==
  ASSUME NEW n \in Nat
  PROVE  \E f : Numerals(f, n)
<1> DEFINE S == {m \in Nat : \E f : Numerals(f, m)}
<1>1. 0 \in S
  <2> DEFINE f == [k \in 0 .. 0 |-> Numeral(<<>>, 0)]
  <2>1. Numeral(<<>>, 0) = Numeral(f, 0)
    BY NumeralDepends
  <2>2. f = [k \in 0 .. 0 |-> Numeral(f, k)]
    <3>1. \A k \in 0 .. 0 : k = 0
      OBVIOUS
    <3>2. f = [k \in 0 .. 0 |-> f[k]] /\ \A k \in 0 .. 0 : f[k] = Numeral(<<>>, 0)
      OBVIOUS
    <3> HIDE DEF f
    <3>3. \A k \in 0 .. 0 : f[k] = Numeral(f, k)
      BY <2>1, <3>1, <3>2
    <3>4. QED
      BY <3>2, <3>3
  <2> HIDE DEF f
  <2>3. QED
    BY <2>2 DEF Numerals
<1>2. ASSUME NEW m \in Nat, m \in S
      PROVE  m + 1 \in S
  <2>1. PICK f : Numerals(f, m)
    BY <1>2
  <2> DEFINE g == [k \in 0 .. m + 1 |-> IF k <= m THEN f[k] ELSE Numeral(f, m + 1)]
  <2>2. /\ g = [k \in 0 .. m + 1 |-> g[k]] /\ \A k \in 0 .. m : g[k] = f[k]
        /\ g[m + 1] = Numeral(f, m + 1)
    OBVIOUS
  <2>3. \A k \in 0 .. m : f[k] = Numeral(f, k)
    BY <2>1 DEF Numerals
  <2> HIDE DEF g
  <2>4. ASSUME NEW k \in 0 .. m + 1
        PROVE  g[k] = Numeral(g, k)
    <3>1. k \in Nat /\ (k >= 10 => k \div 10 \in 0 .. m)
      BY QuotientIsSmaller
    <3>2. Numeral(f, k) = Numeral(g, k)
      BY <2>2, <3>1, NumeralDepends
    <3>3. k \in 0 .. m \/ k = m + 1
      OBVIOUS
    <3>4. QED
      BY <2>2, <2>3, <3>2, <3>3
  <2>5. Numerals(g, m + 1)
    BY <2>2, <2>4 DEF Numerals
  <2>6. m + 1 \in Nat
    OBVIOUS
  <2>7. QED
    BY <2>5, <2>6
<1>3. Nat \subseteq S
  <2> HIDE DEF S
  <2>1. QED
    BY <1>1, <1>2, Induct
<1>4. QED
  BY <1>3

LEMMA NumeralsAgree ==
  ASSUME NEW m \in Nat, NEW n \in Nat, NEW f, Numerals(f, m), NEW g, Numerals(g, n),
         NEW i \in Nat, i <= m, i <= n
  PROVE  f[i] = g[i]
<1> DEFINE S == {k \in Nat : \A j \in 0 .. k : j <= m /\ j <= n => f[j] = g[j]}
<1>0. /\ \A k \in 0 .. m : f[k] = Numeral(f, k)
      /\ \A k \in 0 .. n : g[k] = Numeral(g, k)
  BY DEF Numerals
<1>1. 0 \in S
  <2>1. Numeral(f, 0) = Numeral(g, 0)
    BY NumeralDepends
  <2>2. f[0] = g[0]
    BY <1>0, <2>1
  <2>3. QED
    BY <2>2
<1>2. ASSUME NEW k \in Nat, k \in S
      PROVE  k + 1 \in S
  <2>1. SUFFICES ASSUME k + 1 <= m, k + 1 <= n
                 PROVE  f[k + 1] = g[k + 1]
    BY <1>2
  <2>2. k + 1 \in Nat /\ k + 1 \in 0 .. m /\ k + 1 \in 0 .. n
    BY <2>1
  <2>3. (k + 1) \div 10 \in Nat /\ (k + 1 >= 10 => (k + 1) \div 10 < k + 1)
    BY <2>2, QuotientIsSmaller
  <2>4. k + 1 >= 10 => f[(k + 1) \div 10] = g[(k + 1) \div 10]
    BY <1>2, <2>1, <2>3
  <2>5. Numeral(f, k + 1) = Numeral(g, k + 1)
    BY <2>2, <2>4, NumeralDepends
  <2>6. QED
    BY <1>0, <2>2, <2>5
<1>3. Nat \subseteq S
  <2> HIDE DEF S
  <2>1. QED
    BY <1>1, <1>2, Induct
<1>4. QED
  BY <1>3

LEMMA DecimalIs == \A n \in Nat : Decimal[n] = Numeral(Decimal, n)
<1> DEFINE upto(n) == CHOOSE f : Numerals(f, n)
           g == [n \in Nat |-> upto(n)[n]]
<1>1. \A n \in Nat : Numerals(upto(n), n)
  BY NumeralsExist
<1> HIDE DEF upto
<1>2. g = [n \in Nat |-> g[n]] /\ \A n \in Nat : g[n] = upto(n)[n]
  OBVIOUS
<1> HIDE DEF g
<1>3. ASSUME NEW n \in Nat
      PROVE  g[n] = Numeral(g, n)
  <2>1. upto(n)[n] = Numeral(upto(n), n)
    <3>1. n \in 0 .. n
      OBVIOUS
    <3>2. QED
      BY <1>1, <3>1 DEF Numerals
  <2>2. n \div 10 \in Nat /\ n \div 10 <= n
    BY QuotientIsSmaller
  <2>3. upto(n)[n \div 10] = upto(n \div 10)[n \div 10]
    BY <1>1, <2>2, NumeralsAgree
  <2>4. upto(n)[n \div 10] = g[n \div 10]
    BY <1>2, <2>2, <2>3
  <2>5. Numeral(upto(n), n) = Numeral(g, n)
    BY <2>4, NumeralDepends
  <2>6. QED
    BY <1>2, <2>1, <2>5
<1>4. g = [n \in Nat |-> Numeral(g, n)]
  BY <1>2, <1>3
<1>5. g = [n \in Nat |-> Append(IF n < 10 THEN <<>> ELSE g[n \div 10], DigitChars[(n % 10) + 1])]
  BY <1>4 DEF Numeral
<1>6. Decimal = [n \in Nat |->
                   Append(IF n < 10 THEN <<>> ELSE Decimal[n \div 10], DigitChars[(n % 10) + 1])]
  BY <1>5, Zenon DEF Decimal
<1>7. QED
  BY <1>6 DEF Numeral


----------------------------------------------------------------------------
(***************************************************************************)
(* What is printed is read back.                                           *)
(***************************************************************************)
DigitSet == {DigitChars[i] : i \in 1 .. 10}

\* The numeral of n is made of digits, and the loop makes n of it.
ReadsBack(n, limit) ==
  /\ Decimal[n] \in Seq(DigitSet) /\ Decimal[n] # <<>>
  /\ n <= limit => Number(Decimal[n], limit) = [ok |-> TRUE, value |-> n]

\* A digit that keeps the value within the limit is accepted.
LEMMA OneMore ==
  ASSUME NEW n \in Nat, NEW limit \in Nat, n <= limit
  PROVE  Accumulate([ok |-> TRUE, value |-> n \div 10], DigitChars[(n % 10) + 1], limit)
           = [ok |-> TRUE, value |-> n]
<1> DEFINE q == n \div 10
           d == n % 10
<1>1. q \in Nat /\ d \in 0 .. 9 /\ n = 10 * q + d
  BY QuotientIsSmaller
<1> HIDE DEF q, d
<1>2. IsDigit(DigitChars[d + 1]) /\ DigitValue(DigitChars[d + 1]) = d
  BY <1>1, DigitFacts
<1>3. ~TooBig(q, d, limit)
  <2>1. limit - d \in Nat /\ 10 * q <= limit - d
    BY <1>1
  <2>2. PICK a \in Nat : a = limit - d
    BY <2>1
  <2>3. a = 10 * (a \div 10) + (a % 10) /\ a \div 10 \in Nat /\ a % 10 \in 0 .. 9
    BY <2>2, QuotientIsSmaller
  <2>4. q <= a \div 10
    BY <1>1, <2>1, <2>2, <2>3
  <2>5. QED
    BY <1>1, <2>2, <2>3, <2>4 DEF TooBig
<1>4. q * 10 + d = n
  BY <1>1
<1>5. Accumulate([ok |-> TRUE, value |-> q], DigitChars[d + 1], limit) = [ok |-> TRUE, value |-> n]
  BY <1>2, <1>3, <1>4 DEF Accumulate
<1>6. QED
  BY <1>5 DEF q, d

LEMMA NumeralsAreRead ==
  ASSUME NEW limit \in Nat
  PROVE  \A n \in Nat : ReadsBack(n, limit)
<1> DEFINE S == {k \in Nat : \A j \in 0 .. k : ReadsBack(j, limit)}
<1>1. ASSUME NEW n \in Nat, n >= 10 => ReadsBack(n \div 10, limit)
      PROVE  ReadsBack(n, limit)
  <2> DEFINE front == IF n < 10 THEN <<>> ELSE Decimal[n \div 10]
             c == DigitChars[(n % 10) + 1]
  <2>1. /\ n \div 10 \in Nat /\ n % 10 \in 0 .. 9 /\ n \div 10 <= n
        /\ n < 10 => n \div 10 = 0
    BY QuotientIsSmaller
  <2>2. Decimal[n] = Append(front, c)
    BY DecimalIs DEF Numeral
  <2>3. front \in Seq(DigitSet)
    BY <1>1, <2>1 DEF ReadsBack
  <2>4. c \in DigitSet
    BY <2>1 DEF DigitSet
  <2>5. n <= limit => Number(front, limit) = [ok |-> TRUE, value |-> n \div 10]
    <3>1. CASE n < 10
      BY <2>1, <3>1, NumberOfNone DEF Zero
    <3>2. CASE n >= 10
      BY <1>1, <2>1, <3>2 DEF ReadsBack
    <3>3. QED
      BY <3>1, <3>2
  <2> HIDE DEF front
  <2>6. Number(Append(front, c), limit) = Accumulate(Number(front, limit), c, limit)
    <3> HIDE DEF c
    <3>1. QED
      BY <2>3, <2>4, NumberOfMore
  <2>7. n <= limit => Number(Decimal[n], limit) = [ok |-> TRUE, value |-> n]
    BY <2>2, <2>5, <2>6, OneMore
  <2> HIDE DEF c
  <2>8. Append(front, c) \in Seq(DigitSet) /\ Append(front, c) # <<>>
    BY <2>3, <2>4, AppendProperties
  <2>9. QED
    BY <2>2, <2>7, <2>8 DEF ReadsBack
<1>2. 0 \in S
  <2>1. ReadsBack(0, limit)
    BY <1>1
  <2>2. QED
    BY <2>1
<1>3. ASSUME NEW k \in Nat, k \in S
      PROVE  k + 1 \in S
  <2>1. k + 1 \in Nat /\ (k + 1) \div 10 \in Nat
        /\ (k + 1 >= 10 => (k + 1) \div 10 < k + 1)
    BY QuotientIsSmaller
  <2>2. k + 1 >= 10 => ReadsBack((k + 1) \div 10, limit)
    BY <1>3, <2>1
  <2>3. ReadsBack(k + 1, limit)
    BY <1>1, <2>1, <2>2
  <2>4. QED
    BY <1>3, <2>1, <2>3
<1>4. Nat \subseteq S
  <2> HIDE DEF S
  <2>1. QED
    BY <1>2, <1>3, Induct
<1>5. QED
  BY <1>4

LEMMA UnsignedArgument ==
  ASSUME NEW text, NEW n, text # <<>>, Head(text) \notin {"-", "+"},
         Number(text, Limit(FALSE)) = [ok |-> TRUE, value |-> n]
  PROVE  Argument(text) = [ok |-> TRUE, value |-> n]
<1> DEFINE signed == text # <<>> /\ Head(text) \in {"-", "+"}
           negative == signed /\ Head(text) = "-"
           digits == IF signed THEN Tail(text) ELSE text
           number == Number(digits, Limit(negative))
<1>1. signed = FALSE /\ negative = FALSE
  OBVIOUS
<1>2. digits = text
  BY <1>1
<1>3. number.ok = TRUE /\ number.value = n
  <2> HIDE DEF negative, digits
  <2>1. number = Number(text, Limit(FALSE))
    BY <1>1, <1>2
  <2> HIDE DEF number
  <2>2. number = [ok |-> TRUE, value |-> n]
    BY <2>1
  <2>3. QED
    BY <2>2
<1>4. Argument(text) = IF digits = <<>> \/ ~number.ok THEN NoNumber
                       ELSE [ok |-> TRUE, value |-> IF negative THEN -number.value ELSE number.value]
  BY Zenon DEF Argument
<1> HIDE DEF number, digits, negative
<1>5. QED
  BY <1>1, <1>2, <1>3, <1>4

LEMMA NegativeArgument ==
  ASSUME NEW text, NEW n \in Nat, text # <<>>, Head(text) = "-", Tail(text) # <<>>,
         Number(Tail(text), Limit(TRUE)) = [ok |-> TRUE, value |-> n]
  PROVE  Argument(text) = [ok |-> TRUE, value |-> -n]
<1> DEFINE signed == text # <<>> /\ Head(text) \in {"-", "+"}
           negative == signed /\ Head(text) = "-"
           digits == IF signed THEN Tail(text) ELSE text
           number == Number(digits, Limit(negative))
<1>1. signed = TRUE /\ negative = TRUE
  OBVIOUS
<1>2. digits = Tail(text)
  BY <1>1
<1>3. number.ok = TRUE /\ number.value = n
  <2> HIDE DEF negative, digits
  <2>1. number = Number(Tail(text), Limit(TRUE))
    BY <1>1, <1>2
  <2> HIDE DEF number
  <2>2. number = [ok |-> TRUE, value |-> n]
    BY <2>1
  <2>3. QED
    BY <2>2
<1>4. Argument(text) = IF digits = <<>> \/ ~number.ok THEN NoNumber
                       ELSE [ok |-> TRUE, value |-> IF negative THEN -number.value ELSE number.value]
  BY Zenon DEF Argument
<1> HIDE DEF number, digits, negative
<1>5. QED
  BY <1>1, <1>2, <1>3, <1>4

LEMMA ValuesAreRead ==
  ASSUME NEW value \in -IntMax - 1 .. IntMax
  PROVE  Argument(FormatInt(value)) = [ok |-> TRUE, value |-> value]
<1> DEFINE n == Magnitude(value)
           s == Decimal[n]
           negative == value < 0
<1>1. /\ IntMax \in Nat /\ value \in Int /\ n \in Nat /\ Limit(negative) \in Nat
      /\ n <= Limit(negative) /\ (negative => value = -n) /\ (~negative => value = n)
  BY ProtocolAssumption DEF Magnitude, Limit
<1>2. s \in Seq(DigitSet) /\ s # <<>> /\ Number(s, Limit(negative)) = [ok |-> TRUE, value |-> n]
  <2> HIDE DEF n, negative
  <2>1. QED
    BY <1>1, NumeralsAreRead DEF ReadsBack
<1>3. FormatInt(value) = (IF negative THEN <<"-">> ELSE <<>>) \o s
  BY DEF FormatInt
<1> HIDE DEF n, s
<1>4. s \in Seq(DigitSet) /\ s[1] \in DigitSet /\ s[1] \notin {"-", "+"}
  <2>1. s[1] \in DigitSet
    BY <1>2
  <2>2. PICK i \in 1 .. 10 : s[1] = DigitChars[i]
    BY <2>1 DEF DigitSet
  <2>3. i - 1 \in 0 .. 9 /\ (i - 1) + 1 = i
    OBVIOUS
  <2>4. DigitChars[(i - 1) + 1] \notin {"-", "+", " "}
    BY <2>3, DigitFacts
  <2>5. QED
    BY <1>2, <2>1, <2>2, <2>3, <2>4
<1>5. CASE negative
  <2>1. FormatInt(value) = <<"-">> \o s
    BY <1>3, <1>5
  <2>2. <<"-">> \o s # <<>> /\ Head(<<"-">> \o s) = "-" /\ Tail(<<"-">> \o s) = s
    <3>1. <<"-">> \o s \in Seq(DigitSet \cup {"-"}) /\ Len(<<"-">> \o s) = 1 + Len(s)
      BY <1>2
    <3>2. (<<"-">> \o s)[1] = "-"
      BY <1>2
    <3>3. \A i \in 1 .. Len(s) : (<<"-">> \o s)[i + 1] = s[i]
      BY <1>2
    <3> DEFINE t == <<"-">> \o s
    <3>4. t # <<>> /\ Head(t) = "-"
      BY <3>1, <3>2
    <3>5. Tail(t) \in Seq(DigitSet \cup {"-"}) /\ Len(Tail(t)) = Len(s)
          /\ \A i \in 1 .. Len(s) : Tail(t)[i] = t[i + 1]
      <4> HIDE DEF t
      <4>1. t \in Seq(DigitSet \cup {"-"}) /\ Len(t) = 1 + Len(s) /\ t # <<>> /\ Len(s) \in Nat
        BY <1>2, <3>1, <3>4 DEF t
      <4>2. QED
        BY <4>1
    <3>6. Tail(t) = s
      <4>1. s \in Seq(DigitSet \cup {"-"})
        BY <1>2
      <4>2. QED
        BY <3>3, <3>5, <4>1, SeqEqual
    <3>7. QED
      BY <3>4, <3>6
  <2>3. Number(s, Limit(TRUE)) = [ok |-> TRUE, value |-> n]
    <3>1. negative = TRUE
      BY <1>5
    <3>2. QED
      BY <1>2, <3>1
  <2>4. Argument(<<"-">> \o s) = [ok |-> TRUE, value |-> -n]
    <3> DEFINE t == <<"-">> \o s
    <3>1. t # <<>> /\ Head(t) = "-" /\ Tail(t) = s
      BY <2>2
    <3> HIDE DEF t
    <3>2. Argument(t) = [ok |-> TRUE, value |-> -n]
      BY <1>1, <1>2, <2>3, <3>1, NegativeArgument
    <3>3. QED
      BY <3>2 DEF t
  <2>5. QED
    BY <1>1, <1>5, <2>1, <2>4
<1>6. CASE ~negative
  <2>1. FormatInt(value) = s
    BY <1>2, <1>3, <1>6
  <2>2. Head(s) \notin {"-", "+"}
    BY <1>2, <1>4
  <2>3. Number(s, Limit(FALSE)) = [ok |-> TRUE, value |-> n]
    <3>1. negative = FALSE
      BY <1>6
    <3>2. QED
      BY <1>2, <3>1
  <2>4. Argument(s) = [ok |-> TRUE, value |-> n]
    BY <1>2, <2>2, <2>3, UnsignedArgument
  <2>5. QED
    BY <1>1, <1>6, <2>1, <2>4
<1>7. QED
  BY <1>5, <1>6


----------------------------------------------------------------------------
(***************************************************************************)
(* Lines.                                                                  *)
(***************************************************************************)
LEMMA WholeBuffer ==
  ASSUME NEW C, NEW text \in Seq(C)
  PROVE  SubSeq(Append(text, "NUL"), 1, Len(text)) = text
<1> DEFINE D == C \cup {"NUL"}
           a == Append(text, "NUL")
           t == SubSeq(a, 1, Len(text))
<1>1. /\ text \in Seq(D) /\ a \in Seq(D) /\ Len(text) \in Nat /\ Len(a) = Len(text) + 1
      /\ \A i \in 1 .. Len(text) : a[i] = text[i]
  <2>1. text \in Seq(D) /\ "NUL" \in D
    OBVIOUS
  <2> HIDE DEF D
  <2>2. QED
    BY <2>1, AppendProperties
<1> HIDE DEF a, D
<1>2. t \in Seq(D) /\ Len(t) = Len(text) /\ \A i \in 1 .. Len(text) : t[i] = a[i]
  BY <1>1
<1> HIDE DEF t
<1>3. t = text
  BY <1>1, <1>2, SeqEqual
<1>4. QED
  BY <1>3 DEF t, a

LEMMA LinesAreWhole ==
  ASSUME NEW C, NEW text \in Seq(C)
  PROVE  /\ HostPrint(text) = IF Len(text) <= MaxWrite THEN text ELSE Nothing
         /\ TargetPrint(text) = IF Len(text) <= MaxWrite THEN text ELSE Nothing
<1>1. Len(text) \in Nat /\ MaxWrite \in Nat
      /\ SubSeq(Append(text, "NUL"), 1, Len(text)) = text
  BY ProtocolAssumption, WholeBuffer
<1>2. CASE Len(text) <= MaxWrite
  <2>1. Len(text) < Buffer /\ ~(Len(text) > MaxWrite) /\ ~(Len(text) < 0)
    BY <1>1, <1>2 DEF Buffer
  <2>2. /\ HostFormat(text, Buffer) = [length |-> Len(text), data |-> text]
        /\ TinyFormat(text, Buffer) = [length |-> Len(text), data |-> text]
    BY <2>1 DEF HostFormat, TinyFormat
  <2>3. Sent([length |-> Len(text), data |-> text]) = text
    BY <1>1 DEF Sent
  <2>4. HostPrint(text) = text
    BY <2>1, <2>2, <2>3 DEF HostPrint
  <2>5. TargetPrint(text) = text
    BY <2>1, <2>2, <2>3 DEF TargetPrint
  <2>6. QED
    BY <1>2, <2>4, <2>5
<1>3. CASE ~(Len(text) <= MaxWrite)
  <2>1. Len(text) > MaxWrite /\ ~(Len(text) < Buffer)
    BY <1>1, <1>3 DEF Buffer
  <2>2. HostFormat(text, Buffer).length = Len(text) /\ TinyFormat(text, Buffer).length = -1
    BY <2>1 DEF HostFormat, TinyFormat
  <2>3. HostPrint(text) = Nothing
    BY <2>1, <2>2 DEF HostPrint
  <2>4. TargetPrint(text) = Nothing
    BY <2>2 DEF TargetPrint
  <2>5. QED
    BY <1>3, <2>3, <2>4
<1>4. QED
  BY <1>2, <1>3

LineTyped == line \in Seq(Alphabet)

LEMMA LinesStayTyped == LineSpec => []LineTyped
<1>1. line = <<>> => LineTyped
  BY DEF LineTyped
<1>2. LineTyped /\ [\E char \in Alphabet : Type(char)]_line => LineTyped'
  BY DEF LineTyped, Type
<1>3. QED
  BY <1>1, <1>2, PTL DEF LineSpec

\* Whatever value is printed is read back, and whatever line is printed
\* leaves both adapters whole or not at all.
THEOREM PrintsStayTrue == LineSpec => []PrintsAreRead
<1>1. ASSUME LineTyped
      PROVE  PrintsAreRead
  <2>1. PrintedIsRead
    BY ValuesAreRead DEF PrintedIsRead
  <2>2. NothingTruncated
    <3>1. Len(line) \in Nat /\ MaxWrite \in Nat
      BY <1>1, ProtocolAssumption DEF LineTyped
    <3>2. QED
      BY <1>1, <3>1, LinesAreWhole DEF LineTyped, NothingTruncated
  <2>3. QED
    BY <2>1, <2>2 DEF PrintsAreRead
<1>2. LineTyped => PrintsAreRead
  BY <1>1
<1>3. QED
  BY <1>2, LinesStayTyped, PTL

----------------------------------------------------------------------------
(***************************************************************************)
(* The value of a numeral, and what the loop over its digits makes of it.  *)
(***************************************************************************)
Further(value, char) == 10 * value + DigitValue(char)

\* The values of the first n digits.
Values(f, digits, n) ==
  f = [i \in 0 .. n |-> IF i = 0 THEN 0 ELSE Further(f[i - 1], digits[i])]

LEMMA ValuesExist ==
  ASSUME NEW digits, NEW n \in Nat
  PROVE  \E f : Values(f, digits, n)
<1> USE DEF Values
<1> DEFINE Upto(m, f) == Values(f, digits, m)
           S == {m \in Nat : \E f : Upto(m, f)}
<1>1. 0 \in S
  <2> DEFINE f == [i \in 0 .. 0 |-> 0]
  <2>1. f = [i \in 0 .. 0 |-> IF i = 0 THEN 0 ELSE Further(f[i - 1], digits[i])]
    OBVIOUS
  <2>2. QED
    BY <2>1
<1>2. ASSUME NEW m \in Nat, m \in S
      PROVE  m + 1 \in S
  <2>1. PICK f : Upto(m, f)
    BY <1>2
  <2> DEFINE g == [i \in 0 .. m + 1 |-> IF i <= m THEN f[i] ELSE Further(f[m], digits[m + 1])]
  <2>2. DOMAIN g = 0 .. m + 1 /\ \A i \in 0 .. m : g[i] = f[i]
    OBVIOUS
  <2>3. ASSUME NEW i \in 0 .. m + 1
        PROVE  g[i] = IF i = 0 THEN 0 ELSE Further(g[i - 1], digits[i])
    <3>1. CASE i = 0
      <4>1. 0 \in 0 .. m /\ f[0] = 0
        BY <2>1
      <4>2. QED
        BY <2>2, <3>1, <4>1
    <3>2. CASE i # 0 /\ i <= m
      <4>1. i \in 0 .. m /\ i - 1 \in 0 .. m /\ f[i] = Further(f[i - 1], digits[i])
        BY <2>1, <3>2
      <4>2. QED
        BY <2>2, <3>2, <4>1
    <3>3. CASE i = m + 1
      <4>1. i - 1 = m /\ m \in 0 .. m /\ i # 0 /\ ~(i <= m)
        BY <3>3
      <4>2. QED
        BY <2>2, <3>3, <4>1
    <3>4. QED
      BY <3>1, <3>2, <3>3
  <2>4. g = [i \in 0 .. m + 1 |-> IF i = 0 THEN 0 ELSE Further(g[i - 1], digits[i])]
    <3>1. g = [i \in 0 .. m + 1 |-> g[i]]
      OBVIOUS
    <3> HIDE DEF g
    <3>2. QED
      BY <2>3, <3>1
  <2>5. Upto(m + 1, g)
    BY <2>4
  <2>6. m + 1 \in Nat
    OBVIOUS
  <2> HIDE DEF Upto, g
  <2>7. QED
    BY <2>5, <2>6
<1>3. Nat \subseteq S
  <2> HIDE DEF S
  <2>1. QED
    BY <1>1, <1>2, Induct
<1>4. QED
  BY <1>3

LEMMA WorthIsLast ==
  ASSUME NEW digits, Len(digits) \in Nat
  PROVE  \E f : Values(f, digits, Len(digits)) /\ Worth(digits) = f[Len(digits)]
<1> DEFINE f == CHOOSE g : g = [i \in 0 .. Len(digits) |->
                                  IF i = 0 THEN 0 ELSE 10 * g[i - 1] + DigitValue(digits[i])]
<1>1. PICK g : Values(g, digits, Len(digits))
  BY ValuesExist
<1>2. f = [i \in 0 .. Len(digits) |-> IF i = 0 THEN 0 ELSE 10 * f[i - 1] + DigitValue(digits[i])]
  BY <1>1, Zenon DEF Values, Further
<1>3. Worth(digits) = f[Len(digits)]
  BY Zenon DEF Worth
<1>4. QED
  BY <1>2, <1>3, Zenon DEF Values, Further

\* A character is a digit or not, and a digit has one of ten values.
LEMMA DigitValues ==
  ASSUME NEW char, IsDigit(char)
  PROVE  DigitValue(char) \in 0 .. 9
<1>1. PICK i \in DOMAIN DigitChars : DigitChars[i] = char
  BY DEF IsDigit
<1>2. i - 1 \in 0 .. 9 /\ (i - 1) + 1 = i
  <2>1. DOMAIN DigitChars = 1 .. 10
    BY DEF DigitChars
  <2>2. QED
    BY <2>1
<1>3. DigitValue(DigitChars[(i - 1) + 1]) = i - 1
  BY <1>2, DigitFacts
<1>4. QED
  BY <1>1, <1>2, <1>3

\* The test without overflow is the comparison it stands for.
LEMMA TooBigMeans ==
  ASSUME NEW v \in Nat, NEW d \in 0 .. 9, NEW limit \in Nat, limit >= 9
  PROVE  TooBig(v, d, limit) <=> 10 * v + d > limit
<1>1. PICK a \in Nat : a = limit - d
  OBVIOUS
<1>2. a = 10 * (a \div 10) + (a % 10) /\ a \div 10 \in Nat /\ a % 10 \in 0 .. 9
  BY QuotientIsSmaller
<1>3. v > a \div 10 <=> 10 * v > a
  BY <1>2
<1>4. QED
  BY <1>1, <1>3 DEF TooBig

\* The digits up to the i-th, read and valued.
AllDigits(digits, i) == \A j \in 1 .. i : IsDigit(digits[j])

Reading(f, h, digits, limit, i) ==
  IF AllDigits(digits, i)
  THEN /\ h[i] \in Nat
       /\ h[i] <= limit => f[i].ok = TRUE /\ f[i].value = h[i]
       /\ h[i] > limit => f[i].ok = FALSE
  ELSE f[i].ok = FALSE

LEMMA NumberIsWorth ==
  ASSUME NEW digits, Len(digits) \in Nat, NEW limit \in Nat, limit >= 9
  PROVE  IF AllDigits(digits, Len(digits))
         THEN /\ Worth(digits) \in Nat
              /\ Worth(digits) <= limit => /\ Number(digits, limit).ok = TRUE
                                           /\ Number(digits, limit).value = Worth(digits)
              /\ Worth(digits) > limit => Number(digits, limit).ok = FALSE
         ELSE Number(digits, limit).ok = FALSE
<1> DEFINE n == Len(digits)
<1>1. PICK f : Loop(f, digits, limit, n) /\ Number(digits, limit) = f[n]
  BY NumberIsLoop
<1>2. PICK h : Values(h, digits, n) /\ Worth(digits) = h[n]
  BY WorthIsLast
<1> DEFINE S == {i \in Nat : i <= n => Reading(f, h, digits, limit, i)}
<1>3. 0 \in S
  <2>1. f[0] = Zero /\ h[0] = 0
    BY <1>1, <1>2 DEF Loop, Values
  <2>2. QED
    BY <2>1 DEF Zero, Reading, AllDigits
<1>4. ASSUME NEW i \in Nat, i \in S
      PROVE  i + 1 \in S
  <2>1. SUFFICES ASSUME i + 1 <= n PROVE Reading(f, h, digits, limit, i + 1)
    OBVIOUS
  <2> DEFINE c == digits[i + 1]
             d == DigitValue(c)
  <2>2. i + 1 \in 0 .. n /\ i + 1 # 0 /\ (i + 1) - 1 = i
    BY <2>1
  <2>3. f[i + 1] = Accumulate(f[i], c, limit) /\ h[i + 1] = 10 * h[i] + d
    BY <1>1, <1>2, <2>2 DEF Loop, Values, Further
  <2>4. Reading(f, h, digits, limit, i)
    BY <1>4, <2>1
  <2>5. AllDigits(digits, i + 1) <=> AllDigits(digits, i) /\ IsDigit(c)
    BY DEF AllDigits
  <2> HIDE DEF c
  <2>6. CASE ~AllDigits(digits, i) \/ ~IsDigit(c)
    <3>1. f[i].ok = FALSE \/ ~IsDigit(c)
      BY <2>4, <2>6 DEF Reading
    <3>2. f[i + 1].ok = FALSE
      BY <2>3, <3>1 DEF Accumulate, NoNumber
    <3>3. QED
      BY <2>5, <2>6, <3>2 DEF Reading
  <2>7. CASE AllDigits(digits, i) /\ IsDigit(c)
    <3>1. d \in 0 .. 9
      BY <2>7, DigitValues
    <3>2. /\ h[i] \in Nat
          /\ h[i] <= limit => f[i].ok = TRUE /\ f[i].value = h[i]
          /\ h[i] > limit => f[i].ok = FALSE
      BY <2>4, <2>7 DEF Reading
    <3> HIDE DEF d
    <3>3. h[i + 1] \in Nat /\ h[i + 1] >= h[i]
      BY <2>3, <3>1, <3>2
    <3>4. CASE h[i] > limit
      <4>1. f[i].ok = FALSE
        BY <3>2, <3>4
      <4>2. f[i + 1].ok = FALSE
        BY <2>3, <4>1 DEF Accumulate, NoNumber
      <4>3. ~(h[i + 1] <= limit)
        BY <3>2, <3>3, <3>4
      <4>4. QED
        BY <2>5, <2>7, <3>3, <4>2, <4>3 DEF Reading
    <3>5. CASE h[i] <= limit
      <4>1. f[i].ok = TRUE /\ f[i].value = h[i]
        BY <3>2, <3>5
      <4>2. TooBig(h[i], d, limit) <=> h[i + 1] > limit
        BY <2>3, <3>1, <3>2, TooBigMeans
      <4>3. f[i + 1] = IF TooBig(h[i], d, limit) THEN NoNumber
                       ELSE [ok |-> TRUE, value |-> h[i] * 10 + d]
        BY <2>3, <2>7, <4>1 DEF Accumulate, d
      <4>4. h[i] * 10 + d = h[i + 1]
        BY <2>3, <3>1, <3>2
      <4>5. /\ h[i + 1] <= limit => f[i + 1].ok = TRUE /\ f[i + 1].value = h[i + 1]
            /\ h[i + 1] > limit => f[i + 1].ok = FALSE
        <5>1. CASE h[i + 1] > limit
          BY <3>3, <4>2, <4>3, <5>1 DEF NoNumber
        <5>2. CASE h[i + 1] <= limit
          BY <3>3, <4>2, <4>3, <4>4, <5>2
        <5>3. QED
          BY <3>3, <5>1, <5>2
      <4>6. QED
        BY <2>5, <2>7, <3>3, <4>5 DEF Reading
    <3>6. QED
      BY <3>2, <3>4, <3>5
  <2>8. QED
    BY <2>6, <2>7
<1>5. Nat \subseteq S
  <2> HIDE DEF S
  <2>1. QED
    BY <1>3, <1>4, Induct
<1>6. Reading(f, h, digits, limit, n)
  BY <1>5
<1>7. QED
  BY <1>1, <1>2, <1>6 DEF Reading

\* The argument of a command, whatever text it is: a numeral within the range,
\* with the value it denotes, or nothing.
LEMMA ArgumentIsNumeral ==
  ASSUME NEW C, NEW text \in Seq(C)
  PROVE  Argument(text) = IF text # <<>> /\ IsNumeral(text) /\ InRange(NumeralValue(text))
                          THEN [ok |-> TRUE, value |-> NumeralValue(text)]
                          ELSE NoNumber
<1> DEFINE signed == text # <<>> /\ Head(text) \in {"-", "+"}
           negative == signed /\ Head(text) = "-"
           digits == IF signed THEN Tail(text) ELSE text
           number == Number(digits, Limit(negative))
           w == Worth(digits)
<1>1. Argument(text) = IF digits = <<>> \/ ~number.ok THEN NoNumber
                       ELSE [ok |-> TRUE, value |-> IF negative THEN -number.value ELSE number.value]
  BY Zenon DEF Argument
<1>2. /\ digits \in Seq(C)
      /\ text # <<>> => /\ digits = Digits(text)
                        /\ negative <=> text[1] = "-"
      /\ text = <<>> => digits = <<>>
  BY DEF Digits
<1>3. Limit(negative) \in Nat /\ Limit(negative) >= 9 /\ IntMax \in Nat
      /\ Limit(TRUE) = IntMax + 1 /\ Limit(FALSE) = IntMax
  BY ProtocolAssumption DEF Limit
<1> HIDE DEF digits, negative
<1>4. /\ AllDigits(digits, Len(digits)) => w \in Nat
      /\ AllDigits(digits, Len(digits)) /\ w <= Limit(negative) => number.ok = TRUE /\ number.value = w
      /\ AllDigits(digits, Len(digits)) /\ w > Limit(negative) => number.ok = FALSE
      /\ ~AllDigits(digits, Len(digits)) => number.ok = FALSE
  <2>1. Len(digits) \in Nat
    BY <1>2
  <2>2. QED
    BY <1>3, <2>1, NumberIsWorth
<1> HIDE DEF number, w
<1>5. CASE digits = <<>>
  <2>1. text = <<>> \/ ~IsNumeral(text)
    BY <1>2, <1>5 DEF IsNumeral
  <2>2. QED
    BY <1>1, <1>5, <2>1
<1>6. CASE digits # <<>>
  <2>1. text # <<>> /\ digits = Digits(text) /\ (negative <=> text[1] = "-")
    BY <1>2, <1>6
  <2>2. IsNumeral(text) <=> AllDigits(digits, Len(digits))
    <3>1. DOMAIN digits = 1 .. Len(digits)
      BY <1>2
    <3>2. QED
      BY <1>6, <2>1, <3>1 DEF IsNumeral, AllDigits
  <2>3. CASE ~AllDigits(digits, Len(digits))
    BY <1>1, <1>4, <2>2, <2>3
  <2>4. CASE AllDigits(digits, Len(digits)) /\ negative
    <3>1. negative = TRUE
      BY <2>4
    <3>2. Limit(negative) = IntMax + 1
      BY <1>3, <3>1
    <3>3. w \in Nat /\ NumeralValue(text) = -w
      BY <1>4, <2>1, <2>4 DEF NumeralValue, w
    <3>4. InRange(-w) <=> w <= IntMax + 1
      BY <1>3, <3>3 DEF InRange
    <3>5. CASE w <= IntMax + 1
      BY <1>1, <1>4, <1>6, <2>1, <2>2, <2>4, <3>2, <3>3, <3>4, <3>5
    <3>6. CASE w > IntMax + 1
      <4>1. ~(w <= IntMax + 1)
        BY <1>3, <3>3, <3>6
      <4>2. QED
        BY <1>1, <1>4, <2>4, <3>2, <3>3, <3>4, <3>6, <4>1
    <3>7. QED
      BY <1>3, <3>3, <3>5, <3>6
  <2>5. CASE AllDigits(digits, Len(digits)) /\ ~negative
    <3>1. negative = FALSE
      BY <2>5 DEF negative
    <3>2. Limit(negative) = IntMax
      BY <1>3, <3>1
    <3>3. w \in Nat /\ NumeralValue(text) = w
      BY <1>4, <2>1, <2>5 DEF NumeralValue, w
    <3>4. InRange(w) <=> w <= IntMax
      BY <1>3, <3>3 DEF InRange
    <3>5. CASE w <= IntMax
      BY <1>1, <1>4, <1>6, <2>1, <2>2, <2>5, <3>2, <3>3, <3>4, <3>5
    <3>6. CASE w > IntMax
      <4>1. ~(w <= IntMax)
        BY <1>3, <3>3, <3>6
      <4>2. QED
        BY <1>1, <1>4, <2>5, <3>2, <3>3, <3>4, <3>6, <4>1
    <3>7. QED
      BY <1>3, <3>3, <3>5, <3>6
  <2>6. QED
    BY <2>3, <2>4, <2>5
<1>7. QED
  BY <1>5, <1>6

----------------------------------------------------------------------------
(***************************************************************************)
(* Scanning a text.                                                        *)
(***************************************************************************)
Dark(text) == {i \in DOMAIN text : ~IsSpace(text[i])}

LEMMA SkipFacts ==
  ASSUME NEW C, NEW text \in Seq(C)
  PROVE  /\ Dark(text) = {} => SkipSpace(text) = <<>>
         /\ Dark(text) # {} =>
              \E m \in Dark(text) :
                /\ \A i \in 1 .. m - 1 : IsSpace(text[i])
                /\ SkipSpace(text) = SubSeq(text, m, Len(text))
<1> DEFINE D == {i \in DOMAIN text : ~IsSpace(text[i])}
<1>1. D = Dark(text)
  BY DEF Dark
<1>2. SkipSpace(text) = IF D = {} THEN <<>> ELSE SubSeq(text, Min(D), Len(text))
  BY Zenon DEF SkipSpace
<1> HIDE DEF D
<1>3. ASSUME D # {}
      PROVE  \E m \in D : /\ \A i \in 1 .. m - 1 : IsSpace(text[i])
                          /\ SkipSpace(text) = SubSeq(text, m, Len(text))
  <2>1. DOMAIN text = 1 .. Len(text) /\ Len(text) \in Nat /\ D \subseteq Nat
    BY <1>1 DEF Dark
  <2>2. \E x \in D : \A y \in D : x <= y
    BY <1>3, <2>1, LeastMember
  <2>3. Min(D) \in D /\ \A y \in D : Min(D) <= y
    BY <2>2 DEF Min
  <2>4. \A i \in 1 .. Min(D) - 1 : IsSpace(text[i])
    <3>1. PICK m \in D : m = Min(D)
      BY <2>3
    <3>2. m \in 1 .. Len(text) /\ \A y \in D : m <= y
      BY <1>1, <2>1, <2>3, <3>1 DEF Dark
    <3>3. \A i \in 1 .. m - 1 : i \in 1 .. Len(text) /\ ~(m <= i)
      BY <2>1, <3>2
    <3>4. \A i \in 1 .. m - 1 : IsSpace(text[i])
      BY <1>1, <2>1, <3>2, <3>3 DEF Dark
    <3>5. QED
      BY <3>1, <3>4
  <2>5. QED
    BY <1>2, <1>3, <2>3, <2>4
<1>4. QED
  BY <1>1, <1>2, <1>3

LEMMA ReverseFacts ==
  ASSUME NEW C, NEW s \in Seq(C)
  PROVE  /\ Reverse(s) \in Seq(C) /\ Len(Reverse(s)) = Len(s)
         /\ \A i \in 1 .. Len(s) : Reverse(s)[i] = s[Len(s) - i + 1]
BY DEF Reverse

LEMMA PieceFacts ==
  ASSUME NEW C, NEW s \in Seq(C), NEW m \in Nat, NEW n \in Nat, 1 <= m, m <= n + 1, n <= Len(s)
  PROVE  /\ SubSeq(s, m, n) \in Seq(C) /\ Len(SubSeq(s, m, n)) = n - m + 1
         /\ \A i \in 1 .. n - m + 1 : SubSeq(s, m, n)[i] = s[m + i - 1]
OBVIOUS

LEMMA TrimFacts ==
  ASSUME NEW C, NEW text \in Seq(C)
  PROVE  /\ Dark(text) = {} => Trim(text) = <<>>
         /\ Dark(text) # {} =>
              \E a, b \in Dark(text) :
                /\ a <= b /\ Trim(text) = SubSeq(text, a, b)
                /\ \A i \in 1 .. a - 1 : IsSpace(text[i])
                /\ \A i \in b + 1 .. Len(text) : IsSpace(text[i])
<1>1. ASSUME Dark(text) = {}
      PROVE  Trim(text) = <<>>
  <2>1. SkipSpace(text) = <<>>
    BY <1>1, SkipFacts
  <2>2. Reverse(<<>>) = <<>>
    BY DEF Reverse
  <2>3. SkipSpace(<<>>) = <<>>
    <3>1. Dark(<<>>) = {} /\ <<>> \in Seq(C)
      BY DEF Dark
    <3>2. QED
      BY <3>1, SkipFacts
  <2>4. QED
    BY <2>1, <2>2, <2>3 DEF Trim
<1>2. ASSUME Dark(text) # {}
      PROVE  \E a, b \in Dark(text) :
               /\ a <= b /\ Trim(text) = SubSeq(text, a, b)
               /\ \A i \in 1 .. a - 1 : IsSpace(text[i])
               /\ \A i \in b + 1 .. Len(text) : IsSpace(text[i])
  <2> DEFINE n == Len(text)
  <2>1. PICK m \in Dark(text) : /\ \A i \in 1 .. m - 1 : IsSpace(text[i])
                                /\ SkipSpace(text) = SubSeq(text, m, n)
    BY <1>2, SkipFacts
  <2>2. n \in Nat /\ m \in 1 .. n /\ ~IsSpace(text[m]) /\ DOMAIN text = 1 .. n
    BY DEF Dark
  <2> DEFINE s == SubSeq(text, m, n)
             r == Reverse(s)
             l == n - m + 1
  <2> HIDE DEF n
  <2>3. /\ s \in Seq(C) /\ Len(s) = l /\ l \in Nat
        /\ \A i \in 1 .. l : s[i] = text[m + i - 1]
    BY <2>2, PieceFacts DEF n
  <2> HIDE DEF s
  <2>4. /\ r \in Seq(C) /\ Len(r) = l /\ DOMAIN r = 1 .. l
        /\ \A i \in 1 .. l : r[i] = s[l - i + 1]
    BY <2>3, ReverseFacts
  <2>5. \A i \in 1 .. l : r[i] = text[n - i + 1]
    <3> SUFFICES ASSUME NEW i \in 1 .. l
                 PROVE  r[i] = text[n - i + 1]
      OBVIOUS
    <3>1. l - i + 1 \in 1 .. l /\ m + (l - i + 1) - 1 = n - i + 1
      BY <2>2, <2>3
    <3>2. r[i] = s[l - i + 1] /\ s[l - i + 1] = text[m + (l - i + 1) - 1]
      BY <2>3, <2>4, <3>1
    <3>3. QED
      BY <3>1, <3>2
  <2> HIDE DEF r
  <2>6. Dark(r) # {}
    <3>1. l \in 1 .. l /\ n - l + 1 = m
      BY <2>2, <2>3
    <3>2. r[l] = text[m]
      BY <2>5, <3>1
    <3>3. QED
      BY <2>2, <2>4, <3>1, <3>2 DEF Dark
  <2>7. PICK k \in Dark(r) : /\ \A i \in 1 .. k - 1 : IsSpace(r[i])
                             /\ SkipSpace(r) = SubSeq(r, k, l)
    BY <2>4, <2>6, SkipFacts
  <2> DEFINE b == n - k + 1
             q == SubSeq(r, k, l)
  <2>8. k \in 1 .. l /\ b \in m .. n /\ ~IsSpace(r[k]) /\ l - k + 1 \in Nat /\ l - k + 1 = b - m + 1
    <3>1. k \in 1 .. l /\ ~IsSpace(r[k])
      BY <2>4 DEF Dark
    <3>2. QED
      BY <2>2, <2>3, <3>1
  <2>9. ~IsSpace(text[b]) /\ b \in Dark(text)
    BY <2>2, <2>5, <2>8 DEF Dark
  <2>10. /\ q \in Seq(C) /\ Len(q) = l - k + 1
         /\ \A i \in 1 .. l - k + 1 : q[i] = r[k + i - 1]
    BY <2>3, <2>4, <2>8, PieceFacts
  <2> HIDE DEF q
  <2>11. /\ Reverse(q) \in Seq(C) /\ Len(Reverse(q)) = l - k + 1
         /\ \A i \in 1 .. l - k + 1 : Reverse(q)[i] = q[(l - k + 1) - i + 1]
    BY <2>10, ReverseFacts
  <2>12. \A i \in 1 .. b - m + 1 : Reverse(q)[i] = text[m + i - 1]
    <3> SUFFICES ASSUME NEW i \in 1 .. b - m + 1
                 PROVE  Reverse(q)[i] = text[m + i - 1]
      OBVIOUS
    <3> DEFINE j == (l - k + 1) - i + 1
    <3>1. i \in 1 .. l - k + 1 /\ j \in 1 .. l - k + 1
          /\ k + j - 1 \in 1 .. l /\ n - (k + j - 1) + 1 = m + i - 1
      BY <2>2, <2>3, <2>8
    <3>2. Reverse(q)[i] = q[j]
      BY <2>11, <3>1
    <3> HIDE DEF j
    <3>3. q[j] = r[k + j - 1] /\ r[k + j - 1] = text[n - (k + j - 1) + 1]
      BY <2>5, <2>10, <3>1
    <3>4. QED
      BY <3>1, <3>2, <3>3
  <2>13. /\ SubSeq(text, m, b) \in Seq(C) /\ Len(SubSeq(text, m, b)) = b - m + 1
         /\ \A i \in 1 .. b - m + 1 : SubSeq(text, m, b)[i] = text[m + i - 1]
    <3>1. m \in Nat /\ b \in Nat /\ 1 <= m /\ m <= b + 1 /\ b <= Len(text)
      BY <2>2, <2>8 DEF n
    <3> HIDE DEF b
    <3>2. QED
      BY <3>1, PieceFacts
  <2>14. Reverse(q) = SubSeq(text, m, b)
    <3> DEFINE t == Reverse(q)
               u == SubSeq(text, m, b)
    <3>1. t \in Seq(C) /\ u \in Seq(C) /\ Len(t) = Len(u) /\ \A i \in 1 .. Len(t) : t[i] = u[i]
      BY <2>8, <2>11, <2>12, <2>13
    <3> HIDE DEF t, u
    <3>2. t = u
      BY <3>1, SeqEqual
    <3>3. QED
      BY <3>2 DEF t, u
  <2>15. Trim(text) = SubSeq(text, m, b)
    BY <2>1, <2>7, <2>14 DEF Trim, r, s, q
  <2>16. \A i \in b + 1 .. n : IsSpace(text[i])
    <3> SUFFICES ASSUME NEW i \in b + 1 .. n
                 PROVE  IsSpace(text[i])
      OBVIOUS
    <3>1. n - i + 1 \in 1 .. k - 1 /\ n - i + 1 \in 1 .. l /\ n - (n - i + 1) + 1 = i
      BY <2>2, <2>3, <2>8
    <3>2. r[n - i + 1] = text[i] /\ IsSpace(r[n - i + 1])
      BY <2>5, <2>7, <3>1
    <3>3. QED
      BY <3>2
  <2>17. m <= b
    BY <2>2, <2>8
  <2> HIDE DEF b
  <2>18. QED
    BY <2>1, <2>9, <2>15, <2>16, <2>17 DEF n
<1>3. QED
  BY <1>1, <1>2

LEMMA FirstWordFacts ==
  ASSUME NEW C, NEW text \in Seq(C), 1 \in Dark(text)
  PROVE  \E c \in 1 .. Len(text) :
           /\ FirstWord(text) = SubSeq(text, 1, c)
           /\ \A i \in 1 .. c : ~IsSpace(text[i])
           /\ c = Len(text) \/ IsSpace(text[c + 1])
<1> DEFINE n == Len(text)
           E == {i \in DOMAIN text : IsSpace(text[i])} \cup {n + 1}
<1>1. n \in Nat /\ DOMAIN text = 1 .. n /\ 1 \in 1 .. n /\ ~IsSpace(text[1])
  BY DEF Dark
<1>2. /\ \A i \in E : i \in 2 .. n + 1 /\ (i = n + 1 \/ IsSpace(text[i]))
      /\ \A i \in 1 .. n : IsSpace(text[i]) => i \in E
      /\ E \subseteq Nat /\ E # {}
  BY <1>1
<1>3. FirstWord(text) = SubSeq(text, 1, Min(E) - 1)
  BY Zenon DEF FirstWord
<1> HIDE DEF E, n
<1>4. \E x \in E : \A y \in E : x <= y
  BY <1>2, LeastMember
<1>5. Min(E) \in E /\ \A y \in E : Min(E) <= y
  BY <1>4 DEF Min
<1>6. PICK m \in E : m = Min(E)
  BY <1>5
<1> DEFINE c == m - 1
<1>7. m \in 2 .. n + 1 /\ c \in 1 .. n /\ c + 1 = m /\ c + 1 = Min(E) /\ c = Min(E) - 1
  BY <1>1, <1>2, <1>6
<1> HIDE DEF c
<1>8. \A i \in 1 .. c : ~IsSpace(text[i])
  <2>1. \A i \in 1 .. c : i \in 1 .. n /\ ~(c + 1 <= i)
    BY <1>1, <1>7
  <2>2. QED
    BY <1>2, <1>5, <1>7, <2>1
<1>9. c = n \/ IsSpace(text[c + 1])
  BY <1>1, <1>2, <1>5, <1>7
<1>10. QED
  BY <1>3, <1>7, <1>8, <1>9 DEF n

----------------------------------------------------------------------------
(***************************************************************************)
(* The words of the line.                                                  *)
(***************************************************************************)
LEMMA WordFacts ==
  ASSUME LineTyped, NEW w \in Words
  PROVE  /\ Len(line) \in Nat /\ w[1] \in 1 .. Len(line) /\ w[2] \in 1 .. Len(line)
         /\ w = <<w[1], w[2]>> /\ w[1] <= w[2]
         /\ \A i \in w[1] .. w[2] : ~IsSpace(line[i]) /\ i \in Dark(line)
         /\ w[1] = 1 \/ IsSpace(line[w[1] - 1])
         /\ w[2] = Len(line) \/ IsSpace(line[w[2] + 1])
<1>1. Len(line) \in Nat /\ DOMAIN line = 1 .. Len(line)
  BY DEF LineTyped
<1>2. /\ w \in (1 .. Len(line)) \X (1 .. Len(line))
      /\ w[1] <= w[2] /\ \A i \in w[1] .. w[2] : ~IsSpace(line[i])
      /\ w[1] = 1 \/ IsSpace(line[w[1] - 1])
      /\ w[2] = Len(line) \/ IsSpace(line[w[2] + 1])
  BY <1>1 DEF Words
<1>3. w[1] \in 1 .. Len(line) /\ w[2] \in 1 .. Len(line) /\ w = <<w[1], w[2]>>
  BY <1>2
<1>4. \A i \in w[1] .. w[2] : i \in Dark(line)
  BY <1>1, <1>2, <1>3 DEF Dark
<1>5. QED
  BY <1>1, <1>2, <1>3, <1>4

\* Every character that is no space is in a word.
LEMMA WordAround ==
  ASSUME LineTyped, NEW i \in Dark(line)
  PROVE  \E w \in Words : w[1] <= i /\ i <= w[2]
<1> DEFINE n == Len(line)
           S == {k \in 1 .. i : \A j \in k .. i : ~IsSpace(line[j])}
           T == {k \in i + 1 .. n + 1 : k = n + 1 \/ IsSpace(line[k])}
<1>1. n \in Nat /\ DOMAIN line = 1 .. n /\ i \in 1 .. n /\ ~IsSpace(line[i])
  BY DEF LineTyped, Dark
<1> HIDE DEF n
<1>2. S # {} /\ S \subseteq Nat
  <2>1. i \in S
    <3>1. \A j \in i .. i : j = i
      BY <1>1
    <3>2. i \in 1 .. i
      BY <1>1
    <3>3. QED
      BY <1>1, <3>1, <3>2
  <2>2. QED
    BY <2>1
<1>3. PICK p \in S : \A k \in S : p <= k
  <2> HIDE DEF S
  <2>1. QED
    BY <1>2, LeastMember
<1>4. p \in 1 .. i /\ \A j \in p .. i : ~IsSpace(line[j])
  OBVIOUS
<1>5. p = 1 \/ IsSpace(line[p - 1])
  <2>1. SUFFICES ASSUME p # 1, ~IsSpace(line[p - 1]) PROVE FALSE
    OBVIOUS
  <2>2. p - 1 \in 1 .. i /\ \A j \in p - 1 .. i : j = p - 1 \/ j \in p .. i
    BY <1>1, <1>4, <2>1
  <2>3. \A j \in p - 1 .. i : ~IsSpace(line[j])
    BY <1>4, <2>1, <2>2
  <2>4. p - 1 \in S /\ ~(p <= p - 1)
    BY <1>1, <1>4, <2>2, <2>3
  <2>5. QED
    BY <1>3, <2>4
<1>6. T # {} /\ T \subseteq Nat
  <2>1. n + 1 \in T
    BY <1>1
  <2>2. QED
    BY <1>1, <2>1
<1>7. PICK q \in T : \A k \in T : q <= k
  <2> HIDE DEF T
  <2>1. QED
    BY <1>6, LeastMember
<1>8. q \in i + 1 .. n + 1 /\ (q = n + 1 \/ IsSpace(line[q]))
  OBVIOUS
<1> DEFINE w == <<p, q - 1>>
<1>9. /\ w[1] = p /\ w[2] = q - 1 /\ w \in (1 .. n) \X (1 .. n)
      /\ p <= i /\ i <= q - 1 /\ p <= q - 1 /\ (q - 1) + 1 = q
  BY <1>1, <1>4, <1>8
<1>10. \A j \in p .. q - 1 : ~IsSpace(line[j])
  <2> SUFFICES ASSUME NEW j \in p .. q - 1, IsSpace(line[j])
               PROVE  FALSE
    OBVIOUS
  <2>1. j \in p .. i \/ j \in i + 1 .. q - 1
    BY <1>1, <1>4, <1>8
  <2>2. j \in i + 1 .. q - 1
    BY <1>4, <2>1
  <2>3. j \in T /\ ~(q <= j)
    BY <1>1, <1>8, <2>2
  <2>4. QED
    BY <1>7, <2>3
<1>11. q - 1 = n \/ IsSpace(line[(q - 1) + 1])
  BY <1>1, <1>8
<1> HIDE DEF w
<1>12. w \in Words
  BY <1>1, <1>5, <1>9, <1>10, <1>11 DEF Words, n
<1>13. QED
  BY <1>9, <1>12

\* Two words that share a character are one.
LEMMA WordsDisjoint ==
  ASSUME LineTyped, NEW v \in Words, NEW w \in Words, NEW k \in Int,
         v[1] <= k, k <= v[2], w[1] <= k, k <= w[2]
  PROVE  v = w
<1>1. ASSUME NEW x \in Words, NEW y \in Words, x[1] <= k, k <= x[2], y[1] <= k, k <= y[2]
      PROVE  ~(x[1] < y[1]) /\ ~(y[2] < x[2])
  <2>1. /\ Len(line) \in Nat /\ x[1] \in 1 .. Len(line) /\ x[2] \in 1 .. Len(line)
        /\ \A i \in x[1] .. x[2] : ~IsSpace(line[i])
    BY WordFacts
  <2>2. /\ y[1] \in 1 .. Len(line) /\ y[2] \in 1 .. Len(line)
        /\ y[1] = 1 \/ IsSpace(line[y[1] - 1])
        /\ y[2] = Len(line) \/ IsSpace(line[y[2] + 1])
    BY WordFacts
  <2>3. ASSUME x[1] < y[1] PROVE FALSE
    <3>1. y[1] - 1 \in x[1] .. x[2] /\ y[1] # 1
      BY <1>1, <2>1, <2>2, <2>3
    <3>2. QED
      BY <2>1, <2>2, <3>1
  <2>4. ASSUME y[2] < x[2] PROVE FALSE
    <3>1. y[2] + 1 \in x[1] .. x[2] /\ y[2] # Len(line)
      BY <1>1, <2>1, <2>2, <2>4
    <3>2. QED
      BY <2>1, <2>2, <3>1
  <2>5. QED
    BY <2>3, <2>4
<1>2. ~(v[1] < w[1]) /\ ~(w[2] < v[2]) /\ ~(w[1] < v[1]) /\ ~(v[2] < w[2])
  BY <1>1
<1>3. /\ v[1] \in 1 .. Len(line) /\ v[2] \in 1 .. Len(line) /\ v = <<v[1], v[2]>>
      /\ w[1] \in 1 .. Len(line) /\ w[2] \in 1 .. Len(line) /\ w = <<w[1], w[2]>>
      /\ Len(line) \in Nat
  BY WordFacts
<1>4. v[1] = w[1] /\ v[2] = w[2]
  BY <1>2, <1>3
<1>5. QED
  BY <1>3, <1>4

LEMMA LeftmostIs ==
  ASSUME LineTyped, NEW S, S \subseteq Words, NEW w \in S, \A v \in S : w[1] <= v[1]
  PROVE  Leftmost(S) = w
<1> DEFINE u == Leftmost(S)
<1>1. u \in S /\ \A v \in S : u[1] <= v[1]
  BY Zenon DEF Leftmost
<1> HIDE DEF u
<1>2. /\ u[1] \in 1 .. Len(line) /\ u[2] \in 1 .. Len(line) /\ u[1] <= u[2]
      /\ w[1] \in 1 .. Len(line) /\ w[2] \in 1 .. Len(line) /\ w[1] <= w[2]
      /\ Len(line) \in Nat
  BY <1>1, WordFacts
<1>3. u[1] <= w[1] /\ w[1] <= u[1]
  BY <1>1
<1>4. u[1] = w[1] /\ w[1] \in Int /\ w[1] <= u[2]
  BY <1>2, <1>3
<1>5. u = w
  BY <1>1, <1>2, <1>4, WordsDisjoint
<1>6. QED
  BY <1>5 DEF u

----------------------------------------------------------------------------
(***************************************************************************)
(* What the scan finds: the first word, and the rest of the line from the  *)
(* second word on.                                                         *)
(***************************************************************************)
Trimmed == Trim(line)

Rest == SkipSpace(SubSeq(Trimmed, Len(FirstWord(Trimmed)) + 1, Len(Trimmed)))

Others == Words \ {Leftmost(Words)}

\* The trimmed line is that from a to b, its first word ends at e.
Scanned(a, e, b) ==
  /\ a \in Dark(line) /\ b \in Dark(line) /\ e \in a .. b
  /\ Trimmed = SubSeq(line, a, b) /\ FirstWord(Trimmed) = SubSeq(line, a, e)
  /\ \A i \in Dark(line) : a <= i /\ i <= b
  /\ <<a, e>> \in Words

LEMMA DarkRange ==
  ASSUME NEW C, NEW text \in Seq(C), NEW i
  PROVE  i \in Dark(text) <=> i \in 1 .. Len(text) /\ ~IsSpace(text[i])
BY DEF Dark

LEMMA ScanFirst ==
  ASSUME LineTyped, Dark(line) # {}
  PROVE  \E a, e, b \in Nat : Scanned(a, e, b)
<1> DEFINE n == Len(line)
           t == Trimmed
<1>1. line \in Seq(Alphabet) /\ n \in Nat
  BY DEF LineTyped
<1>2. PICK a \in Dark(line), b \in Dark(line) :
        /\ a <= b /\ t = SubSeq(line, a, b)
        /\ \A i \in 1 .. a - 1 : IsSpace(line[i])
        /\ \A i \in b + 1 .. n : IsSpace(line[i])
  BY <1>1, TrimFacts DEF Trimmed
<1>3. a \in 1 .. n /\ b \in 1 .. n /\ ~IsSpace(line[a])
  BY <1>1, DarkRange
<1>4. /\ t \in Seq(Alphabet) /\ Len(t) = b - a + 1
      /\ \A i \in 1 .. b - a + 1 : t[i] = line[a + i - 1]
  <2>1. a \in Nat /\ b \in Nat /\ 1 <= a /\ a <= b + 1 /\ b <= Len(line)
    BY <1>1, <1>2, <1>3
  <2>2. QED
    BY <1>1, <1>2, <2>1, PieceFacts
<1> HIDE DEF t, n
<1>5. 1 \in Dark(t)
  <2>1. 1 \in 1 .. Len(t) /\ 1 \in 1 .. b - a + 1 /\ a + 1 - 1 = a
    BY <1>1, <1>2, <1>3, <1>4
  <2>2. QED
    BY <1>3, <1>4, <2>1, DarkRange
<1>6. PICK c \in 1 .. Len(t) : /\ FirstWord(t) = SubSeq(t, 1, c)
                               /\ \A i \in 1 .. c : ~IsSpace(t[i])
                               /\ c = Len(t) \/ IsSpace(t[c + 1])
  BY <1>4, <1>5, FirstWordFacts
<1> DEFINE e == a + c - 1
<1>7. /\ e \in a .. b /\ e \in 1 .. n /\ c = e - a + 1 /\ c \in 1 .. b - a + 1
      /\ e # b => c + 1 \in 1 .. b - a + 1 /\ a + (c + 1) - 1 = e + 1 /\ c # Len(t)
      /\ e = b => c = Len(t)
  BY <1>1, <1>2, <1>3, <1>4, <1>6
<1>8. SubSeq(t, 1, c) = SubSeq(line, a, e)
  <2> DEFINE u == SubSeq(t, 1, c)
             w == SubSeq(line, a, e)
  <2>1. u \in Seq(Alphabet) /\ Len(u) = c /\ \A i \in 1 .. c : u[i] = t[i]
    <3>1. c \in Nat /\ 1 \in Nat /\ 1 <= 1 /\ 1 <= c + 1 /\ c <= Len(t)
      BY <1>4, <1>6
    <3>2. /\ u \in Seq(Alphabet) /\ Len(u) = c - 1 + 1
          /\ \A i \in 1 .. c - 1 + 1 : u[i] = t[1 + i - 1]
      BY <1>4, <3>1, PieceFacts
    <3> HIDE DEF u
    <3>3. c - 1 + 1 = c /\ \A i \in 1 .. c : 1 + i - 1 = i
      BY <3>1
    <3>4. QED
      BY <3>2, <3>3
  <2>2. w \in Seq(Alphabet) /\ Len(w) = c /\ \A i \in 1 .. c : w[i] = line[a + i - 1]
    <3>1. a \in Nat /\ e \in Nat /\ 1 <= a /\ a <= e + 1 /\ e <= Len(line)
      BY <1>1, <1>3, <1>7 DEF n
    <3> HIDE DEF e
    <3>2. QED
      BY <1>1, <1>7, <3>1, PieceFacts
  <2>3. \A i \in 1 .. c : i \in 1 .. b - a + 1
    BY <1>1, <1>3, <1>7
  <2>4. \A i \in 1 .. c : u[i] = w[i]
    BY <1>4, <2>1, <2>2, <2>3
  <2> HIDE DEF u, w
  <2>5. u = w
    BY <2>1, <2>2, <2>4, SeqEqual
  <2>6. QED
    BY <2>5 DEF u, w
<1>9. \A i \in a .. e : ~IsSpace(line[i])
  <2> SUFFICES ASSUME NEW i \in a .. e
               PROVE  ~IsSpace(line[i])
    OBVIOUS
  <2>1. i - a + 1 \in 1 .. c /\ i - a + 1 \in 1 .. b - a + 1 /\ a + (i - a + 1) - 1 = i
    BY <1>1, <1>3, <1>7
  <2>2. QED
    BY <1>4, <1>6, <2>1
<1>10. e = n \/ IsSpace(line[e + 1])
  <2>1. CASE e # b
    BY <1>4, <1>6, <1>7, <2>1
  <2>2. CASE e = b /\ b # n
    <3>1. b + 1 \in b + 1 .. n
      BY <1>1, <1>3, <2>2
    <3>2. QED
      BY <1>2, <2>2, <3>1
  <2>3. QED
    BY <2>1, <2>2
<1>11. a = 1 \/ IsSpace(line[a - 1])
  <2>1. a # 1 => a - 1 \in 1 .. a - 1
    BY <1>1, <1>3
  <2>2. QED
    BY <1>2, <2>1
<1>12. \A i \in Dark(line) : a <= i /\ i <= b
  <2> SUFFICES ASSUME NEW i \in Dark(line)
               PROVE  a <= i /\ i <= b
    OBVIOUS
  <2>1. i \in 1 .. n /\ ~IsSpace(line[i])
    BY <1>1, DarkRange DEF n
  <2>2. i \notin 1 .. a - 1 /\ i \notin b + 1 .. n
    BY <1>2, <2>1
  <2>3. QED
    BY <1>1, <1>3, <2>1, <2>2
<1> HIDE DEF e
<1>13. <<a, e>> \in Words
  <2> DEFINE w == <<a, e>>
  <2>1. w[1] = a /\ w[2] = e /\ a <= e /\ w \in (1 .. n) \X (1 .. n)
    BY <1>3, <1>7
  <2> HIDE DEF w
  <2>2. DOMAIN line = 1 .. n
    BY <1>1 DEF n
  <2>3. w \in Words
    BY <1>9, <1>10, <1>11, <2>1, <2>2 DEF Words, n
  <2>4. QED
    BY <2>3 DEF w
<1>14. a \in Nat /\ e \in Nat /\ b \in Nat
  BY <1>3, <1>7
<1>15. Scanned(a, e, b)
  BY <1>2, <1>6, <1>7, <1>8, <1>12, <1>13 DEF Scanned, t
<1>16. QED
  BY <1>14, <1>15

LEMMA FirstIs ==
  ASSUME LineTyped, NEW a \in Nat, NEW e \in Nat, NEW b \in Nat, Scanned(a, e, b)
  PROVE  Words # {} /\ Leftmost(Words) = <<a, e>> /\ Word(Leftmost(Words)) = FirstWord(Trimmed)
<1> DEFINE w == <<a, e>>
<1>1. w \in Words /\ w[1] = a /\ w[2] = e
  BY DEF Scanned
<1> HIDE DEF w
<1>2. ASSUME NEW v \in Words
      PROVE  w[1] <= v[1]
  <2>1. v[1] \in Dark(line)
    BY WordFacts
  <2>2. QED
    BY <1>1, <2>1 DEF Scanned
<1>3. Leftmost(Words) = w
  BY <1>1, <1>2, LeftmostIs
<1>4. Word(w) = FirstWord(Trimmed)
  BY <1>1 DEF Word, Scanned
<1>5. QED
  BY <1>1, <1>3, <1>4 DEF w

\* What follows the first word.
LEMMA ScanRest ==
  ASSUME LineTyped, NEW a \in Nat, NEW e \in Nat, NEW b \in Nat, Scanned(a, e, b)
  PROVE  /\ e = b => Rest = <<>>
         /\ e # b => \E p \in Dark(line) : /\ e < p /\ p <= b /\ Rest = SubSeq(line, p, b)
                                           /\ \A i \in e + 1 .. p - 1 : IsSpace(line[i])
<1> DEFINE n == Len(line)
           t == Trimmed
           c == Len(FirstWord(t))
           u == SubSeq(t, c + 1, Len(t))
<1>1. line \in Seq(Alphabet) /\ n \in Nat
  BY DEF LineTyped
<1>2. /\ a \in 1 .. n /\ b \in 1 .. n /\ ~IsSpace(line[b]) /\ e \in a .. b
      /\ t = SubSeq(line, a, b) /\ FirstWord(t) = SubSeq(line, a, e)
  BY <1>1, DarkRange DEF Scanned
<1>3. /\ t \in Seq(Alphabet) /\ Len(t) = b - a + 1
      /\ \A i \in 1 .. b - a + 1 : t[i] = line[a + i - 1]
  <2>1. 1 <= a /\ a <= b + 1 /\ b <= Len(line)
    BY <1>1, <1>2
  <2>2. QED
    BY <1>1, <1>2, <2>1, PieceFacts
<1>4. c = e - a + 1
  <2>1. 1 <= a /\ a <= e + 1 /\ e <= Len(line)
    BY <1>1, <1>2
  <2>2. QED
    BY <1>1, <1>2, <2>1, PieceFacts
<1>5. /\ u \in Seq(Alphabet) /\ Len(u) = b - e
      /\ \A i \in 1 .. b - e : u[i] = line[e + i]
  <2> HIDE DEF t, c
  <2>1. /\ c + 1 \in Nat /\ Len(t) \in Nat /\ 1 <= c + 1 /\ c + 1 <= Len(t) + 1 /\ Len(t) <= Len(t)
        /\ Len(t) - (c + 1) + 1 = b - e
    BY <1>2, <1>3, <1>4
  <2>2. /\ u \in Seq(Alphabet) /\ Len(u) = Len(t) - (c + 1) + 1
        /\ \A i \in 1 .. Len(t) - (c + 1) + 1 : u[i] = t[(c + 1) + i - 1]
    <3>1. PICK k \in Nat : k = c + 1
      BY <2>1
    <3>2. 1 <= k /\ k <= Len(t) + 1
      BY <2>1, <3>1
    <3>3. /\ SubSeq(t, k, Len(t)) \in Seq(Alphabet) /\ Len(SubSeq(t, k, Len(t))) = Len(t) - k + 1
          /\ \A i \in 1 .. Len(t) - k + 1 : SubSeq(t, k, Len(t))[i] = t[k + i - 1]
      BY <1>3, <2>1, <3>2, PieceFacts
    <3>4. QED
      BY <3>1, <3>3
  <2> HIDE DEF u
  <2>3. ASSUME NEW i \in 1 .. b - e
        PROVE  u[i] = line[e + i]
    <3>1. (c + 1) + i - 1 \in 1 .. b - a + 1 /\ a + ((c + 1) + i - 1) - 1 = e + i
          /\ i \in 1 .. Len(t) - (c + 1) + 1
      BY <1>2, <1>3, <1>4, <2>1
    <3>2. u[i] = t[(c + 1) + i - 1]
      BY <2>2, <3>1
    <3>3. t[(c + 1) + i - 1] = line[a + ((c + 1) + i - 1) - 1]
      BY <1>3, <3>1
    <3>4. QED
      BY <3>1, <3>2, <3>3
  <2>4. QED
    BY <2>1, <2>2, <2>3
<1>6. Rest = SkipSpace(u)
  BY DEF Rest
<1> HIDE DEF t, c, u, n
<1>7. ASSUME e = b
      PROVE  Rest = <<>>
  <2>1. Dark(u) = {}
    <3>1. \A i : i \notin 1 .. Len(u)
      BY <1>5, <1>7
    <3>2. QED
      BY <1>5, <3>1, DarkRange
  <2>2. QED
    BY <1>5, <1>6, <2>1, SkipFacts
<1>8. ASSUME e # b
      PROVE  \E p \in Dark(line) : /\ e < p /\ p <= b /\ Rest = SubSeq(line, p, b)
                                   /\ \A i \in e + 1 .. p - 1 : IsSpace(line[i])
  <2>1. Dark(u) # {}
    <3>1. b - e \in 1 .. b - e /\ e + (b - e) = b
      BY <1>2, <1>8
    <3>2. b - e \in 1 .. Len(u) /\ ~IsSpace(u[b - e])
      BY <1>2, <1>5, <3>1
    <3>3. b - e \in Dark(u)
      BY <1>5, <3>2, DarkRange
    <3>4. QED
      BY <3>3
  <2>2. PICK m \in Dark(u) : /\ \A i \in 1 .. m - 1 : IsSpace(u[i])
                             /\ SkipSpace(u) = SubSeq(u, m, Len(u))
    BY <1>5, <2>1, SkipFacts
  <2>3. m \in 1 .. b - e /\ ~IsSpace(u[m])
    BY <1>5, DarkRange
  <2> DEFINE p == e + m
             r == SubSeq(u, m, Len(u))
             s == SubSeq(line, p, b)
  <2>4. p \in 1 .. n /\ e < p /\ p <= b /\ ~IsSpace(line[p])
    BY <1>1, <1>2, <1>5, <2>3
  <2>5. p \in Dark(line)
    <3> HIDE DEF p
    <3>1. QED
      BY <1>1, <2>4, DarkRange DEF n
  <2>6. /\ r \in Seq(Alphabet) /\ Len(r) = b - e - m + 1
        /\ \A i \in 1 .. b - e - m + 1 : r[i] = u[m + i - 1]
    <3>1. m \in Nat /\ Len(u) \in Nat /\ 1 <= m /\ m <= Len(u) + 1 /\ Len(u) <= Len(u)
          /\ Len(u) - m + 1 = b - e - m + 1
      BY <1>2, <1>5, <2>3
    <3>2. /\ r \in Seq(Alphabet) /\ Len(r) = Len(u) - m + 1
          /\ \A i \in 1 .. Len(u) - m + 1 : r[i] = u[m + i - 1]
      BY <1>5, <3>1, PieceFacts
    <3> HIDE DEF r
    <3>3. QED
      BY <3>1, <3>2
  <2>7. /\ s \in Seq(Alphabet) /\ Len(s) = b - p + 1
        /\ \A i \in 1 .. b - p + 1 : s[i] = line[p + i - 1]
    <3>1. p \in Nat /\ 1 <= p /\ p <= b + 1 /\ b <= Len(line)
      BY <1>1, <1>2, <2>4 DEF n
    <3> HIDE DEF p
    <3>2. QED
      BY <1>1, <3>1, PieceFacts
  <2> HIDE DEF r, s
  <2>8. b - e - m + 1 = b - p + 1 /\ b - p + 1 \in Nat
    BY <1>2, <2>3
  <2>9. ASSUME NEW i \in 1 .. b - p + 1
        PROVE  r[i] = s[i]
    <3>1. m + i - 1 \in 1 .. b - e /\ e + (m + i - 1) = p + i - 1 /\ i \in 1 .. b - e - m + 1
      BY <1>2, <2>3, <2>8
    <3>2. r[i] = u[m + i - 1] /\ u[m + i - 1] = line[e + (m + i - 1)]
      BY <1>5, <2>6, <3>1
    <3>3. QED
      BY <2>7, <3>1, <3>2
  <2>10. r = s
    BY <2>6, <2>7, <2>8, <2>9, SeqEqual
  <2>11. Rest = SubSeq(line, p, b)
    BY <1>6, <2>2, <2>10 DEF r, s
  <2>12. ASSUME NEW i \in e + 1 .. p - 1
         PROVE  IsSpace(line[i])
    <3>1. i - e \in 1 .. m - 1 /\ i - e \in 1 .. b - e /\ e + (i - e) = i
      BY <1>2, <2>3
    <3>2. u[i - e] = line[i] /\ IsSpace(u[i - e])
      BY <1>5, <2>2, <3>1
    <3>3. QED
      BY <3>2
  <2>13. e < p /\ p <= b
    BY <2>4
  <2> HIDE DEF p
  <2>14. QED
    BY <2>5, <2>11, <2>12, <2>13
<1>9. QED
  BY <1>7, <1>8

\* The other words: none, one that is all of the rest, or several, and then
\* there is a space in the rest.
LEMMA ScanOthers ==
  ASSUME LineTyped, NEW a \in Nat, NEW e \in Nat, NEW b \in Nat, Scanned(a, e, b)
  PROVE  /\ e = b => Others = {}
         /\ e # b => /\ Others # {} /\ Rest # <<>> /\ Rest \in Seq(Alphabet)
                     /\ Others = {Leftmost(Others)} => Rest = Word(Leftmost(Others))
                     /\ Others # {Leftmost(Others)} =>
                          \E i \in 1 .. Len(Rest) : IsSpace(Rest[i])
<1> DEFINE n == Len(line)
           f == <<a, e>>
<1>1. line \in Seq(Alphabet) /\ n \in Nat
  BY DEF LineTyped
<1>2. /\ a \in 1 .. n /\ b \in 1 .. n /\ b \in Dark(line) /\ e \in a .. b
      /\ f \in Words /\ f[1] = a /\ f[2] = e
      /\ \A i \in Dark(line) : a <= i /\ i <= b
  BY <1>1, DarkRange DEF Scanned
<1>3. Others = Words \ {f}
  BY FirstIs DEF Others
<1> HIDE DEF f, n
<1>4. ASSUME NEW v \in Others
      PROVE  /\ v \in Words /\ v[1] \in Dark(line) /\ v[1] \in 1 .. n /\ v[2] \in v[1] .. b
             /\ e < v[1]
  <2>1. /\ v \in Words /\ v[1] \in 1 .. n /\ v[2] \in 1 .. n /\ v[1] <= v[2]
        /\ v[1] \in Dark(line) /\ v[2] \in Dark(line)
    <3>1. v \in Words
      BY <1>3
    <3>2. QED
      BY <1>1, <3>1, WordFacts DEF n
  <2>2. a <= v[1] /\ v[2] <= b
    BY <1>2, <2>1
  <2>3. ~(v[1] <= e)
    <3>1. SUFFICES ASSUME v[1] <= e PROVE FALSE
      OBVIOUS
    <3>2. v[1] \in Int /\ v[1] <= v[1] /\ v[1] <= v[2] /\ f[1] <= v[1] /\ v[1] <= f[2]
      BY <1>2, <2>1, <2>2, <3>1
    <3>3. v = f
      BY <1>2, <2>1, <3>2, WordsDisjoint
    <3>4. QED
      BY <1>3, <3>3
  <2>4. QED
    BY <1>2, <2>1, <2>2, <2>3
<1>5. ASSUME e = b
      PROVE  Others = {}
  <2>1. ASSUME NEW v \in Others PROVE FALSE
    BY <1>1, <1>2, <1>4, <1>5
  <2>2. QED
    BY <2>1
<1>6. ASSUME e # b
      PROVE  /\ Others # {} /\ Rest # <<>> /\ Rest \in Seq(Alphabet)
             /\ Others = {Leftmost(Others)} => Rest = Word(Leftmost(Others))
             /\ Others # {Leftmost(Others)} => \E i \in 1 .. Len(Rest) : IsSpace(Rest[i])
  <2>1. PICK p \in Dark(line) : /\ e < p /\ p <= b /\ Rest = SubSeq(line, p, b)
                                /\ \A i \in e + 1 .. p - 1 : IsSpace(line[i])
    BY <1>6, ScanRest
  <2>2. p \in 1 .. n /\ ~IsSpace(line[p])
    BY <1>1, DarkRange DEF n
  <2>3. /\ Rest \in Seq(Alphabet) /\ Len(Rest) = b - p + 1
        /\ \A i \in 1 .. b - p + 1 : Rest[i] = line[p + i - 1]
    <3>1. p \in Nat /\ 1 <= p /\ p <= b + 1 /\ b <= Len(line)
      BY <1>1, <1>2, <2>1, <2>2 DEF n
    <3>2. QED
      BY <1>1, <2>1, <3>1, PieceFacts
  <2>4. Rest # <<>>
    <3>1. Len(Rest) # 0
      BY <1>1, <1>2, <2>1, <2>2, <2>3
    <3>2. QED
      BY <3>1
  <2>5. ASSUME NEW v \in Others
        PROVE  p <= v[1]
    <3>1. v[1] \notin e + 1 .. p - 1
      <4>1. ~IsSpace(line[v[1]])
        BY <1>1, <1>4, DarkRange
      <4>2. QED
        BY <2>1, <4>1
    <3>2. QED
      BY <1>1, <1>4, <2>2, <3>1
  <2>6. PICK v \in Words : v[1] <= p /\ p <= v[2]
    BY WordAround
  <2>7. /\ v[1] \in 1 .. n /\ v[2] \in 1 .. n /\ v = <<v[1], v[2]>> /\ v[1] <= v[2]
        /\ v[2] \in Dark(line) /\ (v[2] = n \/ IsSpace(line[v[2] + 1]))
    BY <1>1, WordFacts DEF n
  <2>8. v # f
    BY <1>1, <1>2, <2>1, <2>2, <2>6
  <2>9. v \in Others /\ v[1] = p /\ v[2] <= b
    <3>1. v \in Others
      BY <1>3, <2>8
    <3>2. p <= v[1]
      BY <2>5, <3>1
    <3>3. QED
      BY <1>1, <1>2, <2>2, <2>6, <2>7, <3>1, <3>2
  <2>10. Leftmost(Others) = v
    <3>1. Others \subseteq Words
      BY <1>3
    <3>2. \A x \in Others : v[1] <= x[1]
      BY <2>5, <2>9
    <3>3. QED
      BY <2>9, <3>1, <3>2, LeftmostIs
  <2>11. ASSUME Others = {v}
         PROVE  Rest = Word(v)
    <3>1. PICK x \in Words : x[1] <= b /\ b <= x[2]
      BY <1>2, WordAround
    <3>2. x # f
      BY <1>1, <1>2, <1>6, <3>1
    <3>3. x = v
      BY <1>3, <2>11, <3>2
    <3>4. v[2] = b
      BY <1>1, <1>2, <2>7, <2>9, <3>1, <3>3
    <3>5. QED
      BY <2>1, <2>9, <3>4 DEF Word
  <2>12. ASSUME Others # {v}
         PROVE  \E i \in 1 .. Len(Rest) : IsSpace(Rest[i])
    <3>1. PICK x \in Others : x # v
      BY <2>9, <2>12
    <3>2. /\ x \in Words /\ x[1] \in 1 .. n /\ x[2] \in x[1] .. b /\ p <= x[1]
      BY <1>4, <2>5
    <3>3. ~(x[1] <= v[2])
      <4>1. SUFFICES ASSUME x[1] <= v[2] PROVE FALSE
        OBVIOUS
      <4>2. x[1] \in Int /\ x[1] <= x[1] /\ x[1] <= x[2] /\ v[1] <= x[1]
        BY <1>1, <1>2, <2>9, <3>2
      <4>3. x = v
        BY <3>2, <4>1, <4>2, WordsDisjoint
      <4>4. QED
        BY <3>1, <4>3
    <3> DEFINE i == v[2] + 1 - p + 1
    <3>4. v[2] # n /\ i \in 1 .. b - p + 1 /\ p + i - 1 = v[2] + 1
      BY <1>1, <1>2, <2>2, <2>7, <2>9, <3>2, <3>3
    <3> HIDE DEF i
    <3>5. IsSpace(Rest[i])
      BY <2>3, <2>7, <3>4
    <3>6. QED
      BY <2>3, <3>4, <3>5
  <2>13. QED
    BY <2>3, <2>4, <2>9, <2>10, <2>11, <2>12
<1>7. QED
  BY <1>5, <1>6

LEMMA FirstWordOfNone == Len(FirstWord(<<>>)) = 0
<1> DEFINE E == {i \in DOMAIN <<>> : IsSpace(<<>>[i])} \cup {Len(<<>>) + 1}
<1>1. E = {1}
  OBVIOUS
<1>2. FirstWord(<<>>) = SubSeq(<<>>, 1, Min(E) - 1)
  BY Zenon DEF FirstWord
<1> HIDE DEF E
<1>3. Min(E) = 1
  BY <1>1 DEF Min
<1>4. FirstWord(<<>>) = SubSeq(<<>>, 1, 0)
  BY <1>2, <1>3
<1>5. QED
  BY <1>4

LEMMA SpaceIsNoDigit ==
  ASSUME NEW char, IsSpace(char)
  PROVE  ~IsDigit(char) /\ char # "-" /\ char # "+"
<1>1. ASSUME IsDigit(char) PROVE FALSE
  <2>1. PICK i \in DOMAIN DigitChars : DigitChars[i] = char
    BY <1>1 DEF IsDigit
  <2>2. i - 1 \in 0 .. 9 /\ (i - 1) + 1 = i
    <3>1. DOMAIN DigitChars = 1 .. 10
      BY DEF DigitChars
    <3>2. QED
      BY <3>1
  <2>3. DigitChars[(i - 1) + 1] # " "
    BY <2>2, DigitFacts, Zenon
  <2>4. char # " "
    BY <2>1, <2>2, <2>3, Zenon
  <2>5. QED
    BY <2>4, Zenon DEF IsSpace
<1>2. char # "-" /\ char # "+"
  BY Zenon DEF IsSpace
<1>3. QED
  BY <1>1, <1>2

LEMMA SpacedIsNoNumeral ==
  ASSUME NEW C, NEW text \in Seq(C), NEW i \in 1 .. Len(text), IsSpace(text[i])
  PROVE  ~IsNumeral(text)
<1> DEFINE d == Digits(text)
<1>1. text # <<>> /\ DOMAIN text = 1 .. Len(text) /\ Len(text) \in Nat
  OBVIOUS
<1>2. ~IsDigit(text[i]) /\ text[i] # "-" /\ text[i] # "+"
  BY SpaceIsNoDigit
<1>3. CASE text[1] \in {"-", "+"}
  <2>1. d = Tail(text) /\ i # 1
    BY <1>2, <1>3 DEF Digits
  <2>2. i - 1 \in DOMAIN Tail(text) /\ Tail(text)[i - 1] = text[i]
    BY <1>1, <2>1
  <2>3. QED
    BY <1>2, <2>1, <2>2 DEF IsNumeral
<1>4. CASE text[1] \notin {"-", "+"}
  <2>1. d = text
    BY <1>4 DEF Digits
  <2>2. QED
    BY <1>1, <1>2, <2>1 DEF IsNumeral
<1>5. QED
  BY <1>3, <1>4

LEMMA ParserMeans ==
  ASSUME LineTyped
  PROVE  ParserIsExact
<1> DEFINE word == FirstWord(Trimmed)
           arg == Argument(Rest)
           first == Leftmost(Words)
           second == Word(Leftmost(Others))
           argument == /\ Others # {} /\ Others = {Leftmost(Others)}
                       /\ IsNumeral(second) /\ InRange(NumeralValue(second))
<1>1. command_parse(line) =
        CASE Full(line)  -> Refused("TOO_LONG")
          [] ~Full(line) /\ Trimmed = <<>> -> Refused("EMPTY")
          [] ~Full(line) /\ word = <<"N">> ->
               IF Rest = <<>> THEN [result |-> "OK", verb |-> "N", value |-> 0]
                              ELSE Refused("ARGUMENT")
          [] ~Full(line) /\ word = <<"V">> ->
               IF arg.ok THEN [result |-> "OK", verb |-> "V", value |-> arg.value]
                         ELSE Refused("ARGUMENT")
          [] OTHER -> Refused("UNKNOWN")
  BY Zenon DEF command_parse, Trimmed, Rest
<1>2. Meaning =
        IF Len(line) >= CommandCapacity THEN Refused("TOO_LONG")
        ELSE IF Words = {} THEN Refused("EMPTY")
        ELSE IF Word(first) \notin {<<"V">>, <<"N">>} THEN Refused("UNKNOWN")
        ELSE IF Word(first) = <<"N">> /\ Others = {}
             THEN [result |-> "OK", verb |-> "N", value |-> 0]
        ELSE IF Word(first) = <<"V">> /\ argument
             THEN [result |-> "OK", verb |-> "V", value |-> NumeralValue(second)]
        ELSE Refused("ARGUMENT")
  BY Zenon DEF Meaning, Others
<1>3. Full(line) <=> Len(line) >= CommandCapacity
  BY DEF Full
<1>4. line \in Seq(Alphabet) /\ <<"N">> # <<"V">>
  <2>1. line \in Seq(Alphabet)
    BY DEF LineTyped
  <2>2. <<"N">>[1] # <<"V">>[1]
    OBVIOUS
  <2>3. QED
    BY <2>1, <2>2
<1>5. CASE Full(line)
  <2>1. command_parse(line) = Refused("TOO_LONG")
    BY <1>1, <1>5
  <2>2. Meaning = Refused("TOO_LONG")
    BY <1>2, <1>3, <1>5
  <2>3. QED
    BY <2>1, <2>2 DEF ParserIsExact
<1>6. CASE ~Full(line) /\ Dark(line) = {}
  <2>1. Trimmed = <<>>
    BY <1>4, <1>6, TrimFacts DEF Trimmed
  <2>2. ASSUME NEW w \in Words PROVE FALSE
    <3>1. w[1] \in Dark(line)
      BY WordFacts
    <3>2. QED
      BY <1>6, <3>1
  <2>6. word # <<"N">> /\ word # <<"V">>
    <3>1. Len(word) = 0
      BY <2>1, FirstWordOfNone
    <3>2. Len(<<"N">>) = 1 /\ Len(<<"V">>) = 1
      OBVIOUS
    <3>3. QED
      BY <3>1, <3>2
  <2> HIDE DEF word, arg, first, second, argument
  <2>3. command_parse(line) = Refused("EMPTY")
    BY <1>1, <1>6, <2>1, <2>6
  <2>4. Words = {}
    BY <2>2
  <2>5. Meaning = Refused("EMPTY")
    BY <1>2, <1>3, <1>6, <2>4
  <2>7. QED
    BY <2>3, <2>5 DEF ParserIsExact
<1>7. CASE ~Full(line) /\ Dark(line) # {}
  <2>1. PICK a \in Nat, e \in Nat, b \in Nat : Scanned(a, e, b)
    BY <1>7, ScanFirst
  <2>2. Words # {} /\ Word(first) = word
    BY <2>1, FirstIs
  <2>3. Trimmed # <<>>
    <3>1. a \in 1 .. Len(line) /\ b \in 1 .. Len(line) /\ a <= b /\ Trimmed = SubSeq(line, a, b)
      <4>1. a \in Dark(line) /\ b \in Dark(line) /\ a <= b /\ Trimmed = SubSeq(line, a, b)
        BY <2>1 DEF Scanned
      <4>2. QED
        BY <1>4, <4>1, DarkRange
    <3>2. Len(Trimmed) = b - a + 1
      <4>1. Len(line) \in Nat /\ 1 <= a /\ a <= b + 1 /\ b <= Len(line)
        BY <1>4, <3>1
      <4>2. QED
        BY <1>4, <3>1, <4>1, PieceFacts
    <3>3. Len(Trimmed) # 0
      BY <3>1, <3>2
    <3>4. QED
      BY <3>3
  <2>4. Rest = <<>> <=> Others = {}
    <3>1. CASE e = b
      BY <2>1, <3>1, ScanRest, ScanOthers
    <3>2. CASE e # b
      BY <2>1, <3>2, ScanOthers
    <3>3. QED
      BY <3>1, <3>2
  <2>5. /\ argument => arg = [ok |-> TRUE, value |-> NumeralValue(second)]
        /\ ~argument => arg = NoNumber
    <3>1. CASE Others = {}
      <4>1. Rest = <<>> /\ <<>> \in Seq(Alphabet) /\ ~argument
        BY <2>4, <3>1
      <4>2. arg = NoNumber
        BY <4>1, ArgumentIsNumeral
      <4>3. QED
        BY <4>1, <4>2
    <3>2. CASE Others # {}
      <4>1. e # b
        BY <2>1, <3>2, ScanOthers
      <4>2. /\ Rest # <<>> /\ Rest \in Seq(Alphabet)
            /\ Others = {Leftmost(Others)} => Rest = second
            /\ Others # {Leftmost(Others)} => \E i \in 1 .. Len(Rest) : IsSpace(Rest[i])
        BY <2>1, <4>1, ScanOthers
      <4>3. arg = IF Rest # <<>> /\ IsNumeral(Rest) /\ InRange(NumeralValue(Rest))
                  THEN [ok |-> TRUE, value |-> NumeralValue(Rest)] ELSE NoNumber
        BY <4>2, ArgumentIsNumeral
      <4> HIDE DEF arg, second
      <4>4. CASE Others = {Leftmost(Others)}
        <5>1. Rest = second
          BY <4>2, <4>4
        <5>2. argument <=> IsNumeral(second) /\ InRange(NumeralValue(second))
          BY <3>2, <4>4
        <5>3. arg = IF IsNumeral(second) /\ InRange(NumeralValue(second))
                    THEN [ok |-> TRUE, value |-> NumeralValue(second)] ELSE NoNumber
          BY <4>2, <4>3, <5>1
        <5> HIDE DEF argument
        <5>4. QED
          BY <5>2, <5>3
      <4>5. CASE Others # {Leftmost(Others)}
        <5>1. ~IsNumeral(Rest)
          BY <4>2, <4>5, SpacedIsNoNumeral
        <5>2. arg = NoNumber /\ ~argument
          BY <4>3, <4>5, <5>1
        <5> HIDE DEF argument
        <5>3. QED
          BY <5>2
      <4>6. QED
        BY <4>4, <4>5
    <3>3. QED
      BY <3>1, <3>2
  <2> HIDE DEF arg, argument, second, word, first
  <2>6. CASE word = <<"N">>
    <3>1. word # <<"V">> /\ Word(first) \in {<<"V">>, <<"N">>} /\ Word(first) = <<"N">>
      BY <1>4, <2>2, <2>6
    <3>2. CASE Others = {}
      <4>1. command_parse(line) = [result |-> "OK", verb |-> "N", value |-> 0]
        BY <1>1, <1>7, <2>3, <2>4, <2>6, <3>1, <3>2
      <4>2. Meaning = [result |-> "OK", verb |-> "N", value |-> 0]
        BY <1>2, <1>3, <1>7, <2>2, <3>1, <3>2
      <4>3. QED
        BY <4>1, <4>2 DEF ParserIsExact
    <3>3. CASE Others # {}
      <4>1. command_parse(line) = Refused("ARGUMENT")
        BY <1>1, <1>7, <2>3, <2>4, <2>6, <3>1, <3>3
      <4>2. Meaning = Refused("ARGUMENT")
        BY <1>2, <1>3, <1>4, <1>7, <2>2, <3>1, <3>3
      <4>3. QED
        BY <4>1, <4>2 DEF ParserIsExact
    <3>4. QED
      BY <3>2, <3>3
  <2>7. CASE word = <<"V">>
    <3>1. word # <<"N">> /\ Word(first) \in {<<"V">>, <<"N">>} /\ Word(first) = <<"V">>
          /\ Word(first) # <<"N">>
      BY <1>4, <2>2, <2>7
    <3>2. CASE argument
      <4>1. arg.ok = TRUE /\ arg.value = NumeralValue(second)
        BY <2>5, <3>2
      <4>2. command_parse(line) = [result |-> "OK", verb |-> "V", value |-> NumeralValue(second)]
        BY <1>1, <1>7, <2>3, <2>7, <3>1, <4>1
      <4>3. Meaning = [result |-> "OK", verb |-> "V", value |-> NumeralValue(second)]
        BY <1>2, <1>3, <1>7, <2>2, <3>1, <3>2
      <4>4. QED
        BY <4>2, <4>3 DEF ParserIsExact
    <3>3. CASE ~argument
      <4>1. arg.ok = FALSE
        BY <2>5, <3>3 DEF NoNumber
      <4>2. command_parse(line) = Refused("ARGUMENT")
        BY <1>1, <1>7, <2>3, <2>7, <3>1, <4>1
      <4>3. Meaning = Refused("ARGUMENT")
        BY <1>2, <1>3, <1>7, <2>2, <3>1, <3>3
      <4>4. QED
        BY <4>2, <4>3 DEF ParserIsExact
    <3>4. QED
      BY <3>2, <3>3
  <2>8. CASE word # <<"N">> /\ word # <<"V">>
    <3>1. command_parse(line) = Refused("UNKNOWN")
      BY <1>1, <1>7, <2>3, <2>8
    <3>2. Meaning = Refused("UNKNOWN")
      BY <1>2, <1>3, <1>7, <2>2, <2>8
    <3>3. QED
      BY <3>1, <3>2 DEF ParserIsExact
  <2>9. QED
    BY <2>6, <2>7, <2>8
<1>8. QED
  BY <1>5, <1>6, <1>7

\* protocol.md:3-6 and 55-58.  Whatever line arrives, of whatever length and
\* for every width of an integer, command_parse makes of it what its words and
\* its numeral mean.
THEOREM ParserStaysExact == LineSpec => []ParserIsExact
<1>1. LineTyped => ParserIsExact
  BY ParserMeans
<1>2. QED
  BY <1>1, LinesStayTyped, PTL
=============================================================================
