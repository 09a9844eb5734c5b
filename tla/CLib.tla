------------------------------- MODULE CLib -------------------------------
(***************************************************************************)
(* The C library functions libdfl's parsers rely on, over texts that are  *)
(* sequences of one-character strings: isspace, strtoul/strtoull as glibc *)
(* implements them (white space, base detection, longest digit run), and  *)
(* the "%x" / "%u" conversions of printf.  Signs are not modelled.        *)
(***************************************************************************)
EXTENDS Naturals, Sequences, SequencesExt

IsSpace(c) == c \in {" ", "\t", "\n", "\f", "\r"}

LowerHex == <<"0", "1", "2", "3", "4", "5", "6", "7", "8", "9", "a", "b", "c", "d", "e", "f">>
UpperHex == <<"0", "1", "2", "3", "4", "5", "6", "7", "8", "9", "A", "B", "C", "D", "E", "F">>

\* The value of c as a digit of base 16, or 16 when it is none.
DigitValue(c) ==
  LET lo == SelectInSeq(LowerHex, LAMBDA d : d = c)
      up == SelectInSeq(UpperHex, LAMBDA d : d = c)
  IN IF lo > 0 THEN lo - 1 ELSE IF up > 0 THEN up - 1 ELSE 16

\* The character at k, "NUL" at and past the terminator.
CharAt(s, k) == IF k \in 1..Len(s) THEN s[k] ELSE "NUL"

RECURSIVE SkipSpace(_, _)
SkipSpace(s, i) == IF IsSpace(CharAt(s, i)) THEN SkipSpace(s, i + 1) ELSE i

\* The number of base-b digits from position i on.
RECURSIVE DigitRun(_, _, _)
DigitRun(s, i, b) == IF DigitValue(CharAt(s, i)) < b THEN 1 + DigitRun(s, i + 1, b) ELSE 0

\* The value of the n base-b digits from position i.
DigitsValue(s, i, n, b) ==
  FoldLeft(LAMBDA acc, c : acc * b + DigitValue(c), 0, SubSeq(s, i, i + n - 1))

\* strtoul(s + p - 1, &end, b) for b in {0, 10, 16}: white space, then with
\* b = 0 "0x" before a hex digit selects 16, a leading "0" selects 8 and
\* anything else 10; with b = 16 a "0x" prefix is skipped.  end is the
\* position of the last character consumed, p - 1 when no digit converts
\* (endptr == nptr).
StrtoulAt(s, p, b) ==
  LET i      == SkipSpace(s, p)
      prefix == CharAt(s, i) = "0" /\ CharAt(s, i + 1) \in {"x", "X"}
                /\ DigitValue(CharAt(s, i + 2)) < 16
      base   == IF b # 0 THEN b
                ELSE IF prefix THEN 16 ELSE IF CharAt(s, i) = "0" THEN 8 ELSE 10
      start  == IF base = 16 /\ prefix THEN i + 2 ELSE i
      n      == DigitRun(s, start, base)
  IN IF n = 0 THEN [val |-> 0, end |-> p - 1]
     ELSE [val |-> DigitsValue(s, start, n, base), end |-> start + n - 1]

\* strtoull(s, &end, 0); end counts the characters consumed.
strtoull(s) == StrtoulAt(s, 1, 0)

\* "%x": lower-case hex without leading zeros.
RECURSIVE Hex(_)
Hex(v) == IF v < 16 THEN <<LowerHex[v + 1]>> ELSE Hex(v \div 16) \o <<LowerHex[(v % 16) + 1]>>

\* "%0wx": hex padded with zeros to at least w characters.
HexPad(v, w) ==
  IF Len(Hex(v)) >= w THEN Hex(v) ELSE [i \in 1..(w - Len(Hex(v))) |-> "0"] \o Hex(v)

\* "%u"
RECURSIVE Dec(_)
Dec(v) == IF v < 10 THEN <<LowerHex[v + 1]>> ELSE Dec(v \div 10) \o <<LowerHex[(v % 10) + 1]>>

====
