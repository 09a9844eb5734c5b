----------------------------- MODULE DflGuid ------------------------------
(***************************************************************************)
(* dfl_parse_guid of libdfl (src/libdfl/opae_dfl.c), which reads a GUID  *)
(* text with sscanf("%02hhx") byte by byte into the caller's buffer.      *)
(* A GUID has GuidBytes bytes (16 in the code; fewer suffice to reach     *)
(* every path of the loop, which treats each byte alike).                 *)
(***************************************************************************)
EXTENDS Integers, Sequences, SequencesExt, CLib

CONSTANTS
  GuidBytes,  \* DFL_PARSE_GUID_SUCCESS, the bytes of an fpga_guid
  Chars,      \* characters of attribute texts
  MaxLen      \* longest GUID text

\* sscanf's sign and 0x-prefix handling are not modelled: texts carry none.
ASSUME Chars \cap {"+", "-", "x", "X"} = {}

\* Markers outside the values they stand beside: a byte of the buffer no
\* parse wrote, and the result of a call that read past its terminator.
Junk == 256
Overread == -99

Texts == BoundedSeq(Chars, MaxLen)

VARIABLES
  text,  \* the GUID text last parsed
  guid,  \* the caller's fpga_guid buffer
  res    \* dfl_parse_guid's return value

vars == <<text, guid, res>>

-----------------------------------------------------------------------------
(* sscanf *)

\* sscanf(s + p - 1, "%02hhx", &b): white space is skipped, the end of the
\* string before a conversion is EOF (-1), then at most two hex digits.
\* ret is 1 with the byte, 0 when no digit is there.
Sscanf02hhx(s, p) ==
  LET i  == SkipSpace(s, p)
      d1 == DigitValue(CharAt(s, i))
      d2 == DigitValue(CharAt(s, i + 1))
  IN IF i > Len(s) THEN [ret |-> -1, val |-> 0]
     ELSE IF d1 = 16 THEN [ret |-> 0, val |-> 0]
     ELSE IF d2 = 16 THEN [ret |-> 1, val |-> d1]
     ELSE [ret |-> 1, val |-> 16 * d1 + d2]

-----------------------------------------------------------------------------
(* dfl_parse_guid *)

\* Mutant: the loop bound is i <= 16, one byte past the buffer; the call
\* then returns 17.
RECURSIVE ParseGuidOffByOne(_, _, _)
ParseGuidOffByOne(s, i, buf) ==
  IF i = GuidBytes + 1 THEN [res |-> i, guid |-> buf]
  ELSE IF 2 * i + 1 > Len(s) + 1 THEN [res |-> Overread, guid |-> buf]
  ELSE LET r == Sscanf02hhx(s, 2 * i + 1)
       IN IF r.ret = 0 THEN [res |-> 0, guid |-> buf]
          ELSE ParseGuidOffByOne(s, i + 1,
                                 IF r.ret = 1 /\ i < GuidBytes THEN [buf EXCEPT ![i + 1] = r.val] ELSE buf)

\* Mutant: the pointer advances one character per byte.
RECURSIVE ParseGuidStep1(_, _, _)
ParseGuidStep1(s, i, buf) ==
  IF i = GuidBytes THEN [res |-> GuidBytes, guid |-> buf]
  ELSE IF i + 1 > Len(s) + 1 THEN [res |-> Overread, guid |-> buf]
  ELSE LET r == Sscanf02hhx(s, i + 1)
       IN IF r.ret = 0 THEN [res |-> 0, guid |-> buf]
          ELSE ParseGuidStep1(s, i + 1,
                              IF r.ret = 1 THEN [buf EXCEPT ![i + 1] = r.val] ELSE buf)

\* The loop of dfl_parse_guid from byte i on, ptr at character 2i+1.  Only
\* a return of 0 stops it: EOF (-1) is non-zero and the loop goes on, its
\* byte unwritten, with ptr past the terminator on the next turn.
RECURSIVE ParseGuidFrom(_, _, _)
ParseGuidFrom(s, i, buf) ==
  IF i = GuidBytes THEN [res |-> GuidBytes, guid |-> buf]
  ELSE IF 2 * i + 1 > Len(s) + 1 THEN [res |-> Overread, guid |-> buf]
  ELSE LET r == Sscanf02hhx(s, 2 * i + 1)
       IN IF r.ret = 0 THEN [res |-> 0, guid |-> buf]
          ELSE ParseGuidFrom(s, i + 1,
                             IF r.ret = 1 THEN [buf EXCEPT ![i + 1] = r.val] ELSE buf)

dfl_parse_guid(s, buf) == ParseGuidFrom(s, 0, buf)

-----------------------------------------------------------------------------
(* The calls *)

Init ==
  /\ text = <<>>
  /\ guid = [i \in 1..GuidBytes |-> Junk]
  /\ res = 0

\* dfl_parse_guid on a compat_id or afu_id text, into the buffer the
\* caller passes again and again.
ParseGuid ==
  \E s \in Texts :
    LET r == dfl_parse_guid(s, guid)
    IN /\ text' = s
       /\ guid' = r.guid
       /\ res' = r.res

Next == ParseGuid

Spec == Init /\ [][Next]_vars

-----------------------------------------------------------------------------
(* Properties *)

\* The call's result is an int of 0..16 (a count of bytes, whatever the
\* code makes of it) or the marker of a read past the terminator, and the
\* buffer holds 16 bytes.
TypeOK ==
  /\ text \in Texts
  /\ guid \in [1..GuidBytes -> 0..Junk]
  /\ res \in (0..GuidBytes) \cup {Overread}

\* The spec's GUID: hex digit pairs, most significant first, from a text
\* that begins with 2 * GuidBytes hex digits.
IsGuidText(s) == Len(s) >= 2 * GuidBytes /\ \A k \in 1..(2 * GuidBytes) : DigitValue(s[k]) < 16
SpecGuid(s) == [i \in 1..GuidBytes |-> 16 * DigitValue(s[2 * i - 1]) + DigitValue(s[2 * i])]

\* A text of exactly 2 * GuidBytes hex digits is accepted by
\* dfl_parse_guid, and the buffer holds its bytes.
GuidComplete ==
  (Len(text) = 2 * GuidBytes /\ IsGuidText(text)) => res = GuidBytes /\ guid = SpecGuid(text)

\* Spec 4.4: a GUID is 32 hex characters parsed into 16 bytes; malformed
\* hex is a parse error.  So dfl_parse_guid never reads past the text's
\* terminator, whatever the text, and reports success only for a text
\* that begins with that many hex digits, the buffer then holding exactly
\* those bytes.
GuidSound ==
  /\ res # Overread
  /\ res = GuidBytes => IsGuidText(text) /\ guid = SpecGuid(text)

====
